--------------------------- MODULE RetrievalProofs ---------------------------
(***************************************************************************)
(* Proofs about Corpus and Retrieval, for any sources, requests, queries,   *)
(* limits and token counts.                                                *)
(*                                                                         *)
(* Order: a strict total order on a finite set lists it by counting what    *)
(* comes before each member (InOrderIs).  Fractions compared by their cross *)
(* products, ties broken by the place in the dictionary, are such an order, *)
(* and what both sides agree on is a difference of the scores, not of the   *)
(* ties (AgreedIsAhead).                                                    *)
(*                                                                         *)
(* The table: rows come from ingested contents, ids tell them apart, every  *)
(* parent is there, and while a source has been ingested with one text only *)
(* each of its chunks that shares its id with no other is a row             *)
(* (CorpusInv).  A chunk with a chunk_seq shares its id with no other, and  *)
(* the chunks with one cover the text: of the windows, by the first one     *)
(* that ends at or after the token (WindowsCover).                          *)
(*                                                                         *)
(* A call: what it has found and kept are rows of the table, and the table  *)
(* only grows, so the calls that rest are not disturbed by the steps of the *)
(* others (SearchInv, RestKeeps).                                           *)
(*                                                                         *)
(* The passages: a file holds the passage of its query, and half of one     *)
(* only for a reason that lasts until the cache is cleared (HydeInv).       *)
(***************************************************************************)
EXTENDS WidgetProofs

-----------------------------------------------------------------------------
(* Sets in order.                                                          *)

StrictOrder(S, R) ==
    /\ \A x \in S : <<x, x>> \notin R
    /\ \A x, y, z \in S : <<x, y>> \in R /\ <<y, z>> \in R => <<x, z>> \in R
    /\ \A x, y \in S : x # y => <<x, y>> \in R \/ <<y, x>> \in R

Earlier(S, R, x) == {y \in S : <<y, x>> \in R}

LEMMA EarlierGrows ==
    ASSUME NEW S, NEW R, IsFiniteSet(S), StrictOrder(S, R), NEW x \in S
    PROVE  /\ Cardinality(S) \in Nat
           /\ Cardinality(Earlier(S, R, x)) \in 0..(Cardinality(S) - 1)
           /\ \A y \in S : <<y, x>> \in R =>
                 Cardinality(Earlier(S, R, y)) < Cardinality(Earlier(S, R, x))
<1>1. /\ Earlier(S, R, x) \in SUBSET (S \ {x}) /\ IsFiniteSet(S \ {x})
      /\ Cardinality(S \ {x}) = Cardinality(S) - 1 /\ Cardinality(S) \in Nat
  BY FS_RemoveElement, FS_CardinalityType DEF Earlier, StrictOrder
<1>2. /\ IsFiniteSet(Earlier(S, R, x))
      /\ Cardinality(Earlier(S, R, x)) <= Cardinality(S) - 1
  BY <1>1, FS_Subset
<1>3. Cardinality(Earlier(S, R, x)) \in Nat
  BY <1>2, FS_CardinalityType
<1>4. ASSUME NEW y \in S, <<y, x>> \in R
      PROVE  Cardinality(Earlier(S, R, y)) < Cardinality(Earlier(S, R, x))
  <2>1. Earlier(S, R, y) \in SUBSET Earlier(S, R, x) /\ y \in Earlier(S, R, x)
        /\ y \notin Earlier(S, R, y)
    BY <1>4 DEF Earlier, StrictOrder
  <2>2. /\ Cardinality(Earlier(S, R, y)) <= Cardinality(Earlier(S, R, x))
        /\ IsFiniteSet(Earlier(S, R, y))
        /\ Cardinality(Earlier(S, R, y)) # Cardinality(Earlier(S, R, x))
    BY <1>2, <2>1, FS_Subset
  <2>3. Cardinality(Earlier(S, R, y)) \in Nat
    BY <2>2, FS_CardinalityType
  <2>4. QED
    BY <1>3, <2>2, <2>3
<1>5. QED
  BY <1>1, <1>2, <1>3, <1>4

\* Everything is in the list once, and the list is in order.
InOrderOf(l, S, R) ==
    /\ Cardinality(S) \in Nat /\ l \in [1..Cardinality(S) -> S]
    /\ \A x \in S : \E k \in 1..Cardinality(S) : l[k] = x
    /\ \A j, k \in 1..Cardinality(S) : j < k <=> <<l[j], l[k]>> \in R
    /\ \A j, k \in 1..Cardinality(S) : j # k => l[j] # l[k]
    /\ \A k \in 1..Cardinality(S) : Cardinality(Earlier(S, R, l[k])) = k - 1

LEMMA InOrderIs ==
    ASSUME NEW S, NEW R, IsFiniteSet(S), StrictOrder(S, R)
    PROVE  InOrderOf(InOrder(S, R), S, R)
<1> DEFINE n == Cardinality(S)
           place == [x \in S |-> Cardinality(Earlier(S, R, x))]
           l == InOrder(S, R)
<1>1. n \in Nat /\ IsFiniteSet(0..(n - 1)) /\ Cardinality(0..(n - 1)) = n
  <2>1. n \in Nat
    BY FS_CardinalityType
  <2> HIDE DEF n
  <2>2. 0 \in Int /\ n - 1 \in Int
    BY <2>1
  <2>3. /\ IsFiniteSet(0..(n - 1))
        /\ Cardinality(0..(n - 1)) = IF 0 > n - 1 THEN 0 ELSE (n - 1) - 0 + 1
    BY <2>2, FS_Interval
  <2>4. QED
    BY <2>1, <2>3
<1>2. place \in [S -> 0..(n - 1)]
  BY EarlierGrows
<1>3. \A x, y \in S : <<y, x>> \in R => place[y] < place[x]
  BY EarlierGrows
<1>4. \A x, y \in S : place[x] = place[y] => x = y
  <2> HIDE DEF place, n
  <2>1. SUFFICES ASSUME NEW x \in S, NEW y \in S, place[x] = place[y], x # y PROVE FALSE
    OBVIOUS
  <2>2. place[x] < place[y] \/ place[y] < place[x]
    BY <1>3, <2>1 DEF StrictOrder
  <2>3. place[x] \in Int /\ place[y] \in Int
    BY <1>2
  <2>4. QED
    BY <2>1, <2>2, <2>3
<1>5. \A k \in 0..(n - 1) : \E x \in S : place[x] = k
  <2>1. place \in Injection(S, 0..(n - 1))
    BY <1>2, <1>4 DEF Injection, IsInjective
  <2>2. place \in Surjection(S, 0..(n - 1))
    BY <1>1, <2>1, FS_Injection
  <2>3. QED
    BY <2>2 DEF Surjection
<1>6. l = [k \in 1..n |-> CHOOSE x \in S : place[x] = k - 1]
  BY DEF InOrder, Earlier
<1> HIDE DEF place, l, n
<1>7. \A k \in 1..n : l[k] \in S /\ place[l[k]] = k - 1
  <2> SUFFICES ASSUME NEW k \in 1..n PROVE l[k] \in S /\ place[l[k]] = k - 1
    OBVIOUS
  <2>1. k - 1 \in 0..(n - 1)
    BY <1>1
  <2>2. \E x \in S : place[x] = k - 1
    BY <1>5, <2>1
  <2>3. QED
    BY <1>6, <2>2
<1>8. ASSUME NEW x \in S PROVE \E k \in 1..n : l[k] = x
  <2>1. place[x] \in 0..(n - 1) /\ place[x] + 1 \in 1..n /\ (place[x] + 1) - 1 = place[x]
    BY <1>1, <1>2
  <2>2. l[place[x] + 1] = x
    BY <1>4, <1>7, <2>1
  <2>3. QED
    BY <2>1, <2>2
<1>9. ASSUME NEW j \in 1..n, NEW k \in 1..n
      PROVE  (j < k <=> <<l[j], l[k]>> \in R) /\ (j # k => l[j] # l[k])
  <2>1. j \in Int /\ k \in Int /\ l[j] \in S /\ l[k] \in S /\ place[l[j]] = j - 1 /\ place[l[k]] = k - 1
    BY <1>1, <1>7
  <2>2. <<l[j], l[k]>> \in R => j < k
    BY <1>3, <2>1
  <2>3. <<l[k], l[j]>> \in R => k < j
    BY <1>3, <2>1
  <2>4. j # k => l[j] # l[k]
    BY <2>1
  <2>5. j < k => <<l[j], l[k]>> \in R
    BY <2>1, <2>3, <2>4 DEF StrictOrder
  <2>6. QED
    BY <2>2, <2>4, <2>5
<1>10. l \in [1..n -> S]
  BY <1>6, <1>7
<1>11. \A k \in 1..n : Cardinality(Earlier(S, R, l[k])) = k - 1
  BY <1>7 DEF place
<1>12. QED
  BY <1>1, <1>8, <1>9, <1>10, <1>11 DEF InOrderOf, l, n

-----------------------------------------------------------------------------
(* Fusion: the scores order what was found, whatever was found.            *)

\* Fractions are compared by their cross products.
LEMMA FractionOrder ==
    ASSUME NEW a \in Nat, NEW b \in Nat \ {0}, NEW c \in Nat, NEW d \in Nat \ {0},
           NEW e \in Nat, NEW f \in Nat \ {0}
    PROVE  /\ a * d > c * b /\ c * f > e * d => a * f > e * b
           /\ a * d > c * b /\ c * f = e * d => a * f > e * b
           /\ a * d = c * b /\ c * f > e * d => a * f > e * b
           /\ a * d = c * b /\ c * f = e * d => a * f = e * b
<1> DEFINE x == a * f
           y == e * b
<1>1. x \in Nat /\ y \in Nat /\ (x > y \/ x = y \/ y > x)
  OBVIOUS
<1>2. a * d > c * b /\ c * f > e * d => a * f > e * b
  OBVIOUS
<1>3. a * d > c * b /\ c * f = e * d => a * f > e * b
  OBVIOUS
<1>4. a * d = c * b /\ c * f > e * d => a * f > e * b
  OBVIOUS
<1>5. a * d = c * b /\ c * f = e * d => a * f = e * b
  OBVIOUS
<1>6. QED
  BY <1>2, <1>3, <1>4, <1>5

\* A list of rows of different ids.
Distinct(l) ==
    /\ Len(l) \in Nat /\ l = [i \in 1..Len(l) |-> l[i]]
    /\ \A i, j \in 1..Len(l) : l[i].id = l[j].id => i = j

LEMMA PlaceInIs ==
    ASSUME NEW l, Distinct(l), NEW c
    PROVE  /\ PlaceIn(l, c) \in 0..Len(l)
           /\ PlaceIn(l, c) # 0 => l[PlaceIn(l, c)].id = c.id
           /\ \A i \in 1..Len(l) : l[i].id = c.id => PlaceIn(l, c) = i
<1> DEFINE I == {i \in 1..Len(l) : l[i].id = c.id}
<1>1. PlaceIn(l, c) = IF I # {} THEN CHOOSE x \in I : \A y \in I : x =< y ELSE 0
  BY DEF PlaceIn, SelectInSeq, Min
<1>2. \A i \in I : I = {i}
  BY DEF Distinct
<1>3. CASE I = {}
  BY <1>1, <1>3 DEF Distinct
<1>4. CASE I # {}
  <2>1. PICK i \in I : I = {i}
    BY <1>2, <1>4
  <2>2. i \in 1..Len(l) /\ i \in Int /\ l[i].id = c.id
    BY DEF Distinct
  <2>3. PlaceIn(l, c) = i
    <3> HIDE DEF I
    <3>1. \E x \in I : \A y \in I : x =< y
      BY <2>1, <2>2
    <3>2. QED
      BY <1>1, <2>1, <3>1
  <2>4. \A j \in 1..Len(l) : l[j].id = c.id => j = i
    BY <2>1
  <2>5. QED
    BY <2>2, <2>3, <2>4 DEF Distinct
<1>5. QED
  BY <1>3, <1>4

\* Two answers of searches over rows that ids tell apart.
TwoLists(d, s) ==
    /\ Distinct(d) /\ Distinct(s)
    /\ \A c, b \in Range(d) \cup Range(s) : c.id = b.id => c = b

LEMMA RangeIs ==
    ASSUME NEW l, Distinct(l)
    PROVE  DOMAIN l = 1..Len(l) /\ Range(l) = {l[i] : i \in 1..Len(l)}
<1>1. DOMAIN l = 1..Len(l)
  BY DEF Distinct
<1>2. QED
  BY <1>1 DEF Range

LEMMA PlacesAre ==
    ASSUME NEW d, NEW s, TwoLists(d, s)
    PROVE  /\ Len(d) \in Nat /\ Len(s) \in Nat
           /\ \A c : PlaceIn(d, c) \in 0..Len(d) /\ PlaceIn(s, c) \in 0..Len(s)
           /\ \A c \in Range(d) \cup Range(s) : PlaceIn(d, c) # 0 \/ PlaceIn(s, c) # 0
           /\ \A c, b \in Range(d) \cup Range(s) :
                 /\ PlaceIn(d, c) # 0 /\ PlaceIn(d, c) = PlaceIn(d, b) => c = b
                 /\ PlaceIn(s, c) # 0 /\ PlaceIn(s, c) = PlaceIn(s, b) => c = b
<1>1. Len(d) \in Nat /\ Len(s) \in Nat
  BY DEF TwoLists, Distinct
<1>2. \A c : PlaceIn(d, c) \in 0..Len(d) /\ PlaceIn(s, c) \in 0..Len(s)
  BY PlaceInIs DEF TwoLists
<1>3. ASSUME NEW c \in Range(d) \cup Range(s) PROVE PlaceIn(d, c) # 0 \/ PlaceIn(s, c) # 0
  <2>1. CASE c \in Range(d)
    <3>1. PICK i \in 1..Len(d) : c = d[i]
      BY <2>1, RangeIs DEF TwoLists
    <3>2. PlaceIn(d, c) = i
      BY <3>1, PlaceInIs DEF TwoLists
    <3>3. QED
      BY <1>1, <3>2
  <2>2. CASE c \in Range(s)
    <3>1. PICK i \in 1..Len(s) : c = s[i]
      BY <2>2, RangeIs DEF TwoLists
    <3>2. PlaceIn(s, c) = i
      BY <3>1, PlaceInIs DEF TwoLists
    <3>3. QED
      BY <1>1, <3>2
  <2>3. QED
    BY <2>1, <2>2
<1>4. ASSUME NEW c \in Range(d) \cup Range(s), NEW b \in Range(d) \cup Range(s)
      PROVE  /\ PlaceIn(d, c) # 0 /\ PlaceIn(d, c) = PlaceIn(d, b) => c = b
             /\ PlaceIn(s, c) # 0 /\ PlaceIn(s, c) = PlaceIn(s, b) => c = b
  <2>1. PlaceIn(d, c) # 0 /\ PlaceIn(d, c) = PlaceIn(d, b) => c.id = b.id
    <3>1. /\ PlaceIn(d, c) # 0 => d[PlaceIn(d, c)].id = c.id
          /\ PlaceIn(d, b) # 0 => d[PlaceIn(d, b)].id = b.id
      BY PlaceInIs DEF TwoLists
    <3>2. QED
      BY <3>1
  <2>2. PlaceIn(s, c) # 0 /\ PlaceIn(s, c) = PlaceIn(s, b) => c.id = b.id
    <3>1. /\ PlaceIn(s, c) # 0 => s[PlaceIn(s, c)].id = c.id
          /\ PlaceIn(s, b) # 0 => s[PlaceIn(s, b)].id = b.id
      BY PlaceInIs DEF TwoLists
    <3>2. QED
      BY <3>1
  <2>3. QED
    BY <2>1, <2>2 DEF TwoLists
<1>5. QED
  BY <1>1, <1>2, <1>3, <1>4

LEMMA ScoreIs ==
    ASSUME NEW d, NEW s, NEW c, PlaceIn(d, c) \in Nat, PlaceIn(s, c) \in Nat
    PROVE  LET p == RrfK + PlaceIn(d, c)
               u == RrfK + PlaceIn(s, c)
           IN  /\ PlaceIn(d, c) = 0 /\ PlaceIn(s, c) # 0 =>
                     Score(d, s, c) = [num |-> 2, den |-> u]
               /\ PlaceIn(d, c) # 0 /\ PlaceIn(s, c) = 0 =>
                     Score(d, s, c) = [num |-> 1, den |-> p]
               /\ PlaceIn(d, c) # 0 /\ PlaceIn(s, c) # 0 =>
                     Score(d, s, c) = [num |-> u + 2 * p, den |-> p * u]
<1>1. PlaceIn(d, c) = 0 /\ PlaceIn(s, c) # 0 =>
         Score(d, s, c) = [num |-> 2, den |-> RrfK + PlaceIn(s, c)]
  BY DEF Score
<1>2. PlaceIn(d, c) # 0 /\ PlaceIn(s, c) = 0 =>
         Score(d, s, c) = [num |-> 1, den |-> RrfK + PlaceIn(d, c)]
  BY DEF Score
<1>3. PlaceIn(d, c) # 0 /\ PlaceIn(s, c) # 0 =>
         Score(d, s, c) = [num |-> (RrfK + PlaceIn(s, c)) + 2 * (RrfK + PlaceIn(d, c)),
                           den |-> (RrfK + PlaceIn(d, c)) * (RrfK + PlaceIn(s, c))]
  BY DEF Score
<1>4. QED
  BY <1>1, <1>2, <1>3

LEMMA ScoreType ==
    ASSUME NEW d, NEW s, TwoLists(d, s), NEW c \in Range(d) \cup Range(s)
    PROVE  Score(d, s, c).num \in Nat \ {0} /\ Score(d, s, c).den \in Nat \ {0}
<1> DEFINE i == PlaceIn(d, c)
           j == PlaceIn(s, c)
<1>1. i \in Nat /\ j \in Nat /\ (i # 0 \/ j # 0) /\ RrfK \in Nat
  BY PlacesAre, RetrievalAssumption
<1>2. CASE i = 0
  <2>1. Score(d, s, c) = [num |-> 2, den |-> RrfK + j]
    BY <1>1, <1>2 DEF Score
  <2> HIDE DEF i, j
  <2>2. QED
    BY <1>1, <1>2, <2>1
<1>3. CASE i # 0 /\ j = 0
  <2>1. Score(d, s, c) = [num |-> 1, den |-> RrfK + i]
    BY <1>3 DEF Score
  <2> HIDE DEF i, j
  <2>2. QED
    BY <1>1, <1>3, <2>1
<1>4. CASE i # 0 /\ j # 0
  <2>1. Score(d, s, c) = [num |-> (RrfK + j) + 2 * (RrfK + i),
                          den |-> (RrfK + i) * (RrfK + j)]
    BY <1>4 DEF Score
  <2> HIDE DEF i, j
  <2>2. (RrfK + j) + 2 * (RrfK + i) \in Nat \ {0} /\ (RrfK + i) * (RrfK + j) \in Nat \ {0}
    BY <1>1, <1>4
  <2>3. QED
    BY <2>1, <2>2
<1>5. QED
  BY <1>2, <1>3, <1>4

LEMMA EntryIs ==
    ASSUME NEW d, NEW s, TwoLists(d, s)
    PROVE  \A c, b \in Range(d) \cup Range(s) :
              Entry(d, s, c) \in Nat /\ (Entry(d, s, c) = Entry(d, s, b) => c = b)
<1> SUFFICES ASSUME NEW c \in Range(d) \cup Range(s), NEW b \in Range(d) \cup Range(s)
             PROVE  Entry(d, s, c) \in Nat /\ (Entry(d, s, c) = Entry(d, s, b) => c = b)
  OBVIOUS
<1>1. /\ Len(d) \in Nat /\ Len(s) \in Nat
      /\ PlaceIn(d, c) \in 0..Len(d) /\ PlaceIn(s, c) \in 0..Len(s)
      /\ PlaceIn(d, b) \in 0..Len(d) /\ PlaceIn(s, b) \in 0..Len(s)
      /\ PlaceIn(d, c) # 0 \/ PlaceIn(s, c) # 0
      /\ PlaceIn(d, b) # 0 \/ PlaceIn(s, b) # 0
      /\ PlaceIn(d, c) # 0 /\ PlaceIn(d, c) = PlaceIn(d, b) => c = b
      /\ PlaceIn(s, c) # 0 /\ PlaceIn(s, c) = PlaceIn(s, b) => c = b
  BY PlacesAre
<1>2. /\ Entry(d, s, c) \in Nat
      /\ Entry(d, s, c) = Entry(d, s, b) =>
           \/ PlaceIn(d, c) # 0 /\ PlaceIn(d, c) = PlaceIn(d, b)
           \/ PlaceIn(s, c) # 0 /\ PlaceIn(s, c) = PlaceIn(s, b)
  BY <1>1 DEF Entry
<1>3. QED
  BY <1>1, <1>2

FuseOrder(d, s) ==
    LET rows == Range(d) \cup Range(s)
    IN  {p \in rows \X rows : Ahead(d, s, p[1], p[2])}

LEMMA FuseIsOrdered == ASSUME NEW d, NEW s, TwoLists(d, s)
                       PROVE  StrictOrder(Range(d) \cup Range(s), FuseOrder(d, s))
<1> DEFINE rows == Range(d) \cup Range(s)
           N(c) == Score(d, s, c).num
           D(c) == Score(d, s, c).den
           E(c) == Entry(d, s, c)
<1>1. \A c, b \in rows : <<c, b>> \in FuseOrder(d, s) <=> Ahead(d, s, c, b)
  BY DEF FuseOrder
<1>2. \A c, b \in rows : Ahead(d, s, c, b) <=> \/ N(c) * D(b) > N(b) * D(c)
                                               \/ N(c) * D(b) = N(b) * D(c) /\ E(c) < E(b)
  BY DEF Ahead
<1>3. \A c \in rows : N(c) \in Nat \ {0} /\ D(c) \in Nat \ {0} /\ E(c) \in Nat
  BY ScoreType, EntryIs
<1>4. \A c, b \in rows : E(c) = E(b) => c = b
  BY EntryIs
<1> HIDE DEF rows, N, D, E
<1>5. ASSUME NEW c \in rows PROVE ~Ahead(d, s, c, c)
  <2>1. N(c) * D(c) \in Nat
    BY <1>3
  <2>2. QED
    BY <1>2, <1>3, <2>1
<1>6. ASSUME NEW a \in rows, NEW b \in rows, NEW c \in rows, Ahead(d, s, a, b), Ahead(d, s, b, c)
      PROVE  Ahead(d, s, a, c)
  <2>1. /\ N(a) \in Nat /\ N(b) \in Nat /\ N(c) \in Nat
        /\ D(a) \in Nat \ {0} /\ D(b) \in Nat \ {0} /\ D(c) \in Nat \ {0}
        /\ E(a) \in Nat /\ E(b) \in Nat /\ E(c) \in Nat
    BY <1>3
  <2>2. /\ \/ N(a) * D(b) > N(b) * D(a)
           \/ N(a) * D(b) = N(b) * D(a) /\ E(a) < E(b)
        /\ \/ N(b) * D(c) > N(c) * D(b)
           \/ N(b) * D(c) = N(c) * D(b) /\ E(b) < E(c)
    BY <1>2, <1>6
  <2>3. /\ N(a) * D(b) > N(b) * D(a) /\ N(b) * D(c) > N(c) * D(b) => N(a) * D(c) > N(c) * D(a)
        /\ N(a) * D(b) > N(b) * D(a) /\ N(b) * D(c) = N(c) * D(b) => N(a) * D(c) > N(c) * D(a)
        /\ N(a) * D(b) = N(b) * D(a) /\ N(b) * D(c) > N(c) * D(b) => N(a) * D(c) > N(c) * D(a)
        /\ N(a) * D(b) = N(b) * D(a) /\ N(b) * D(c) = N(c) * D(b) => N(a) * D(c) = N(c) * D(a)
    <3> DEFINE More(u, x, v, y) == u * y > v * x
               Same(u, x, v, y) == u * y = v * x
    <3>1. \A u, v, w \in Nat : \A x, y, z \in Nat \ {0} :
             /\ More(u, x, v, y) /\ More(v, y, w, z) => More(u, x, w, z)
             /\ More(u, x, v, y) /\ Same(v, y, w, z) => More(u, x, w, z)
             /\ Same(u, x, v, y) /\ More(v, y, w, z) => More(u, x, w, z)
             /\ Same(u, x, v, y) /\ Same(v, y, w, z) => Same(u, x, w, z)
      BY FractionOrder
    <3> HIDE DEF More, Same
    <3>2. /\ More(N(a), D(a), N(b), D(b)) /\ More(N(b), D(b), N(c), D(c)) => More(N(a), D(a), N(c), D(c))
          /\ More(N(a), D(a), N(b), D(b)) /\ Same(N(b), D(b), N(c), D(c)) => More(N(a), D(a), N(c), D(c))
          /\ Same(N(a), D(a), N(b), D(b)) /\ More(N(b), D(b), N(c), D(c)) => More(N(a), D(a), N(c), D(c))
          /\ Same(N(a), D(a), N(b), D(b)) /\ Same(N(b), D(b), N(c), D(c)) => Same(N(a), D(a), N(c), D(c))
      BY <2>1, <3>1
    <3>3. QED
      BY <3>2 DEF More, Same
  <2>4. E(a) < E(b) /\ E(b) < E(c) => E(a) < E(c)
    BY <2>1
  <2>5. \/ N(a) * D(c) > N(c) * D(a)
        \/ N(a) * D(c) = N(c) * D(a) /\ E(a) < E(c)
    BY <2>2, <2>3, <2>4
  <2>6. QED
    BY <1>2, <2>5
<1>7. ASSUME NEW c \in rows, NEW b \in rows, c # b PROVE Ahead(d, s, c, b) \/ Ahead(d, s, b, c)
  <2>1. N(c) * D(b) \in Nat /\ N(b) * D(c) \in Nat
    BY <1>3
  <2>2. E(c) < E(b) \/ E(b) < E(c)
    BY <1>3, <1>4, <1>7
  <2>3. \/ N(c) * D(b) > N(b) * D(c) \/ N(b) * D(c) > N(c) * D(b)
        \/ N(c) * D(b) = N(b) * D(c)
    BY <2>1
  <2>4. QED
    BY <1>2, <2>2, <2>3
<1>8. QED
  BY <1>1, <1>5, <1>6, <1>7 DEF StrictOrder, rows

LEMMA FuseIs == ASSUME NEW d, NEW s, TwoLists(d, s)
                PROVE  InOrderOf(Fuse(d, s), Range(d) \cup Range(s), FuseOrder(d, s))
<1>1. IsFiniteSet(Range(d)) /\ IsFiniteSet(Range(s))
  <2>1. ASSUME NEW l, Distinct(l) PROVE IsFiniteSet(Range(l))
    <3>1. IsFiniteSet(1..Len(l))
      BY <2>1, FS_Interval DEF Distinct
    <3>2. l \in Surjection(1..Len(l), Range(l))
      BY <2>1, RangeIs DEF Distinct, Surjection
    <3>3. QED
      BY <3>1, <3>2, FS_Surjection
  <2>2. QED
    BY <2>1 DEF TwoLists
<1>2. IsFiniteSet(Range(d) \cup Range(s))
  BY <1>1, FS_Union
<1>3. Fuse(d, s) = InOrder(Range(d) \cup Range(s), FuseOrder(d, s))
  BY DEF Fuse, FuseOrder
<1>4. QED
  BY <1>2, <1>3, FuseIsOrdered, InOrderIs

\* What both sides agree on is a difference of the scores, not of the tie-break.
LEMMA AgreedIsAhead ==
    ASSUME NEW d, NEW s, TwoLists(d, s),
           NEW c \in Range(d) \cup Range(s), NEW b \in Range(d) \cup Range(s),
           AtLeastAsEarly(d, c, b), AtLeastAsEarly(s, c, b)
    PROVE  Ahead(d, s, c, b)
<1> DEFINE p == RrfK + PlaceIn(d, c)
           q == RrfK + PlaceIn(d, b)
           u == RrfK + PlaceIn(s, c)
           v == RrfK + PlaceIn(s, b)
           x == Score(d, s, c)
           y == Score(d, s, b)
<1>1. /\ PlaceIn(d, c) \in Nat /\ PlaceIn(s, c) \in Nat /\ PlaceIn(d, b) \in Nat /\ PlaceIn(s, b) \in Nat
      /\ PlaceIn(d, b) # 0 \/ PlaceIn(s, b) # 0
      /\ PlaceIn(d, b) # 0 => PlaceIn(d, c) # 0 /\ PlaceIn(d, c) < PlaceIn(d, b)
      /\ PlaceIn(s, b) # 0 => PlaceIn(s, c) # 0 /\ PlaceIn(s, c) < PlaceIn(s, b)
  BY PlacesAre, RetrievalAssumption DEF AtLeastAsEarly
<1>2. RrfK \in Nat
  BY RetrievalAssumption
<1>3. p \in Nat /\ q \in Nat /\ u \in Nat /\ v \in Nat
  BY <1>1, <1>2
<1>4. /\ PlaceIn(d, c) # 0 => p > 0
      /\ PlaceIn(s, c) # 0 => u > 0
      /\ PlaceIn(d, b) # 0 => p < q
      /\ PlaceIn(s, b) # 0 => u < v
  BY <1>1, <1>2
<1>5. /\ PlaceIn(d, c) = 0 /\ PlaceIn(s, c) # 0 => x = [num |-> 2, den |-> u]
      /\ PlaceIn(d, c) # 0 /\ PlaceIn(s, c) = 0 => x = [num |-> 1, den |-> p]
      /\ PlaceIn(d, c) # 0 /\ PlaceIn(s, c) # 0 => x = [num |-> u + 2 * p, den |-> p * u]
  BY <1>1, ScoreIs
<1>6. /\ PlaceIn(d, b) = 0 /\ PlaceIn(s, b) # 0 => y = [num |-> 2, den |-> v]
      /\ PlaceIn(d, b) # 0 /\ PlaceIn(s, b) = 0 => y = [num |-> 1, den |-> q]
      /\ PlaceIn(d, b) # 0 /\ PlaceIn(s, b) # 0 => y = [num |-> v + 2 * q, den |-> q * v]
  BY <1>1, ScoreIs
<1> HIDE DEF p, q, u, v, x, y
<1>7. x.num * y.den > y.num * x.den
  <2>1. CASE PlaceIn(d, b) # 0 /\ PlaceIn(s, b) # 0
    <3>1. p > 0 /\ u > 0 /\ p < q /\ u < v
      BY <1>1, <1>4, <2>1
    <3>2. (u + 2 * p) * (q * v) > (v + 2 * q) * (p * u)
      BY <1>3, <3>1
    <3>3. x.num = u + 2 * p /\ x.den = p * u /\ y.num = v + 2 * q /\ y.den = q * v
      BY <1>1, <1>5, <1>6, <2>1
    <3>4. QED
      BY <3>2, <3>3
  <2>2. CASE PlaceIn(d, b) # 0 /\ PlaceIn(s, b) = 0
    <3>1. p > 0 /\ p < q /\ y.num = 1 /\ y.den = q
      BY <1>1, <1>4, <1>6, <2>2
    <3>2. CASE PlaceIn(s, c) = 0
      <4>1. x.num = 1 /\ x.den = p
        BY <1>1, <1>5, <2>2, <3>2
      <4>2. QED
        BY <1>3, <3>1, <4>1
    <3>3. CASE PlaceIn(s, c) # 0
      <4>1. x.num = u + 2 * p /\ x.den = p * u /\ u > 0
        BY <1>1, <1>4, <1>5, <2>2, <3>3
      <4>2. (u + 2 * p) * q > 1 * (p * u)
        BY <1>3, <3>1, <4>1
      <4>3. QED
        BY <3>1, <4>1, <4>2
    <3>4. QED
      BY <3>2, <3>3
  <2>3. CASE PlaceIn(d, b) = 0 /\ PlaceIn(s, b) # 0
    <3>1. u > 0 /\ u < v /\ y.num = 2 /\ y.den = v
      BY <1>1, <1>4, <1>6, <2>3
    <3>2. CASE PlaceIn(d, c) = 0
      <4>1. x.num = 2 /\ x.den = u
        BY <1>1, <1>5, <2>3, <3>2
      <4>2. QED
        BY <1>3, <3>1, <4>1
    <3>3. CASE PlaceIn(d, c) # 0
      <4>1. x.num = u + 2 * p /\ x.den = p * u /\ p > 0
        BY <1>1, <1>4, <1>5, <2>3, <3>3
      <4>2. (u + 2 * p) * v > 2 * (p * u)
        BY <1>3, <3>1, <4>1
      <4>3. QED
        BY <3>1, <4>1, <4>2
    <3>4. QED
      BY <3>2, <3>3
  <2>4. QED
    BY <1>1, <2>1, <2>2, <2>3
<1>8. QED
  BY <1>7 DEF Ahead, x, y

\* a is how l begins.
Prefix(a, l) == /\ Len(a) \in Nat /\ Len(a) <= Len(l) /\ a = [i \in 1..Len(a) |-> a[i]]
                /\ \A i \in 1..Len(a) : a[i] = l[i]

LEMMA CutIs ==
    ASSUME NEW S, NEW l \in Seq(S), NEW n \in Nat
    PROVE  /\ Prefix(Cut(l, n), l) /\ Cut(l, n) \in Seq(S)
           /\ Len(Cut(l, n)) = Least(n, Len(l)) /\ Len(Cut(l, n)) <= n
           /\ \A i \in 1..Len(Cut(l, n)) : Cut(l, n)[i] = l[i]
<1>1. Least(n, Len(l)) \in 0..Len(l) /\ Least(n, Len(l)) <= n /\ Len(l) \in Nat
  BY DEF Least
<1>2. /\ Cut(l, n) \in Seq(S) /\ Len(Cut(l, n)) = Least(n, Len(l))
      /\ \A i \in 1..Least(n, Len(l)) : Cut(l, n)[i] = l[i]
  BY <1>1 DEF Cut
<1>3. Cut(l, n) = [i \in 1..Len(Cut(l, n)) |-> Cut(l, n)[i]]
  BY <1>2
<1>4. QED
  BY <1>1, <1>2, <1>3 DEF Prefix

LEMMA FusedInOrder ==
    ASSUME NEW d, NEW s, TwoLists(d, s), NEW a, Prefix(a, Fuse(d, s)),
           NEW c \in Range(d) \cup Range(s), NEW b \in Range(d) \cup Range(s),
           AtLeastAsEarly(d, c, b), AtLeastAsEarly(s, c, b), PlaceIn(a, b) # 0
    PROVE  PlaceIn(a, c) \in 1..(PlaceIn(a, b) - 1)
<1> DEFINE rows == Range(d) \cup Range(s)
           l == Fuse(d, s)
           n == Cardinality(rows)
<1>1. /\ n \in Nat /\ l \in [1..n -> rows]
      /\ \A x \in rows : \E k \in 1..n : l[k] = x
      /\ \A j, k \in 1..n : j < k <=> <<l[j], l[k]>> \in FuseOrder(d, s)
      /\ \A j, k \in 1..n : j # k => l[j] # l[k]
  <2>1. InOrderOf(l, rows, FuseOrder(d, s))
    BY FuseIs
  <2> HIDE DEF l, rows
  <2>2. QED
    BY <2>1 DEF InOrderOf
<1>2. <<c, b>> \in FuseOrder(d, s)
  BY AgreedIsAhead DEF FuseOrder
<1>3. \A x, y \in rows : x.id = y.id => x = y
  BY DEF TwoLists
<1> HIDE DEF rows, l, n
<1>4. c \in rows /\ b \in rows
  BY DEF rows
<1>5. Len(l) = n
  BY <1>1
<1>6. Len(a) \in Nat /\ Len(a) <= n /\ \A i \in 1..Len(a) : a[i] = l[i] /\ i \in 1..n
  BY <1>1, <1>5 DEF Prefix, l
<1>7. Distinct(a)
  <2>1. \A i, j \in 1..Len(a) : a[i].id = a[j].id => i = j
    BY <1>1, <1>3, <1>6
  <2>2. QED
    BY <1>6, <2>1 DEF Distinct, Prefix
<1>8. PICK j \in 1..Len(a) : PlaceIn(a, b) = j /\ a[j].id = b.id
  BY <1>7, PlaceInIs
<1>9. l[j] = b /\ j \in 1..n
  BY <1>1, <1>3, <1>4, <1>6, <1>8
<1>10. PICK k \in 1..n : l[k] = c
  BY <1>1, <1>4
<1>11. k < j
  BY <1>1, <1>2, <1>9, <1>10
<1>12. k \in 1..Len(a) /\ a[k] = c
  BY <1>1, <1>6, <1>8, <1>10, <1>11
<1>13. PlaceIn(a, c) = k
  BY <1>7, <1>12, PlaceInIs
<1>14. QED
  BY <1>1, <1>8, <1>11, <1>13

-----------------------------------------------------------------------------
(* Chunks: the ids of a source, and what its chunks cover.                 *)

LEMMA LeastNat ==
    ASSUME NEW S \in SUBSET Nat, S # {}
    PROVE  \E m \in S : \A n \in S : m <= n
<1>1. \E m \in S : \A n \in S : ~(<<n, m>> \in OpToRel(<, Nat))
  BY NatLessThanWellFounded, WFMin
<1>2. PICK m \in S : \A n \in S : ~(<<n, m>> \in OpToRel(<, Nat))
  BY <1>1
<1>3. \A n \in S : ~(n < m)
  BY <1>2 DEF OpToRel
<1>4. QED
  BY <1>3

LEMMA ImageIsFinite ==
    ASSUME NEW S, IsFiniteSet(S), NEW f
    PROVE  IsFiniteSet({f[x] : x \in S})
<1> DEFINE g == [x \in S |-> f[x]]
           T == {f[x] : x \in S}
<1>1. g \in Surjection(S, T)
  BY DEF Surjection
<1>2. QED
  BY <1>1, FS_Surjection

WellFormed(d) == Len(d) \in Nat /\ \A i \in 1..Len(d) : d[i].size \in Nat

LEMMA StepType == /\ Step \in Nat \ {0} /\ MaxTokens \in Nat /\ Overlap \in Nat
                  /\ MinTokens \in Nat /\ MinTokens <= Overlap + 1 /\ MinTokens <= MaxTokens
                  /\ MinTokens > 0 /\ Step + Overlap = MaxTokens
  BY CorpusAssumption DEF Step

LEMMA WindowsAre ==
    ASSUME NEW n \in Nat
    PROVE  /\ IsFiniteSet(SectionPieces(n))
           /\ \A w \in SectionPieces(n) :
                 /\ w = [from |-> w.from, to |-> w.to] /\ w.from \in Nat /\ w.to \in Nat
                 /\ w.to = Least(w.from + MaxTokens, n)
                 /\ n >= MinTokens /\ w.to <= n
<1>1. Starts(n) \in SUBSET Nat
  BY StepType DEF Starts
<1>2. IsFiniteSet(Starts(n))
  <2> DEFINE J == {j \in 0..n : j = 0 \/ (j - 1) * Step + MaxTokens < n}
             f == [k \in J |-> k * Step]
  <2>1. IsFiniteSet(0..n) /\ J \in SUBSET (0..n)
    BY FS_Interval
  <2>2. IsFiniteSet(J)
    BY <2>1, FS_Subset
  <2>3. Starts(n) = {f[k] : k \in J}
    BY DEF Starts
  <2> HIDE DEF J, f
  <2>4. QED
    BY <2>2, <2>3, ImageIsFinite
<1>3. IsFiniteSet(Windows(n))
  <2> DEFINE f == [a \in Starts(n) |-> [from |-> a, to |-> Least(a + MaxTokens, n)]]
             W == {f[a] : a \in Starts(n)}
  <2>1. IsFiniteSet(W)
    <3> HIDE DEF f
    <3>1. QED
      BY <1>2, ImageIsFinite
  <2>2. Windows(n) \in SUBSET W
    BY DEF Windows
  <2> HIDE DEF W
  <2>3. QED
    BY <2>1, <2>2, FS_Subset
<1>4. ASSUME NEW w \in Windows(n)
      PROVE  /\ w = [from |-> w.from, to |-> w.to] /\ w.from \in Nat /\ w.to \in Nat
             /\ w.to = Least(w.from + MaxTokens, n) /\ w.to <= n
  <2>1. PICK a \in Starts(n) : w = [from |-> a, to |-> Least(a + MaxTokens, n)]
    BY DEF Windows
  <2>2. a \in Nat /\ Least(a + MaxTokens, n) \in Nat /\ Least(a + MaxTokens, n) <= n
    BY <1>1, StepType DEF Least
  <2>3. QED
    BY <2>1, <2>2
<1>5. CASE n < MinTokens
  BY <1>5, FS_EmptySet, StepType DEF SectionPieces
<1>6. CASE MinTokens <= n /\ n <= MaxTokens
  <2>1. SectionPieces(n) = {[from |-> 0, to |-> n]}
    BY <1>6, StepType DEF SectionPieces
  <2>2. \A w \in SectionPieces(n) :
           /\ w = [from |-> w.from, to |-> w.to] /\ w.from \in Nat /\ w.to \in Nat
           /\ w.to = Least(w.from + MaxTokens, n) /\ n >= MinTokens /\ w.to <= n
    BY <1>6, <2>1, StepType DEF Least
  <2>3. IsFiniteSet(SectionPieces(n))
    BY <2>1, FS_Singleton
  <2>4. QED
    BY <2>2, <2>3
<1>7. CASE MaxTokens < n
  <2>1. SectionPieces(n) = Windows(n) /\ n >= MinTokens
    BY <1>7, StepType DEF SectionPieces
  <2>2. QED
    BY <1>3, <1>4, <2>1
<1>8. QED
  BY <1>5, <1>6, <1>7, StepType

LEMMA PiecesAre ==
    ASSUME NEW d, WellFormed(d)
    PROVE  /\ IsFiniteSet(Pieces(d))
           /\ \A p \in Pieces(d) :
                 /\ p = [part |-> p.part, from |-> p.from, to |-> p.to]
                 /\ p.part \in 1..Len(d) /\ p.from \in Nat /\ p.to \in Nat
                 /\ p.to <= d[p.part].size /\ d[p.part].size >= MinTokens
           /\ \A p, q \in Pieces(d) : p.part = q.part /\ p.from = q.from => p = q
<1> DEFINE Of(i) == {[part |-> i, from |-> w.from, to |-> w.to] : w \in SectionPieces(d[i].size)}
           all == [i \in 1..Len(d) |-> Of(i)]
           P == {all[i] : i \in 1..Len(d)}
<1>1. \A i \in 1..Len(d) : d[i].size \in Nat
  BY DEF WellFormed
<1>2. ASSUME NEW i \in 1..Len(d) PROVE IsFiniteSet(Of(i))
  <2> DEFINE W == SectionPieces(d[i].size)
             f == [w \in W |-> [part |-> i, from |-> w.from, to |-> w.to]]
  <2>1. IsFiniteSet(W)
    BY <1>1, WindowsAre
  <2>2. Of(i) = {f[w] : w \in W}
    OBVIOUS
  <2> HIDE DEF W, f, Of
  <2>3. QED
    BY <2>1, <2>2, ImageIsFinite
<1>3. Pieces(d) = UNION P
  BY DEF Pieces
<1>4. IsFiniteSet(P)
  <2>1. IsFiniteSet(1..Len(d))
    BY FS_Interval DEF WellFormed
  <2> HIDE DEF all
  <2>2. QED
    BY <2>1, ImageIsFinite
<1>5. IsFiniteSet(Pieces(d))
  <2>1. \A T \in P : IsFiniteSet(T)
    BY <1>2
  <2> HIDE DEF P
  <2>2. QED
    BY <1>3, <1>4, <2>1, FS_UNION
<1>6. ASSUME NEW p \in Pieces(d)
      PROVE  /\ p = [part |-> p.part, from |-> p.from, to |-> p.to]
             /\ p.part \in 1..Len(d) /\ p.from \in Nat /\ p.to \in Nat
             /\ p.to = Least(p.from + MaxTokens, d[p.part].size)
             /\ p.to <= d[p.part].size /\ d[p.part].size >= MinTokens
  <2>1. PICK i \in 1..Len(d) : \E w \in SectionPieces(d[i].size) :
                                  p = [part |-> i, from |-> w.from, to |-> w.to]
    BY DEF Pieces
  <2>2. PICK w \in SectionPieces(d[i].size) : p = [part |-> i, from |-> w.from, to |-> w.to]
    BY <2>1
  <2>3. /\ w.from \in Nat /\ w.to \in Nat /\ w.to = Least(w.from + MaxTokens, d[i].size)
        /\ d[i].size >= MinTokens /\ w.to <= d[i].size
    BY <1>1, WindowsAre
  <2>4. QED
    BY <2>2, <2>3
<1>7. ASSUME NEW p \in Pieces(d), NEW q \in Pieces(d), p.part = q.part, p.from = q.from
      PROVE  p = q
  <2>1. p.to = q.to
    BY <1>6, <1>7
  <2>2. p = [part |-> p.part, from |-> p.from, to |-> p.to]
        /\ q = [part |-> q.part, from |-> q.from, to |-> q.to]
    BY <1>6
  <2>3. QED
    BY <1>7, <2>1, <2>2
<1>8. QED
  BY <1>5, <1>6, <1>7

\* Counting what comes before gives a number to each.
LEMMA CountsDiffer ==
    ASSUME NEW S, NEW R, IsFiniteSet(S), StrictOrder(S, R)
    PROVE  /\ \A x \in S : Cardinality(Earlier(S, R, x)) \in Nat
           /\ \A x, y \in S : Cardinality(Earlier(S, R, x)) = Cardinality(Earlier(S, R, y)) => x = y
<1>1. \A x \in S : Cardinality(Earlier(S, R, x)) \in Nat
  BY EarlierGrows
<1>2. \A x, y \in S : <<x, y>> \in R =>
         Cardinality(Earlier(S, R, x)) < Cardinality(Earlier(S, R, y))
  BY EarlierGrows
<1>3. ASSUME NEW x \in S, NEW y \in S, x # y
      PROVE  Cardinality(Earlier(S, R, x)) # Cardinality(Earlier(S, R, y))
  <2>1. <<x, y>> \in R \/ <<y, x>> \in R
    BY <1>3 DEF StrictOrder
  <2>2. QED
    BY <1>1, <1>2, <2>1
<1>4. QED
  BY <1>1, <1>3

LEMMA ChunkSeqIs ==
    ASSUME NEW d, WellFormed(d)
    PROVE  /\ \A p \in Pieces(d) : ChunkSeq(Pieces(d), p) \in Nat
           /\ \A p, q \in Pieces(d) : ChunkSeq(Pieces(d), p) = ChunkSeq(Pieces(d), q) => p = q
<1> DEFINE S == Pieces(d)
           R == {x \in S \X S : \/ x[1].part < x[2].part
                                \/ x[1].part = x[2].part /\ x[1].from < x[2].from}
<1>1. /\ \A p \in S : p.part \in Int /\ p.from \in Int
      /\ \A p, q \in S : p.part = q.part /\ p.from = q.from => p = q
      /\ IsFiniteSet(S)
  BY PiecesAre
<1>2. \A x, y \in S : <<x, y>> \in R <=> \/ x.part < y.part
                                         \/ x.part = y.part /\ x.from < y.from
  OBVIOUS
<1> HIDE DEF S, R
<1>3. StrictOrder(S, R)
  <2>1. \A x \in S : <<x, x>> \notin R
    BY <1>1, <1>2
  <2>2. \A x, y, z \in S : <<x, y>> \in R /\ <<y, z>> \in R => <<x, z>> \in R
    BY <1>1, <1>2
  <2>3. \A x, y \in S : x # y => <<x, y>> \in R \/ <<y, x>> \in R
    BY <1>1, <1>2
  <2>4. QED
    BY <2>1, <2>2, <2>3 DEF StrictOrder
<1>4. \A p \in S : ChunkSeq(S, p) = Cardinality(Earlier(S, R, p))
  BY <1>2 DEF ChunkSeq, Earlier
<1>5. QED
  BY <1>1, <1>3, <1>4, CountsDiffer DEF S

LEMMA IssueSeqIs ==
    ASSUME NEW d, WellFormed(d)
    PROVE  /\ \A i \in Begins(d) : Cardinality({k \in Begins(d) : k < i}) \in Nat
           /\ \A i, j \in Begins(d) :
                 Cardinality({k \in Begins(d) : k < i}) = Cardinality({k \in Begins(d) : k < j})
                   => i = j
<1> DEFINE S == Begins(d)
           R == {x \in S \X S : x[1] < x[2]}
<1>1. S \in SUBSET (1..Len(d)) /\ S \in SUBSET Int /\ IsFiniteSet(1..Len(d))
  BY FS_Interval DEF Begins, WellFormed
<1>2. IsFiniteSet(S)
  BY <1>1, FS_Subset
<1>3. \A x, y \in S : <<x, y>> \in R <=> x < y
  OBVIOUS
<1> HIDE DEF S, R
<1>4. StrictOrder(S, R)
  BY <1>1, <1>3 DEF StrictOrder
<1>5. \A i \in S : {k \in S : k < i} = Earlier(S, R, i)
  BY <1>3 DEF Earlier
<1>6. QED
  BY <1>2, <1>4, <1>5, CountsDiffer DEF S

ChunksOf(s, d) == IF s \in DocsSources THEN DocChunks(s, d) ELSE IssueChunks(s, d)

PieceRow(s, d, p) ==
    Chunk(ChunkId(s, ChunkSeq(Pieces(d), p)),
          {ParentId(s, d[i].title) : i \in Windowed(d) \cap {p.part}},
          Text(d, p.part, p.part, p.from, p.to), FALSE)

ParentRow(s, d, i) ==
    Chunk(ParentId(s, d[i].title), {}, Text(d, i, i, 0, d[i].size), FALSE)

LEMMA DocChunksAre ==
    ASSUME NEW s, NEW d
    PROVE  DocChunks(s, d) = {PieceRow(s, d, p) : p \in Pieces(d)}
                               \cup {ParentRow(s, d, i) : i \in Windowed(d)}
  BY DEF DocChunks, PieceRow, ParentRow

\* What the rows of one source have in common, and what tells them apart.
IdsAreGiven(s, d, rows) ==
    /\ \A r \in rows : /\ r.id.source = s /\ r.text.of = d /\ r.text.first \in Nat
    /\ \A r, q \in rows : r.id = q.id /\ r.text.first = q.text.first => r = q
    /\ \A r, q \in rows : r.id = q.id /\ r.id.seq >= 0 => r = q
    /\ \A r \in rows : \A pid \in r.parent : \E p \in rows : p.id = pid

LEMMA DocIds ==
    ASSUME NEW s, NEW d, WellFormed(d)
    PROVE  IdsAreGiven(s, d, DocChunks(s, d))
<1> DEFINE P == {PieceRow(s, d, p) : p \in Pieces(d)}
           Q == {ParentRow(s, d, i) : i \in Windowed(d)}
<1>1. DocChunks(s, d) = P \cup Q
  BY DocChunksAre
<1>2. \A p \in Pieces(d) : ChunkSeq(Pieces(d), p) \in Nat /\ p.part \in 1..Len(d)
  BY ChunkSeqIs, PiecesAre
<1>3. Windowed(d) \in SUBSET (1..Len(d)) /\ Len(d) \in Nat
  BY DEF Windowed, WellFormed
<1>4. ASSUME NEW p \in Pieces(d)
      PROVE  LET r == PieceRow(s, d, p)
             IN  /\ r.id = [source |-> s, seq |-> ChunkSeq(Pieces(d), p), anchor |-> "-"]
                 /\ r.id.source = s /\ r.id.seq = ChunkSeq(Pieces(d), p)
                 /\ r.text.of = d /\ r.text.first = p.part
                 /\ r.parent = {ParentId(s, d[i].title) : i \in Windowed(d) \cap {p.part}}
  BY DEF PieceRow, Chunk, ChunkId, Text
<1>5. ASSUME NEW i \in Windowed(d)
      PROVE  LET r == ParentRow(s, d, i)
             IN  /\ r.id = ParentId(s, d[i].title) /\ r.id.source = s /\ r.id.seq = -1
                 /\ r.text.of = d /\ r.text.first = i /\ r.parent = {}
  BY DEF ParentRow, Chunk, ParentId, Text
<1>6. \A r \in P : \E p \in Pieces(d) : r = PieceRow(s, d, p)
  OBVIOUS
<1>7. \A r \in Q : \E i \in Windowed(d) : r = ParentRow(s, d, i)
  OBVIOUS
<1>8. \A i \in Windowed(d) : ParentRow(s, d, i) \in Q
  OBVIOUS
<1> HIDE DEF P, Q
<1>9. ASSUME NEW r \in P \cup Q PROVE r.id.source = s /\ r.text.of = d /\ r.text.first \in Nat
  <2>1. CASE r \in P
    <3>1. PICK p \in Pieces(d) : r = PieceRow(s, d, p)
      BY <1>6, <2>1
    <3>2. r.id.source = s /\ r.text.of = d /\ r.text.first = p.part
      BY <1>4, <3>1
    <3>3. p.part \in Nat
      BY <1>2, <1>3
    <3>4. QED
      BY <3>2, <3>3
  <2>2. CASE r \in Q
    BY <1>3, <1>5, <1>7, <2>2
  <2>3. QED
    BY <2>1, <2>2
<1>10. ASSUME NEW r \in P \cup Q, NEW q \in P \cup Q, r.id = q.id
       PROVE  (r.text.first = q.text.first => r = q) /\ (r.id.seq >= 0 => r = q)
  <2>1. CASE r \in P /\ q \in P
    <3>1. PICK x \in Pieces(d) : r = PieceRow(s, d, x)
      BY <1>6, <2>1
    <3>2. PICK y \in Pieces(d) : q = PieceRow(s, d, y)
      BY <1>6, <2>1
    <3>3. ChunkSeq(Pieces(d), x) = ChunkSeq(Pieces(d), y)
      BY <1>4, <1>10, <3>1, <3>2
    <3>4. x = y
      BY <3>3, ChunkSeqIs
    <3>5. QED
      BY <3>1, <3>2, <3>4
  <2>2. CASE r \in Q /\ q \in Q
    <3>1. PICK i \in Windowed(d) : r = ParentRow(s, d, i)
      BY <1>7, <2>2
    <3>2. PICK j \in Windowed(d) : q = ParentRow(s, d, j)
      BY <1>7, <2>2
    <3>3. r.id.seq = -1 /\ (r.text.first = q.text.first => i = j)
      BY <1>5, <3>1, <3>2
    <3>4. QED
      BY <3>1, <3>2, <3>3
  <2>3. CASE r \in P /\ q \in Q
    <3>1. PICK x \in Pieces(d) : r = PieceRow(s, d, x)
      BY <1>6, <2>3
    <3>2. PICK j \in Windowed(d) : q = ParentRow(s, d, j)
      BY <1>7, <2>3
    <3>3. r.id.seq \in Nat /\ q.id.seq = -1
      BY <1>2, <1>4, <1>5, <3>1, <3>2
    <3>4. QED
      BY <1>10, <3>3
  <2>4. CASE r \in Q /\ q \in P
    <3>1. PICK x \in Pieces(d) : q = PieceRow(s, d, x)
      BY <1>6, <2>4
    <3>2. PICK j \in Windowed(d) : r = ParentRow(s, d, j)
      BY <1>7, <2>4
    <3>3. q.id.seq \in Nat /\ r.id.seq = -1
      BY <1>2, <1>4, <1>5, <3>1, <3>2
    <3>4. QED
      BY <1>10, <3>3
  <2>5. QED
    BY <2>1, <2>2, <2>3, <2>4
<1>11. ASSUME NEW r \in P \cup Q, NEW pid \in r.parent PROVE \E p \in P \cup Q : p.id = pid
  <2>1. r \in P
    BY <1>5, <1>7, <1>11
  <2>2. PICK x \in Pieces(d) : r = PieceRow(s, d, x)
    BY <1>6, <2>1
  <2>3. PICK i \in Windowed(d) : pid = ParentId(s, d[i].title)
    <3>1. r.parent = {ParentId(s, d[i].title) : i \in Windowed(d) \cap {x.part}}
      BY <1>4, <2>2
    <3>2. QED
      BY <1>11, <3>1
  <2>4. ParentRow(s, d, i) \in Q /\ ParentRow(s, d, i).id = pid
    BY <1>5, <1>8, <2>3
  <2>5. QED
    BY <2>4
<1>12. QED
  BY <1>1, <1>9, <1>10, <1>11 DEF IdsAreGiven

LEMMA IssueIds ==
    ASSUME NEW s, NEW d, WellFormed(d)
    PROVE  IdsAreGiven(s, d, IssueChunks(s, d))
<1> DEFINE Row(i) ==
              Chunk(ChunkId(s, Cardinality({k \in Begins(d) : k < i})), {},
                    Text(d, i, EndOf(d, i), 0, Longest(d, i, EndOf(d, i))),
                    \E k \in i..EndOf(d, i) : k > 1 /\ d[k].size > 0 /\ d[k].maintainer)
           N(i) == Cardinality({k \in Begins(d) : k < i})
<1>1. IssueChunks(s, d) = {Row(i) : i \in Begins(d)}
  BY DEF IssueChunks
<1>2. ASSUME NEW i \in Begins(d)
      PROVE  /\ Row(i).id.source = s /\ Row(i).id.seq = N(i) /\ Row(i).parent = {}
             /\ Row(i).text.of = d /\ Row(i).text.first = i
  BY DEF Chunk, ChunkId, Text
<1>3. \A i, j \in Begins(d) : N(i) = N(j) => i = j
  BY IssueSeqIs
<1>4. Begins(d) \in SUBSET Nat
  BY DEF Begins, WellFormed
<1> HIDE DEF Row, N
<1>5. \A r \in IssueChunks(s, d) : \E i \in Begins(d) : r = Row(i)
  BY <1>1
<1>6. ASSUME NEW r \in IssueChunks(s, d), NEW q \in IssueChunks(s, d), r.id = q.id PROVE r = q
  <2>1. PICK i \in Begins(d) : r = Row(i)
    BY <1>5
  <2>2. PICK j \in Begins(d) : q = Row(j)
    BY <1>5
  <2>3. i = j
    BY <1>2, <1>3, <1>6, <2>1, <2>2
  <2>4. QED
    BY <2>1, <2>2, <2>3
<1>7. \A r \in IssueChunks(s, d) : r.id.source = s /\ r.text.of = d /\ r.text.first \in Nat
                                     /\ r.parent = {}
  BY <1>2, <1>4, <1>5
<1>8. QED
  BY <1>6, <1>7 DEF IdsAreGiven

\* A window reaches every token, and the one that does is long enough.
LEMMA WindowsCover ==
    ASSUME NEW n \in Nat, n >= MinTokens, NEW k \in 1..n
    PROVE  \E w \in SectionPieces(n) : w.from < k /\ k <= w.to
<1>1. CASE n <= MaxTokens
  <2>1. SectionPieces(n) = {[from |-> 0, to |-> n]}
    BY <1>1, StepType DEF SectionPieces
  <2>2. [from |-> 0, to |-> n].from < k /\ k <= [from |-> 0, to |-> n].to
    OBVIOUS
  <2>3. QED
    BY <2>1, <2>2
<1>2. CASE MaxTokens < n
  <2> DEFINE T == {j \in Nat : k <= j * Step + MaxTokens}
  <2>1. k \in T
    <3>1. k \in Nat /\ k <= k * Step
      BY StepType
    <3>2. k * Step \in Nat
      BY <3>1, StepType
    <3>3. QED
      BY <3>1, <3>2, StepType
  <2>2. PICK m \in T : \A j \in T : m <= j
    BY <2>1, LeastNat
  <2> DEFINE a == m * Step
             b == (m - 1) * Step
             w == [from |-> a, to |-> Least(a + MaxTokens, n)]
  <2>3. m \in Nat /\ a \in Nat /\ k <= a + MaxTokens
    BY StepType
  <2>4. m # 0 => b \in Nat /\ a = b + Step /\ b + MaxTokens < k /\ m - 1 <= b
    <3>1. SUFFICES ASSUME m # 0 PROVE b \in Nat /\ a = b + Step /\ b + MaxTokens < k /\ m - 1 <= b
      OBVIOUS
    <3>2. m - 1 \in Nat
      BY <2>3, <3>1
    <3>3. b \in Nat /\ a = b + Step
      BY <2>3, <3>2, StepType
    <3>4. m - 1 <= b
      BY <3>2, StepType
    <3>5. m - 1 \notin T
      BY <2>2, <2>3, <3>2
    <3>6. ~(k <= b + MaxTokens)
      BY <3>2, <3>5
    <3> HIDE DEF b
    <3>7. QED
      BY <3>3, <3>4, <3>6, StepType
  <2>5. m = 0 => a = 0
    BY StepType
  <2>6. m \in {j \in 0..n : j = 0 \/ (j - 1) * Step + MaxTokens < n}
    <3>1. CASE m = 0
      BY <3>1
    <3>2. CASE m # 0
      <4>1. m \in 0..n /\ b + MaxTokens < n
        <5> HIDE DEF b, a
        <5>1. QED
          BY <2>3, <2>4, <3>2, StepType
      <4>2. QED
        BY <4>1
    <3>3. QED
      BY <3>1, <3>2
  <2>7. a \in Starts(n)
    BY <2>6 DEF Starts
  <2> HIDE DEF a, b, T
  <2>8. a < k
    <3>1. CASE m = 0
      BY <2>5, <3>1
    <3>2. CASE m # 0
      BY <2>3, <2>4, <3>2, StepType
    <3>3. QED
      BY <3>1, <3>2
  <2>9. /\ Least(a + MaxTokens, n) \in Nat /\ k <= Least(a + MaxTokens, n)
        /\ Least(a + MaxTokens, n) - a >= MinTokens
    <3>1. CASE a + MaxTokens < n
      <4>1. Least(a + MaxTokens, n) = a + MaxTokens
        BY <3>1 DEF Least
      <4>2. QED
        BY <2>3, <4>1, StepType
    <3>2. CASE ~(a + MaxTokens < n)
      <4>1. Least(a + MaxTokens, n) = n
        BY <3>2 DEF Least
      <4>2. CASE m = 0
        BY <1>2, <2>5, <4>1, <4>2, StepType
      <4>3. CASE m # 0
        BY <2>3, <2>4, <4>1, <4>3, StepType
      <4>4. QED
        BY <4>2, <4>3
    <3>3. QED
      BY <3>1, <3>2
  <2>10. w.from = a /\ w.to = Least(a + MaxTokens, n)
    OBVIOUS
  <2>11. w \in Windows(n)
    BY <2>7, <2>9 DEF Windows
  <2>12. SectionPieces(n) = Windows(n)
    BY <1>2, StepType DEF SectionPieces
  <2>13. QED
    BY <2>8, <2>9, <2>10, <2>11, <2>12
<1>3. QED
  BY <1>1, <1>2, StepType

\* Token k of part i is in the text of a row with a chunk_seq.
CoveredBy(rows, i, k) == \E r \in rows : r.id.seq >= 0 /\ <<i, k>> \in TokensOf(r.text)

LEMMA DocsCovered ==
    ASSUME NEW s, NEW d, WellFormed(d), NEW i \in 1..Len(d), d[i].size >= MinTokens,
           NEW k \in 1..d[i].size
    PROVE  CoveredBy(DocChunks(s, d), i, k)
<1>1. d[i].size \in Nat
  BY DEF WellFormed
<1>2. PICK w \in SectionPieces(d[i].size) : w.from < k /\ k <= w.to
  BY <1>1, WindowsCover
<1>3. w.from \in Nat /\ w.to \in Nat
  BY <1>1, WindowsAre
<1> DEFINE p == [part |-> i, from |-> w.from, to |-> w.to]
           r == PieceRow(s, d, p)
<1>4. p \in Pieces(d)
  BY DEF Pieces
<1>5. r \in DocChunks(s, d)
  BY <1>4, DocChunksAre
<1>6. r.id.seq = ChunkSeq(Pieces(d), p) /\ r.text = Text(d, i, i, w.from, w.to)
  BY DEF PieceRow, Chunk, ChunkId
<1>7. r.id.seq >= 0
  BY <1>4, <1>6, ChunkSeqIs
<1>8. <<i, k>> \in TokensOf(r.text)
  <2>1. TokensOf(r.text) = {<<x, y>> : x \in i..i, y \in (w.from + 1)..w.to}
    BY <1>6 DEF TokensOf, Text
  <2>2. i \in i..i /\ k \in (w.from + 1)..w.to
    BY <1>2, <1>3 DEF WellFormed
  <2>3. QED
    BY <2>1, <2>2
<1>9. QED
  BY <1>5, <1>7, <1>8 DEF CoveredBy

LEMMA GreatestNat ==
    ASSUME NEW S \in SUBSET Nat, S # {}, IsFiniteSet(S)
    PROVE  \E m \in S : \A n \in S : n <= m
<1> DEFINE R == {x \in S \X S : x[1] > x[2]}
           l == InOrder(S, R)
<1>1. \A x, y \in S : <<x, y>> \in R <=> x > y
  OBVIOUS
<1> HIDE DEF R
<1>2. StrictOrder(S, R)
  BY <1>1 DEF StrictOrder
<1>3. InOrderOf(l, S, R)
  BY <1>2, InOrderIs
<1> HIDE DEF l
<1>4. PICK x \in S : TRUE
  OBVIOUS
<1>5. /\ Cardinality(S) \in Nat /\ l \in [1..Cardinality(S) -> S]
      /\ \A y \in S : \E k \in 1..Cardinality(S) : l[k] = y
      /\ \A j, k \in 1..Cardinality(S) : j < k <=> <<l[j], l[k]>> \in R
  BY <1>3 DEF InOrderOf
<1>6. 1 \in 1..Cardinality(S)
  BY <1>4, <1>5
<1>7. l[1] \in S
  BY <1>5, <1>6
<1>8. ASSUME NEW n \in S PROVE n <= l[1]
  <2>1. PICK k \in 1..Cardinality(S) : l[k] = n
    BY <1>5
  <2>2. k = 1 \/ 1 < k
    BY <1>5
  <2>3. CASE k = 1
    BY <2>1, <2>3
  <2>4. CASE 1 < k
    <3>1. <<l[1], l[k]>> \in R
      BY <1>5, <1>6, <2>4
    <3>2. l[1] > n
      BY <1>1, <1>7, <2>1, <3>1
    <3>3. l[1] \in Nat /\ n \in Nat
      BY <1>7
    <3>4. QED
      BY <3>2, <3>3
  <2>5. QED
    BY <2>2, <2>3, <2>4
<1>9. QED
  BY <1>7, <1>8

LEMMA IssuesCovered ==
    ASSUME NEW s, NEW d, WellFormed(d), NEW i \in 1..Len(d), NEW k \in 1..d[i].size
    PROVE  CoveredBy(IssueChunks(s, d), i, k)
<1>0. Len(d) \in Nat /\ i \in Nat /\ d[i].size \in Nat
      /\ Begins(d) \in SUBSET (1..Len(d)) /\ 1 \in Begins(d)
  BY DEF WellFormed, Begins
<1>1. PICK b \in Begins(d) : b <= i /\ \A x \in Begins(d) : x <= i => x <= b
  <2> DEFINE S == {x \in Begins(d) : x <= i}
  <2>1. S \in SUBSET Nat /\ 1 \in S /\ S \in SUBSET (1..Len(d))
    BY <1>0
  <2>2. IsFiniteSet(S)
    <3>1. IsFiniteSet(1..Len(d))
      BY <1>0, FS_Interval
    <3>2. QED
      BY <2>1, <3>1, FS_Subset
  <2>3. PICK b \in S : \A x \in S : x <= b
    BY <2>1, <2>2, GreatestNat
  <2>4. QED
    BY <2>3
<1> DEFINE e == EndOf(d, b)
           n == Longest(d, b, e)
<1>2. b \in 1..Len(d) /\ b \in Nat
  BY <1>0
<1>3. /\ e \in b..Len(d)
      /\ e < Len(d) => e + 1 \in Begins(d)
  <2> DEFINE Is(j) == /\ \A x \in (b + 1)..j : x \notin Begins(d)
                      /\ j < Len(d) => j + 1 \in Begins(d)
             T == {x \in Begins(d) : b < x}
  <2>1. \E j \in b..Len(d) : Is(j)
    <3>1. CASE T = {}
      <4>1. Len(d) \in b..Len(d) /\ Is(Len(d))
        BY <1>0, <1>2, <3>1
      <4>2. QED
        BY <4>1
    <3>2. CASE T # {}
      <4>1. T \in SUBSET Nat
        BY <1>0
      <4>2. PICK m \in T : \A x \in T : m <= x
        BY <3>2, <4>1, LeastNat
      <4>3. m \in 1..Len(d) /\ b < m /\ m \in Begins(d)
        BY <1>0
      <4>4. m - 1 \in b..Len(d) /\ (m - 1) + 1 = m
        BY <1>0, <1>2, <4>3
      <4>5. ASSUME NEW x \in (b + 1)..(m - 1) PROVE x \notin Begins(d)
        BY <1>0, <1>2, <4>2, <4>3, <4>5
      <4>6. Is(m - 1)
        BY <4>3, <4>4, <4>5
      <4>7. QED
        BY <4>4, <4>6
    <3>3. QED
      BY <3>1, <3>2
  <2>2. e = CHOOSE j \in b..Len(d) : Is(j)
    BY DEF EndOf
  <2> HIDE DEF e, Is
  <2>3. e \in b..Len(d) /\ Is(e)
    BY <2>1, <2>2
  <2>4. QED
    BY <2>3 DEF Is
<1> HIDE DEF e
<1>4. i \in b..e
  <2>1. e \in Nat /\ e <= Len(d) /\ b <= e
    BY <1>0, <1>2, <1>3
  <2>2. ASSUME e < i PROVE FALSE
    <3>1. e + 1 \in Begins(d) /\ e + 1 <= i
      BY <1>0, <1>3, <2>1, <2>2
    <3>2. e + 1 <= b
      BY <1>1, <3>1
    <3>3. QED
      BY <1>2, <2>1, <3>2
  <2>3. QED
    BY <1>0, <1>1, <1>2, <2>1, <2>2
<1>5. n \in Nat /\ d[i].size <= n
  <2> DEFINE S == {d[x].size : x \in b..e}
  <2>1. \A x \in b..e : x \in 1..Len(d) /\ d[x].size \in Nat
    BY <1>0, <1>2, <1>3 DEF WellFormed
  <2>2. S \in SUBSET Nat /\ d[i].size \in S
    BY <1>4, <2>1
  <2>3. IsFiniteSet(S)
    <3> DEFINE f == [x \in b..e |-> d[x].size]
    <3>1. IsFiniteSet(b..e)
      BY <1>0, <1>2, <1>3, FS_Interval
    <3>2. S = {f[x] : x \in b..e}
      OBVIOUS
    <3> HIDE DEF S, f
    <3>3. QED
      BY <3>1, <3>2, ImageIsFinite
  <2>4. \E m \in S : \A x \in S : x <= m
    <3> HIDE DEF S
    <3>1. QED
      BY <2>2, <2>3, GreatestNat
  <2>5. \E m \in S : \A x \in b..e : d[x].size <= m
    BY <2>4
  <2>6. n \in S /\ \A x \in b..e : d[x].size <= n
    BY <2>5 DEF Longest
  <2>7. QED
    BY <1>4, <2>2, <2>6
<1> HIDE DEF n
<1> DEFINE r == Chunk(ChunkId(s, Cardinality({x \in Begins(d) : x < b})), {},
                      Text(d, b, e, 0, n),
                      \E x \in b..e : x > 1 /\ d[x].size > 0 /\ d[x].maintainer)
<1>6. r \in IssueChunks(s, d)
  BY DEF IssueChunks, e, n
<1>7. r.id.seq = Cardinality({x \in Begins(d) : x < b}) /\ r.text = Text(d, b, e, 0, n)
  BY DEF Chunk, ChunkId
<1> HIDE DEF r
<1>8. r.id.seq >= 0
  BY <1>7, IssueSeqIs
<1>9. <<i, k>> \in TokensOf(r.text)
  <2>1. TokensOf(r.text) = {<<x, y>> : x \in b..e, y \in (0 + 1)..n}
    BY <1>7 DEF TokensOf, Text
  <2>2. k \in (0 + 1)..n
    BY <1>0, <1>5
  <2>3. QED
    BY <1>4, <2>1, <2>2
<1>10. QED
  BY <1>6, <1>8, <1>9 DEF CoveredBy

-----------------------------------------------------------------------------
(* The table: a row stays, ids tell rows apart, parents are there, and what *)
(* a source was first ingested with is there, but for what shares its id.   *)

ContentsOK == /\ contents = [s \in Sources |-> contents[s]]
              /\ \A s \in Sources : WellFormed(contents[s])

LoadedOK == /\ loaded = [s \in Sources |-> loaded[s]]
            /\ \A s \in Sources : /\ IsFiniteSet(loaded[s])
                                  /\ \A d \in loaded[s] : WellFormed(d)

RowsAreChunks ==
    \A r \in table : \E s \in Sources : \E d \in loaded[s] : r \in ChunksOf(s, d)

IdsDiffer == \A r, q \in table : r.id = q.id => r = q

ParentsAreThere == \A r \in table : \A pid \in r.parent : \E p \in table : p.id = pid

\* Row r of source s with contents d has its id to itself.
Alone(s, d, r) == \A q \in ChunksOf(s, d) : q.id = r.id => q = r

FirstIsThere ==
    \A s \in Sources : \A d : loaded[s] = {d} =>
        \A r \in ChunksOf(s, d) : Alone(s, d, r) => r \in table

CorpusInv == /\ ContentsOK /\ LoadedOK
             /\ RowsAreChunks /\ IdsDiffer /\ ParentsAreThere /\ FirstIsThere

LEMMA ChunkIds ==
    ASSUME NEW s, NEW d, WellFormed(d)
    PROVE  IdsAreGiven(s, d, ChunksOf(s, d))
  BY DocIds, IssueIds DEF ChunksOf

LEMMA CorpusInvInit == CorpusInit => CorpusInv
<1> SUFFICES ASSUME CorpusInit PROVE CorpusInv
  OBVIOUS
<1>1. /\ contents = [s \in Sources |-> <<>>] /\ loaded = [s \in Sources |-> {}] /\ table = {}
  BY DEF CorpusInit
<1>2. WellFormed(<<>>)
  BY DEF WellFormed
<1>3. ContentsOK
  BY <1>1, <1>2 DEF ContentsOK
<1>4. LoadedOK
  BY <1>1, FS_EmptySet DEF LoadedOK
<1>5. RowsAreChunks /\ IdsDiffer /\ ParentsAreThere
  BY <1>1 DEF RowsAreChunks, IdsDiffer, ParentsAreThere
<1>6. FirstIsThere
  BY <1>1 DEF FirstIsThere
<1>7. QED
  BY <1>3, <1>4, <1>5, <1>6 DEF CorpusInv

LEMMA CheckoutKeeps ==
    ASSUME CorpusInv, NEW s \in Sources, Checkout(s)
    PROVE  CorpusInv' /\ table \in SUBSET table'
<1>1. loaded' = loaded /\ table' = table
  BY DEF Checkout
<1>2. PICK d \in Contents[s] : contents' = [contents EXCEPT ![s] = d]
  BY DEF Checkout
<1>3. WellFormed(d)
  BY CorpusAssumption DEF WellFormed
<1>4. ContentsOK'
  BY <1>2, <1>3 DEF CorpusInv, ContentsOK
<1>5. LoadedOK'
  BY <1>1 DEF CorpusInv, LoadedOK
<1>6. RowsAreChunks' /\ IdsDiffer' /\ ParentsAreThere' /\ FirstIsThere'
  BY <1>1 DEF CorpusInv, RowsAreChunks, IdsDiffer, ParentsAreThere, FirstIsThere
<1>7. QED
  BY <1>1, <1>4, <1>5, <1>6 DEF CorpusInv

\* One run over the sources ss adds the rows whose ids are new.
LEMMA IngestKeeps ==
    ASSUME CorpusInv, NEW ss \in SUBSET Sources, Ingest(ss)
    PROVE  CorpusInv' /\ table \in SUBSET table'
<1> DEFINE rows == UNION {Chunks(s) : s \in ss}
<1>0. /\ ContentsOK /\ LoadedOK /\ RowsAreChunks /\ IdsDiffer /\ ParentsAreThere /\ FirstIsThere
  BY DEF CorpusInv
<1>1. table' = table \cup Inserted(rows) /\ contents' = contents
  BY DEF Ingest
<1>2. /\ loaded' = [s \in Sources |-> loaded'[s]]
      /\ \A s \in Sources : loaded'[s] = IF s \in ss THEN loaded[s] \cup {contents[s]}
                                                      ELSE loaded[s]
  BY DEF Ingest
<1>3. \A s \in ss : Chunks(s) = ChunksOf(s, contents[s])
  BY DEF Chunks, ChunksOf
<1>4. \A r \in rows : \E s \in ss : r \in ChunksOf(s, contents[s])
  BY <1>3
<1>5. \A s \in ss : \A r \in ChunksOf(s, contents[s]) : r \in rows
  BY <1>3
<1> HIDE DEF rows
<1>6. \A s \in ss : s \in Sources /\ IdsAreGiven(s, contents[s], ChunksOf(s, contents[s]))
  BY <1>0, ChunkIds DEF ContentsOK
<1>7. \A r \in Inserted(rows) : /\ r \in rows /\ \A t \in table : t.id # r.id
                                /\ \A q \in rows : q.id = r.id => r.text.first <= q.text.first
  BY DEF Inserted
<1>8. \A r \in rows : r.text.first \in Nat
  BY <1>4, <1>6 DEF IdsAreGiven
<1>9. ASSUME NEW r \in rows, NEW q \in rows, r.id = q.id
      PROVE  \E s \in ss : r \in ChunksOf(s, contents[s]) /\ q \in ChunksOf(s, contents[s])
  <2>1. PICK s \in ss : r \in ChunksOf(s, contents[s])
    BY <1>4
  <2>2. PICK t \in ss : q \in ChunksOf(t, contents[t])
    BY <1>4
  <2>3. r.id.source = s /\ q.id.source = t
    BY <1>6, <2>1, <2>2 DEF IdsAreGiven
  <2>4. s = t
    BY <1>9, <2>3
  <2>5. QED
    BY <2>1, <2>2, <2>4
<1>10. ContentsOK'
  BY <1>0, <1>1 DEF ContentsOK
<1>11. LoadedOK'
  <2>1. ASSUME NEW s \in Sources
        PROVE  IsFiniteSet(loaded'[s]) /\ \A d \in loaded'[s] : WellFormed(d)
    BY <1>0, <1>2, FS_AddElement DEF LoadedOK, ContentsOK
  <2>2. QED
    BY <1>2, <2>1 DEF LoadedOK
<1>12. RowsAreChunks'
  <2>1. ASSUME NEW r \in table PROVE \E s \in Sources : \E d \in loaded'[s] : r \in ChunksOf(s, d)
    BY <1>0, <1>2 DEF RowsAreChunks
  <2>2. ASSUME NEW r \in Inserted(rows)
        PROVE  \E s \in Sources : \E d \in loaded'[s] : r \in ChunksOf(s, d)
    <3>1. PICK s \in ss : r \in ChunksOf(s, contents[s])
      BY <1>4, <1>7
    <3>2. s \in Sources /\ contents[s] \in loaded'[s]
      BY <1>2
    <3>3. QED
      BY <3>1, <3>2
  <2>3. QED
    BY <1>1, <2>1, <2>2 DEF RowsAreChunks
<1>13. IdsDiffer'
  <2>1. ASSUME NEW r \in Inserted(rows), NEW q \in Inserted(rows), r.id = q.id PROVE r = q
    <3>1. r.text.first <= q.text.first /\ q.text.first <= r.text.first
      BY <1>7, <2>1
    <3>2. r.text.first = q.text.first
      BY <1>7, <1>8, <3>1
    <3>3. PICK s \in ss : r \in ChunksOf(s, contents[s]) /\ q \in ChunksOf(s, contents[s])
      BY <1>7, <1>9, <2>1
    <3>4. QED
      BY <1>6, <2>1, <3>2, <3>3 DEF IdsAreGiven
  <2>2. QED
    BY <1>0, <1>1, <1>7, <2>1 DEF IdsDiffer
<1>14. ParentsAreThere'
  <2>1. ASSUME NEW r \in Inserted(rows), NEW pid \in r.parent PROVE \E p \in table' : p.id = pid
    <3>1. PICK s \in ss : r \in ChunksOf(s, contents[s])
      BY <1>4, <1>7
    <3>2. PICK p \in ChunksOf(s, contents[s]) : p.id = pid
      BY <1>6, <3>1 DEF IdsAreGiven
    <3> DEFINE F == {q.text.first : q \in {x \in rows : x.id = pid}}
    <3>3. p \in rows /\ p.text.first \in F
      BY <1>5, <3>2
    <3>4. F \in SUBSET Nat
      BY <1>8
    <3>5. PICK m \in F : \A n \in F : m <= n
      BY <3>3, <3>4, LeastNat
    <3>6. PICK q \in rows : q.id = pid /\ q.text.first = m
      OBVIOUS
    <3>7. \A x \in rows : x.id = q.id => q.text.first <= x.text.first
      BY <3>5, <3>6
    <3>8. CASE \E t \in table : t.id = q.id
      BY <1>1, <3>6, <3>8
    <3>9. CASE ~ \E t \in table : t.id = q.id
      <4>1. q \in Inserted(rows)
        BY <3>7, <3>9 DEF Inserted
      <4>2. QED
        BY <1>1, <3>6, <4>1
    <3>10. QED
      BY <3>8, <3>9
  <2>2. ASSUME NEW r \in table, NEW pid \in r.parent PROVE \E p \in table' : p.id = pid
    BY <1>0, <1>1 DEF ParentsAreThere
  <2>3. QED
    BY <1>1, <2>1, <2>2 DEF ParentsAreThere
<1>15. FirstIsThere'
  <2> SUFFICES ASSUME NEW s \in Sources, NEW d, loaded'[s] = {d},
                      NEW r \in ChunksOf(s, d), Alone(s, d, r)
               PROVE  r \in table'
    BY DEF FirstIsThere, Alone
  <2>1. CASE loaded[s] = {d}
    BY <1>0, <1>1, <2>1 DEF FirstIsThere
  <2>2. CASE loaded[s] # {d}
    <3>1. s \in ss /\ loaded[s] = {} /\ contents[s] = d
      BY <1>2, <2>2
    <3>2. \A t \in table : t.id.source # s
      <4>1. SUFFICES ASSUME NEW t \in table, t.id.source = s PROVE FALSE
        OBVIOUS
      <4>2. PICK u \in Sources : \E c \in loaded[u] : t \in ChunksOf(u, c)
        BY <1>0 DEF RowsAreChunks
      <4>3. PICK c \in loaded[u] : t \in ChunksOf(u, c)
        BY <4>2
      <4>4. t.id.source = u
        BY <1>0, <4>3, ChunkIds DEF IdsAreGiven, LoadedOK
      <4>5. QED
        BY <3>1, <4>1, <4>3, <4>4
    <3>3. r \in rows /\ r.id.source = s
      BY <1>5, <1>6, <3>1 DEF IdsAreGiven
    <3>4. \A q \in rows : q.id = r.id => q = r
      <4>1. SUFFICES ASSUME NEW q \in rows, q.id = r.id PROVE q = r
        OBVIOUS
      <4>2. PICK u \in ss : r \in ChunksOf(u, contents[u]) /\ q \in ChunksOf(u, contents[u])
        BY <1>9, <3>3, <4>1
      <4>3. u = s
        BY <1>6, <3>3, <4>2 DEF IdsAreGiven
      <4>4. QED
        BY <3>1, <4>1, <4>2, <4>3 DEF Alone
    <3>5. r \in Inserted(rows)
      BY <1>8, <3>2, <3>3, <3>4 DEF Inserted
    <3>6. QED
      BY <1>1, <3>5
  <2>3. QED
    BY <2>1, <2>2
<1>16. QED
  BY <1>1, <1>10, <1>11, <1>12, <1>13, <1>14, <1>15 DEF CorpusInv

LEMMA CorpusInvStep ==
    ASSUME CorpusInv, CorpusNext \/ UNCHANGED corpus
    PROVE  CorpusInv' /\ table \in SUBSET table'
<1>1. ASSUME UNCHANGED corpus PROVE CorpusInv' /\ table \in SUBSET table'
  BY <1>1 DEF corpus, CorpusInv, ContentsOK, LoadedOK, RowsAreChunks, IdsDiffer, ParentsAreThere,
              FirstIsThere
<1>2. ASSUME NEW s \in Sources, Checkout(s) PROVE CorpusInv' /\ table \in SUBSET table'
  BY <1>2, CheckoutKeeps
<1>3. ASSUME Ingest(DocsSources) \/ Ingest(IssueSources)
      PROVE  CorpusInv' /\ table \in SUBSET table'
  BY <1>3, IngestKeeps DEF Sources
<1>4. QED
  BY <1>1, <1>2, <1>3 DEF CorpusNext


LEMMA CorpusSteps == [Next]_vars => CorpusNext \/ UNCHANGED corpus
<1> SUFFICES ASSUME [Next]_vars PROVE CorpusNext \/ UNCHANGED corpus
  OBVIOUS
<1>1. ASSUME UNCHANGED vars PROVE UNCHANGED corpus
  BY <1>1 DEF vars
<1>2. ASSUME ClearCache PROVE UNCHANGED corpus
  BY <1>2 DEF ClearCache, calls, corpus
<1>3. ASSUME NEW r \in Requests, Ask(r) PROVE UNCHANGED corpus
  BY <1>3 DEF Ask, AskPlainly, AskCached, AskAnew, AskBroken, DieWriting, BreakOff, corpus
<1>4. ASSUME NEW r \in Requests, DenseAnswers(r) \/ TextAnswers(r) \/ AnswerUnranked(r)
      PROVE  UNCHANGED corpus
  BY <1>4 DEF DenseAnswers, TextAnswers, AnswerUnranked, corpus
<1>5. ASSUME NEW r \in Requests, Rerank(r) \/ Expand(r) PROVE UNCHANGED corpus
  BY <1>5 DEF Rerank, Expand, corpus
<1>6. ASSUME NEW r \in Requests, Fails(r) \/ Done(r) PROVE UNCHANGED corpus
  BY <1>6 DEF Fails, Done, Leave, corpus
<1>7. ASSUME NEW q \in Queries, OtherSteps(q) PROVE UNCHANGED corpus
  BY <1>7 DEF OtherSteps, OtherAsks, OtherOpens, OtherCloses, OtherStops, calls, corpus
<1>8. QED
  BY <1>1, <1>2, <1>3, <1>4, <1>5, <1>6, <1>7 DEF Next

LEMMA CorpusHolds == Spec => []CorpusInv
<1>1. Init => CorpusInv
  BY CorpusInvInit DEF Init
<1>2. CorpusInv /\ [Next]_vars => CorpusInv'
  BY CorpusSteps, CorpusInvStep
<1>3. QED
  BY <1>1, <1>2, PTL DEF Spec

\* A source that did not change is searchable: for any windows that overlap by
\* less than their size and drop no more than the overlap, every token of it
\* that is worth a chunk is in the text of a row with a chunk_seq, however
\* often either ingestion ran (chunk_docs, chunk_issue, insert_many).
THEOREM EveryTokenIsSearchable == Spec => []SourcesAreSearchable
<1>1. CorpusInv => SourcesAreSearchable
  <2> SUFFICES ASSUME CorpusInv, NEW s \in Sources, NEW d \in loaded[s], loaded[s] = {d},
                      NEW i \in 1..Len(d), NEW k \in 1..d[i].size,
                      s \in IssueSources \/ d[i].size >= MinTokens
               PROVE  \E r \in Searchable : /\ r.id.source = s
                                            /\ <<i, k>> \in TokensOf(r.text)
    BY DEF SourcesAreSearchable
  <2>1. WellFormed(d)
    BY DEF CorpusInv, LoadedOK
  <2>2. s \in IssueSources => s \notin DocsSources
    BY CorpusAssumption
  <2>3. CoveredBy(ChunksOf(s, d), i, k)
    <3>1. CASE s \in DocsSources
      BY <2>1, <2>2, <3>1, DocsCovered DEF ChunksOf
    <3>2. CASE s \notin DocsSources
      BY <2>1, <3>2, IssuesCovered DEF ChunksOf
    <3>3. QED
      BY <3>1, <3>2
  <2>4. PICK r \in ChunksOf(s, d) : r.id.seq >= 0 /\ <<i, k>> \in TokensOf(r.text)
    BY <2>3 DEF CoveredBy
  <2>5. r.id.source = s /\ Alone(s, d, r)
    BY <2>1, <2>4, ChunkIds DEF IdsAreGiven, Alone
  <2>6. r \in table
    BY <2>5 DEF CorpusInv, FirstIsThere
  <2>7. QED
    BY <2>4, <2>5, <2>6 DEF Searchable
<1>2. QED
  BY <1>1, CorpusHolds, PTL

-----------------------------------------------------------------------------
(* What the searches and the reranker answer, and the expansion.           *)

\* A list of rows, none twice.
ListOf(l, rows) == l \in Seq(rows) /\ Distinct(l)

LEMMA ListsAre ==
    ASSUME NEW rows, NEW n \in Nat, NEW l \in Lists(rows, n),
           \A x, y \in rows : x.id = y.id => x = y
    PROVE  ListOf(l, rows) /\ Len(l) = n
<1>1. PICK s \in kSubset(n, rows) : l \in SetToSeqs(s)
  BY DEF Lists
<1>2. s \in SUBSET rows /\ Cardinality(s) = n
  BY <1>1 DEF kSubset
<1>3. l \in [1..n -> s] /\ \A i, j \in 1..n : i # j => l[i] # l[j]
  BY <1>1, <1>2 DEF SetToSeqs
<1>4. l \in Seq(rows)
  <2>1. l \in [1..n -> rows]
    BY <1>2, <1>3
  <2>2. QED
    BY <2>1, IsSeq
<1>5. Len(l) = n
  BY <1>3
<1>6. \A i, j \in 1..n : l[i].id = l[j].id => i = j
  BY <1>2, <1>3
<1>7. QED
  BY <1>3, <1>4, <1>5, <1>6 DEF ListOf, Distinct

LEMMA ListGrows ==
    ASSUME NEW rows, NEW more, rows \in SUBSET more, NEW l, ListOf(l, rows)
    PROVE  ListOf(l, more)
<1>1. l \in [1..Len(l) -> more] /\ Len(l) \in Nat
  BY DEF ListOf
<1>2. l \in Seq(more)
  BY <1>1, IsSeq
<1>3. QED
  BY <1>2 DEF ListOf

LEMMA ListRange ==
    ASSUME NEW rows, NEW l, ListOf(l, rows)
    PROVE  Range(l) \in SUBSET rows
  BY RangeIs DEF ListOf

LEMMA FusedIs ==
    ASSUME CorpusInv, NEW d, NEW s, ListOf(d, table), ListOf(s, table)
    PROVE  /\ TwoLists(d, s)
           /\ Fuse(d, s) \in Seq(table)
           /\ Prefix(Cut(Fuse(d, s), FuseTo), Fuse(d, s))
           /\ Cut(Fuse(d, s), FuseTo) \in Seq(table)
<1>1. Range(d) \cup Range(s) \in SUBSET table
  BY ListRange
<1>2. TwoLists(d, s)
  BY <1>1 DEF TwoLists, ListOf, CorpusInv, IdsDiffer
<1>3. Fuse(d, s) \in Seq(table)
  <2> DEFINE rows == Range(d) \cup Range(s)
             n == Cardinality(rows)
  <2>1. n \in Nat /\ Fuse(d, s) \in [1..n -> rows]
    BY <1>2, FuseIs DEF InOrderOf
  <2> HIDE DEF n, rows
  <2>2. Fuse(d, s) \in [1..n -> table]
    BY <1>1, <2>1 DEF rows
  <2>3. QED
    BY <2>1, <2>2, IsSeq
<1>4. FuseTo \in Nat
  BY RetrievalAssumption
<1>5. QED
  BY <1>2, <1>3, <1>4, CutIs

LEMMA LoadedGrows ==
    ASSUME CorpusInv, CorpusNext \/ UNCHANGED corpus, NEW s \in Sources
    PROVE  loaded[s] \in SUBSET loaded'[s]
<1>1. ASSUME NEW ss, Ingest(ss) PROVE loaded[s] \in SUBSET loaded'[s]
  BY <1>1 DEF Ingest
<1>2. ASSUME UNCHANGED corpus \/ \E c \in Sources : Checkout(c)
      PROVE  loaded[s] \in SUBSET loaded'[s]
  BY <1>2 DEF Checkout, corpus
<1>3. QED
  BY <1>1, <1>2 DEF CorpusNext

\* What is kept of a call, in terms of what only grows: the table, the
\* contents that were ingested.
Quiet == \A s \in DocsSources : Unchanged(s) /\ \A d \in loaded[s] : TitlesDiffer(d)

FoundOK(r) == /\ byDense[r] # Waiting => ListOf(byDense[r], table)
              /\ byText[r] # Waiting => ListOf(byText[r], table)

HitsOK(r) == ListOf(hits[r], table) /\ Len(hits[r]) <= RerankTo /\ Len(answer[r]) <= TopK

FusedOK(r) == stage[r] = "answered" /\ stack[r] = "hybrid" =>
                /\ byDense[r] # Waiting /\ byText[r] # Waiting
                /\ answer[r] = Cut(Fused(r), TopK)

RankOK(r) == stage[r] = "answered" /\ stack[r] = "full" =>
               /\ \A i, j \in DOMAIN answer[r] : i # j => answer[r][i].id # answer[r][j].id
               /\ \A i \in 1..Least(TopK, Len(hits[r])) :
                    \E j \in 1..i :
                       j \in DOMAIN answer[r]
                         /\ answer[r][j].id \in {hits[r][i].id} \cup hits[r][i].parent

HeldOK(r) == stage[r] = "answered" /\ stack[r] = "full" /\ Quiet => HitsAreHeld(r)

CallTypeOK(r) == /\ stage[r] \in {"idle", "search", "expand", "answered"}
                 /\ stack[r] \in Stacks /\ query[r] \in Queries
                 /\ stage[r] = "expand" => stack[r] = "full"

CallOK(r) == /\ CallTypeOK(r) /\ FoundOK(r) /\ HitsOK(r)
             /\ FusedOK(r) /\ RankOK(r) /\ HeldOK(r)

Shapes == /\ stage = [r \in Requests |-> stage[r]] /\ stack = [r \in Requests |-> stack[r]]
          /\ query = [r \in Requests |-> query[r]] /\ dense = [r \in Requests |-> dense[r]]
          /\ byDense = [r \in Requests |-> byDense[r]] /\ byText = [r \in Requests |-> byText[r]]
          /\ hits = [r \in Requests |-> hits[r]] /\ answer = [r \in Requests |-> answer[r]]

SearchInv == Shapes /\ \A r \in Requests : CallOK(r)

LEMMA NoList == ASSUME NEW rows PROVE ListOf(<<>>, rows) /\ Len(<<>>) = 0
  BY DEF ListOf, Distinct

LEMMA LimitTypes == RerankTo \in Nat /\ TopK \in Nat /\ OverFetch \in Nat /\ FuseTo \in Nat
  BY RetrievalAssumption

\* A call that has not begun is in order.
LEMMA IdleIsOK ==
    ASSUME NEW r, CallTypeOK(r), stage[r] = "idle", byDense[r] = Waiting, byText[r] = Waiting,
           hits[r] = <<>>, answer[r] = <<>>
    PROVE  CallOK(r)
<1>1. FoundOK(r) /\ FusedOK(r) /\ RankOK(r) /\ HeldOK(r)
  BY DEF FoundOK, FusedOK, RankOK, HeldOK
<1>2. HitsOK(r)
  BY NoList, LimitTypes DEF HitsOK
<1>3. QED
  BY <1>1, <1>2 DEF CallOK

LEMMA QuietStays ==
    ASSUME CorpusInv', \A s \in Sources : loaded[s] \in SUBSET loaded'[s], Quiet'
    PROVE  Quiet
<1> SUFFICES ASSUME NEW s \in DocsSources
             PROVE  Unchanged(s) /\ \A d \in loaded[s] : TitlesDiffer(d)
  BY DEF Quiet
<1>1. s \in Sources
  BY DEF Sources
<1>2. IsFiniteSet(loaded'[s]) /\ loaded[s] \in SUBSET loaded'[s]
  BY <1>1 DEF CorpusInv, LoadedOK
<1>3. /\ IsFiniteSet(loaded[s]) /\ Cardinality(loaded[s]) <= Cardinality(loaded'[s])
  BY <1>2, FS_Subset
<1>4. Cardinality(loaded[s]) \in Nat /\ Cardinality(loaded'[s]) \in Nat
  BY <1>2, <1>3, FS_CardinalityType
<1>5. Cardinality(loaded'[s]) <= 1 /\ \A d \in loaded'[s] : TitlesDiffer(d)
  BY DEF Quiet, Unchanged, TitlesDiffer
<1>6. QED
  BY <1>2, <1>3, <1>4, <1>5 DEF Unchanged

\* A call that is left alone stays in order while the table grows.
LEMMA RestKeeps ==
    ASSUME NEW p, CallOK(p), CorpusInv', table \in SUBSET table',
           \A s \in Sources : loaded[s] \in SUBSET loaded'[s],
           stage'[p] = stage[p], stack'[p] = stack[p], query'[p] = query[p],
           dense'[p] = dense[p], byDense'[p] = byDense[p], byText'[p] = byText[p],
           hits'[p] = hits[p], answer'[p] = answer[p]
    PROVE  CallOK(p)'
<1>0. CallTypeOK(p) /\ FoundOK(p) /\ HitsOK(p) /\ FusedOK(p) /\ RankOK(p) /\ HeldOK(p)
  BY DEF CallOK
<1>1. CallTypeOK(p)'
  BY <1>0 DEF CallTypeOK
<1>2. FoundOK(p)'
  BY <1>0, ListGrows DEF FoundOK
<1>3. HitsOK(p)'
  BY <1>0, ListGrows DEF HitsOK
<1>4. FusedOK(p)'
  BY <1>0 DEF FusedOK, Fused
<1>5. RankOK(p)'
  BY <1>0 DEF RankOK
<1>6. HeldOK(p)'
  BY <1>0, QuietStays DEF HeldOK, HitsAreHeld
<1>7. QED
  BY <1>1, <1>2, <1>3, <1>4, <1>5, <1>6 DEF CallOK

LEMMA SearchInvInit == Init => SearchInv
<1> SUFFICES ASSUME Init PROVE SearchInv
  OBVIOUS
<1>1. SearchInit
  BY DEF Init
<1>2. Shapes
  <2>1. stage = [r \in Requests |-> stage[r]] /\ stack = [r \in Requests |-> stack[r]]
    BY <1>1 DEF SearchInit
  <2>2. query = [r \in Requests |-> query[r]]
    BY <1>1 DEF SearchInit
  <2>3. dense = [r \in Requests |-> dense[r]]
    BY <1>1 DEF SearchInit
  <2>4. byDense = [r \in Requests |-> byDense[r]] /\ byText = [r \in Requests |-> byText[r]]
    BY <1>1 DEF SearchInit
  <2>5. hits = [r \in Requests |-> hits[r]] /\ answer = [r \in Requests |-> answer[r]]
    BY <1>1 DEF SearchInit
  <2>6. QED
    BY <2>1, <2>2, <2>3, <2>4, <2>5 DEF Shapes
<1>3. ASSUME NEW r \in Requests PROVE CallOK(r)
  <2>1. /\ stage[r] = "idle" /\ stack[r] = "naive" /\ query[r] \in Queries
        /\ byDense[r] = Waiting /\ byText[r] = Waiting /\ hits[r] = <<>> /\ answer[r] = <<>>
    BY <1>1, RetrievalAssumption DEF SearchInit
  <2>2. CallTypeOK(r)
    BY <2>1 DEF CallTypeOK, Stacks
  <2>3. QED
    BY <2>1, <2>2, IdleIsOK
<1>4. QED
  BY <1>2, <1>3 DEF SearchInv

\* A step of call r leaves the others alone.
OthersWait(r) ==
    \A p \in Requests \ {r} :
        /\ stage'[p] = stage[p] /\ stack'[p] = stack[p] /\ query'[p] = query[p]
        /\ dense'[p] = dense[p] /\ byDense'[p] = byDense[p] /\ byText'[p] = byText[p]
        /\ hits'[p] = hits[p] /\ answer'[p] = answer[p]

LEMMA OneCallKeeps ==
    ASSUME SearchInv, CorpusInv, UNCHANGED corpus, Shapes',
           NEW r \in Requests, OthersWait(r), CallOK(r)'
    PROVE  SearchInv'
<1>1. CorpusInv' /\ table' = table /\ loaded' = loaded
  BY CorpusInvStep DEF corpus
<1>2. ASSUME NEW p \in Requests, p # r PROVE CallOK(p)'
  <2>1. CallOK(p)
    BY DEF SearchInv
  <2>2. /\ stage'[p] = stage[p] /\ stack'[p] = stack[p] /\ query'[p] = query[p]
        /\ dense'[p] = dense[p] /\ byDense'[p] = byDense[p] /\ byText'[p] = byText[p]
        /\ hits'[p] = hits[p] /\ answer'[p] = answer[p]
    BY <1>2 DEF OthersWait
  <2>3. QED
    BY <1>1, <2>1, <2>2, RestKeeps
<1>3. QED
  BY <1>2 DEF SearchInv

LEMMA IdleStaysOK ==
    ASSUME NEW r, CallTypeOK(r)', stage'[r] = "idle", byDense'[r] = Waiting,
           byText'[r] = Waiting, hits'[r] = <<>>, answer'[r] = <<>>
    PROVE  CallOK(r)'
<1>1. FoundOK(r)' /\ FusedOK(r)' /\ RankOK(r)' /\ HeldOK(r)'
  BY DEF FoundOK, FusedOK, RankOK, HeldOK
<1>2. HitsOK(r)'
  BY NoList, LimitTypes DEF HitsOK
<1>3. QED
  BY <1>1, <1>2 DEF CallOK

LEMMA StartKeeps ==
    ASSUME SearchInv, CorpusInv, UNCHANGED corpus,
           NEW r \in Requests, NEW q \in Queries, NEW st \in Stacks, NEW text, Start(r, q, st, text)
    PROVE  SearchInv'
<1>0. /\ Shapes /\ CallTypeOK(r) /\ FoundOK(r) /\ HitsOK(r)
  BY DEF SearchInv, CallOK
<1>1. /\ stage' = [stage EXCEPT ![r] = "search"] /\ query' = [query EXCEPT ![r] = q]
      /\ stack' = [stack EXCEPT ![r] = st] /\ dense' = [dense EXCEPT ![r] = text]
      /\ byText' = byText \/ byText' = [byText EXCEPT ![r] = <<>>]
      /\ byDense' = byDense /\ hits' = hits /\ answer' = answer /\ table' = table
  BY DEF Start, corpus
<1>2. Shapes'
  BY <1>0, <1>1 DEF Shapes
<1>3. OthersWait(r)
  BY <1>0, <1>1 DEF Shapes, OthersWait
<1>4. /\ stage'[r] = "search" /\ query'[r] = q /\ stack'[r] = st /\ dense'[r] = text
      /\ byText'[r] = byText[r] \/ byText'[r] = <<>>
  BY <1>0, <1>1 DEF Shapes
<1>5. CallTypeOK(r)' /\ FusedOK(r)' /\ RankOK(r)' /\ HeldOK(r)'
  BY <1>4 DEF CallTypeOK, FusedOK, RankOK, HeldOK
<1>6. FoundOK(r)'
  BY <1>0, <1>1, <1>4, NoList DEF FoundOK
<1>7. HitsOK(r)'
  BY <1>0, <1>1 DEF HitsOK
<1>8. CallOK(r)'
  BY <1>5, <1>6, <1>7 DEF CallOK
<1>9. QED
  BY <1>2, <1>3, <1>8, OneCallKeeps

LEMMA LeaveKeeps ==
    ASSUME SearchInv, CorpusInv, NEW r \in Requests, Leave(r)
    PROVE  SearchInv'
<1>0. Shapes
  BY DEF SearchInv
<1>1. /\ stage' = [stage EXCEPT ![r] = "idle"] /\ stack' = [stack EXCEPT ![r] = "naive"]
      /\ query' = [query EXCEPT ![r] = CHOOSE q \in Queries : TRUE]
      /\ dense' = [dense EXCEPT ![r] = QueryText(query'[r])]
      /\ byDense' = [byDense EXCEPT ![r] = Waiting] /\ byText' = [byText EXCEPT ![r] = Waiting]
      /\ hits' = [hits EXCEPT ![r] = <<>>] /\ answer' = [answer EXCEPT ![r] = <<>>]
      /\ UNCHANGED corpus
  BY DEF Leave
<1>2. Shapes'
  <2>1. ASSUME NEW f, f = [x \in Requests |-> f[x]], NEW e, NEW g, g = [f EXCEPT ![r] = e]
        PROVE  g = [x \in Requests |-> g[x]]
    BY <2>1
  <2>2. /\ stage' = [x \in Requests |-> stage'[x]] /\ stack' = [x \in Requests |-> stack'[x]]
    BY <1>0, <1>1, <2>1 DEF Shapes
  <2>3. /\ query' = [x \in Requests |-> query'[x]] /\ dense' = [x \in Requests |-> dense'[x]]
    <3>1. query = [x \in Requests |-> query[x]] /\ dense = [x \in Requests |-> dense[x]]
      BY <1>0 DEF Shapes
    <3>2. PICK e : query' = [query EXCEPT ![r] = e]
      BY <1>1
    <3>3. PICK f : dense' = [dense EXCEPT ![r] = f]
      BY <1>1
    <3>4. QED
      BY <2>1, <3>1, <3>2, <3>3
  <2>4. /\ byDense' = [x \in Requests |-> byDense'[x]] /\ byText' = [x \in Requests |-> byText'[x]]
    BY <1>0, <1>1, <2>1 DEF Shapes
  <2>5. /\ hits' = [x \in Requests |-> hits'[x]] /\ answer' = [x \in Requests |-> answer'[x]]
    BY <1>0, <1>1, <2>1 DEF Shapes
  <2>6. QED
    BY <1>0, <1>1, <2>2, <2>3, <2>4, <2>5 DEF Shapes
<1>3. OthersWait(r)
  BY <1>0, <1>1 DEF Shapes, OthersWait
<1>4. /\ stage'[r] = "idle" /\ stack'[r] = "naive" /\ query'[r] = (CHOOSE q \in Queries : TRUE)
      /\ byDense'[r] = Waiting /\ byText'[r] = Waiting /\ hits'[r] = <<>> /\ answer'[r] = <<>>
  BY <1>0, <1>1 DEF Shapes
<1>5. CallTypeOK(r)'
  BY <1>4, RetrievalAssumption DEF CallTypeOK, Stacks
<1>6. CallOK(r)'
  BY <1>4, <1>5, IdleStaysOK
<1>7. QED
  BY <1>0, <1>1, <1>2, <1>3, <1>6, OneCallKeeps

LEMMA DieKeeps ==
    ASSUME SearchInv, CorpusInv, NEW q \in Queries, NEW r \in Requests, DieWriting(r, q)
    PROVE  SearchInv'
<1>0. Shapes
  BY DEF SearchInv
<1>1. /\ stage' = [p \in Requests |-> "idle"] /\ stack' = [p \in Requests |-> "naive"]
      /\ query' = [p \in Requests |-> CHOOSE n \in Queries : TRUE]
      /\ dense' = [p \in Requests |-> QueryText(query'[p])]
      /\ byDense' = [p \in Requests |-> Waiting] /\ byText' = [p \in Requests |-> Waiting]
      /\ hits' = [p \in Requests |-> <<>>] /\ answer' = [p \in Requests |-> <<>>]
  BY DEF DieWriting
<1>2. Shapes'
  <2>2. /\ stage' = [x \in Requests |-> stage'[x]] /\ stack' = [x \in Requests |-> stack'[x]]
    BY <1>1
  <2>3. /\ query' = [x \in Requests |-> query'[x]] /\ dense' = [x \in Requests |-> dense'[x]]
    BY <1>1
  <2>4. /\ byDense' = [x \in Requests |-> byDense'[x]] /\ byText' = [x \in Requests |-> byText'[x]]
    BY <1>1
  <2>5. /\ hits' = [x \in Requests |-> hits'[x]] /\ answer' = [x \in Requests |-> answer'[x]]
    BY <1>1
  <2>6. QED
    BY <2>2, <2>3, <2>4, <2>5 DEF Shapes
<1>4. ASSUME NEW p \in Requests PROVE CallOK(p)'
  <2>1. /\ stage'[p] = "idle" /\ stack'[p] = "naive" /\ query'[p] = (CHOOSE n \in Queries : TRUE)
        /\ byDense'[p] = Waiting /\ byText'[p] = Waiting /\ hits'[p] = <<>> /\ answer'[p] = <<>>
    BY <1>1
  <2>2. CallTypeOK(p)'
    BY <2>1, RetrievalAssumption DEF CallTypeOK, Stacks
  <2>3. QED
    BY <2>1, <2>2, IdleStaysOK
<1>5. QED
  BY <1>2, <1>4 DEF SearchInv

LEMMA AnswersKeep ==
    ASSUME SearchInv, CorpusInv, NEW r \in Requests, DenseAnswers(r) \/ TextAnswers(r)
    PROVE  SearchInv'
<1>0. Shapes /\ CallOK(r)
  BY DEF SearchInv
<1>1. CallTypeOK(r) /\ FoundOK(r) /\ HitsOK(r)
  BY <1>0 DEF CallOK
<1>2. \A l \in Found : ListOf(l, table)
  <2> SUFFICES ASSUME NEW l \in Found PROVE ListOf(l, table)
    OBVIOUS
  <2>1. PICK n \in 0..OverFetch : l \in Lists(Searchable, n)
    BY DEF Found
  <2>2. n \in Nat /\ Searchable \in SUBSET table
    BY LimitTypes DEF Searchable
  <2>3. \A x, y \in Searchable : x.id = y.id => x = y
    BY <2>2 DEF CorpusInv, IdsDiffer
  <2>4. ListOf(l, Searchable)
    BY <2>1, <2>2, <2>3, ListsAre
  <2>5. QED
    BY <2>2, <2>4, ListGrows
<1>3. PICK l \in Found : \/ byDense' = [byDense EXCEPT ![r] = l] /\ byText' = byText
                         \/ byText' = [byText EXCEPT ![r] = l] /\ byDense' = byDense
  BY DEF DenseAnswers, TextAnswers
<1>4. /\ UNCHANGED corpus /\ stage' = stage /\ stack' = stack
      /\ query' = query /\ dense' = dense /\ hits' = hits /\ answer' = answer
      /\ stage[r] = "search" /\ table' = table
  BY DEF DenseAnswers, TextAnswers, corpus
<1>5. /\ byDense' = [x \in Requests |-> byDense'[x]] /\ byText' = [x \in Requests |-> byText'[x]]
      /\ byDense'[r] = byDense[r] \/ byDense'[r] = l
      /\ byText'[r] = byText[r] \/ byText'[r] = l
      /\ \A p \in Requests \ {r} : byDense'[p] = byDense[p] /\ byText'[p] = byText[p]
  BY <1>0, <1>3 DEF Shapes
<1>6. Shapes'
  BY <1>0, <1>4, <1>5 DEF Shapes
<1>7. OthersWait(r)
  BY <1>4, <1>5 DEF OthersWait
<1>8. CallTypeOK(r)' /\ HitsOK(r)'
  BY <1>1, <1>4 DEF CallTypeOK, HitsOK
<1>9. FusedOK(r)' /\ RankOK(r)' /\ HeldOK(r)'
  BY <1>4 DEF FusedOK, RankOK, HeldOK
<1>10. FoundOK(r)'
  BY <1>1, <1>2, <1>4, <1>5 DEF FoundOK
<1>11. QED
  BY <1>0, <1>4, <1>6, <1>7, <1>8, <1>9, <1>10, OneCallKeeps DEF CallOK

LEMMA UnrankedKeeps ==
    ASSUME SearchInv, CorpusInv, NEW r \in Requests, AnswerUnranked(r)
    PROVE  SearchInv'
<1>0. Shapes /\ CallOK(r)
  BY DEF SearchInv
<1>1. CallTypeOK(r) /\ FoundOK(r) /\ HitsOK(r)
  BY <1>0 DEF CallOK
<1>2. /\ UNCHANGED corpus /\ stack' = stack
      /\ query' = query /\ dense' = dense /\ hits' = hits /\ byDense' = byDense
      /\ byText' = byText /\ table' = table
      /\ stage[r] = "search" /\ stack[r] # "full"
      /\ byDense[r] # Waiting /\ byText[r] # Waiting
      /\ stage' = [stage EXCEPT ![r] = "answered"]
      /\ answer' = [answer EXCEPT ![r] = answer'[r]]
      /\ answer'[r] = Cut(IF stack[r] = "naive" THEN byDense[r] ELSE Fused(r), TopK)
  BY <1>0 DEF AnswerUnranked, Both, Shapes, corpus
<1>3. ListOf(byDense[r], table) /\ ListOf(byText[r], table)
  BY <1>1, <1>2 DEF FoundOK
<1>4. byDense[r] \in Seq(table) /\ Fused(r) \in Seq(table)
  BY <1>3, FusedIs DEF ListOf, Fused
<1>5. Len(answer'[r]) <= TopK
  BY <1>2, <1>4, CutIs, LimitTypes
<1>6. Shapes'
  BY <1>0, <1>2 DEF Shapes
<1>7. OthersWait(r)
  BY <1>0, <1>2 DEF Shapes, OthersWait
<1>8. stage'[r] = "answered"
  BY <1>0, <1>2 DEF Shapes
<1>9. CallTypeOK(r)'
  BY <1>1, <1>2, <1>8 DEF CallTypeOK
<1>10. FoundOK(r)'
  BY <1>1, <1>2 DEF FoundOK
<1>11. HitsOK(r)'
  BY <1>1, <1>2, <1>5 DEF HitsOK
<1>12. FusedOK(r)'
  BY <1>2 DEF FusedOK, Fused
<1>13. RankOK(r)' /\ HeldOK(r)'
  BY <1>2 DEF RankOK, HeldOK
<1>14. QED
  BY <1>0, <1>2, <1>6, <1>7, <1>9, <1>10, <1>11, <1>12, <1>13, OneCallKeeps DEF CallOK

LEMMA RerankKeeps ==
    ASSUME SearchInv, CorpusInv, NEW r \in Requests, Rerank(r)
    PROVE  SearchInv'
<1>0. Shapes /\ CallOK(r)
  BY DEF SearchInv
<1>1. CallTypeOK(r) /\ FoundOK(r) /\ HitsOK(r)
  BY <1>0 DEF CallOK
<1>2. /\ UNCHANGED corpus /\ stack' = stack
      /\ query' = query /\ dense' = dense /\ table' = table
      /\ stage[r] = "search" /\ stack[r] # "hybrid"
      /\ byDense[r] # Waiting /\ byText[r] # Waiting
      /\ byDense' = [byDense EXCEPT ![r] = <<>>] /\ byText' = [byText EXCEPT ![r] = <<>>]
  BY DEF Rerank, Both, corpus
<1>3. PICK l \in Lists(Range(Fused(r)), Least(RerankTo, Len(Fused(r)))) :
           /\ hits' = [hits EXCEPT ![r] = l]
           /\ answer' = IF stack[r] = "full" THEN answer ELSE [answer EXCEPT ![r] = Cut(l, TopK)]
           /\ stage' = [stage EXCEPT ![r] = IF stack[r] = "full" THEN "expand" ELSE "answered"]
  BY DEF Rerank
<1>4. ListOf(byDense[r], table) /\ ListOf(byText[r], table)
  BY <1>1, <1>2 DEF FoundOK
<1>5. Fused(r) \in Seq(table)
  BY <1>4, FusedIs DEF Fused
<1>6. Range(Fused(r)) \in SUBSET table
  BY <1>5 DEF Range
<1>7. ListOf(l, table) /\ Len(l) <= RerankTo /\ l \in Seq(table)
  <2> DEFINE n == Least(RerankTo, Len(Fused(r)))
  <2>1. n \in Nat /\ n <= RerankTo
    BY <1>5, LimitTypes DEF Least
  <2>2. \A x, y \in Range(Fused(r)) : x.id = y.id => x = y
    BY <1>6 DEF CorpusInv, IdsDiffer
  <2> HIDE DEF n
  <2>3. ListOf(l, Range(Fused(r))) /\ Len(l) = n
    BY <2>1, <2>2, ListsAre DEF n
  <2>4. QED
    BY <1>6, <2>1, <2>3, ListGrows DEF ListOf
<1>8. Len(Cut(l, TopK)) <= TopK
  BY <1>7, CutIs, LimitTypes
<1>9. /\ hits' = [x \in Requests |-> hits'[x]] /\ hits'[r] = l
      /\ stage' = [x \in Requests |-> stage'[x]]
      /\ stage'[r] = IF stack[r] = "full" THEN "expand" ELSE "answered"
      /\ \A p \in Requests \ {r} : hits'[p] = hits[p] /\ stage'[p] = stage[p]
  BY <1>0, <1>3 DEF Shapes
<1>10. /\ answer' = [x \in Requests |-> answer'[x]]
       /\ answer'[r] = answer[r] \/ answer'[r] = Cut(l, TopK)
       /\ \A p \in Requests \ {r} : answer'[p] = answer[p]
  BY <1>0, <1>3 DEF Shapes
<1>11. /\ byDense' = [x \in Requests |-> byDense'[x]] /\ byText' = [x \in Requests |-> byText'[x]]
       /\ byDense'[r] = <<>> /\ byText'[r] = <<>>
       /\ \A p \in Requests \ {r} : byDense'[p] = byDense[p] /\ byText'[p] = byText[p]
  BY <1>0, <1>2 DEF Shapes
<1>12. Shapes'
  BY <1>0, <1>2, <1>9, <1>10, <1>11 DEF Shapes
<1>13. OthersWait(r)
  BY <1>2, <1>9, <1>10, <1>11 DEF OthersWait
<1>14. CallTypeOK(r)'
  BY <1>1, <1>2, <1>9 DEF CallTypeOK
<1>15. FoundOK(r)'
  BY <1>11, NoList DEF FoundOK
<1>16. HitsOK(r)'
  BY <1>1, <1>2, <1>7, <1>8, <1>9, <1>10 DEF HitsOK
<1>17. FusedOK(r)' /\ RankOK(r)' /\ HeldOK(r)'
  BY <1>2, <1>9 DEF FusedOK, RankOK, HeldOK
<1>18. QED
  BY <1>0, <1>2, <1>12, <1>13, <1>14, <1>15, <1>16, <1>17, OneCallKeeps DEF CallOK

\* Of the places with one passage the first is kept, and what is kept moves
\* forward only.
LEMMA DedupedIs ==
    ASSUME NEW list, Len(list) \in Nat
    PROVE  /\ Deduped(list) \in Seq({Expansion(list[i]) : i \in 1..Len(list)})
           /\ \A i, j \in 1..Len(Deduped(list)) : i # j => Deduped(list)[i].id # Deduped(list)[j].id
           /\ \A i \in 1..Len(list) : \E j \in 1..i :
                 /\ j \in 1..Len(Deduped(list))
                 /\ Deduped(list)[j].id = Expansion(list[i]).id
<1> DEFINE S == New(list)
           R == {p \in S \X S : p[1] < p[2]}
           kept == InOrder(S, R)
           n == Cardinality(S)
           E(i) == Expansion(list[i])
           all == {E(i) : i \in 1..Len(list)}
           a == Deduped(list)
<1>1. S \in SUBSET (1..Len(list)) /\ IsFiniteSet(1..Len(list))
  BY FS_Interval DEF New
<1>2. IsFiniteSet(S)
  BY <1>1, FS_Subset
<1>3. \A i, j \in S : <<i, j>> \in R <=> i < j
  OBVIOUS
<1>4. \A i \in S : \A j \in 1..(i - 1) : E(j).id # E(i).id
  BY DEF New
<1>5. \A i \in 1..Len(list) : (\A j \in 1..(i - 1) : E(j).id # E(i).id) => i \in S
  BY DEF New
<1>6. a = [k \in DOMAIN kept |-> E(kept[k])]
  BY DEF Deduped
<1> HIDE DEF S, R, E
<1>7. StrictOrder(S, R)
  BY <1>1, <1>3 DEF StrictOrder
<1>8. InOrderOf(kept, S, R)
  BY <1>2, <1>7, InOrderIs
<1> HIDE DEF kept
<1>9. /\ n \in Nat /\ kept \in [1..n -> S]
      /\ \A x \in S : \E k \in 1..n : kept[k] = x
      /\ \A j, k \in 1..n : j < k <=> <<kept[j], kept[k]>> \in R
      /\ \A k \in 1..n : Cardinality(Earlier(S, R, kept[k])) = k - 1
  BY <1>8 DEF InOrderOf
<1> HIDE DEF n, a
<1>10. a = [k \in 1..n |-> E(kept[k])]
  BY <1>6, <1>9
<1>11. a \in Seq(all) /\ Len(a) = n
  <2>1. \A k \in 1..n : E(kept[k]) \in all
    BY <1>1, <1>9
  <2> HIDE DEF all
  <2>2. a \in [1..n -> all]
    BY <1>10, <2>1
  <2>3. QED
    BY <1>9, <2>2, IsSeq
<1>12. \A j, k \in 1..n : j < k => a[j].id # a[k].id
  <2> SUFFICES ASSUME NEW j \in 1..n, NEW k \in 1..n, j < k PROVE a[j].id # a[k].id
    OBVIOUS
  <2>1. kept[j] \in S /\ kept[k] \in S /\ kept[j] < kept[k]
    BY <1>3, <1>9
  <2>2. kept[j] \in 1..(kept[k] - 1)
    <3>1. \A x \in S : x \in 1..Len(list)
      BY <1>1
    <3>2. kept[j] \in 1..Len(list) /\ kept[k] \in 1..Len(list)
      BY <2>1, <3>1
    <3> DEFINE x == kept[j]
               y == kept[k]
    <3> HIDE DEF x, y
    <3>3. x \in 1..Len(list) /\ y \in 1..Len(list) /\ x < y => x \in 1..(y - 1)
      OBVIOUS
    <3>4. QED
      BY <2>1, <3>2, <3>3 DEF x, y
  <2>3. QED
    BY <1>4, <1>10, <2>1, <2>2
<1>13. ASSUME NEW i \in 1..Len(list)
       PROVE  \E j \in 1..i : j \in 1..n /\ a[j].id = E(i).id
  <2> DEFINE M == {m \in 1..Len(list) : E(m).id = E(i).id}
  <2>1. M \in SUBSET Nat /\ i \in M
    OBVIOUS
  <2>2. PICK m \in M : \A k \in M : m <= k
    BY <2>1, LeastNat
  <2>3. m \in 1..Len(list) /\ E(m).id = E(i).id /\ m <= i /\ i \in Nat
    BY <2>1, <2>2
  <2>4. m \in S
    <3>1. SUFFICES ASSUME NEW j \in 1..(m - 1), E(j).id = E(m).id PROVE FALSE
      BY <1>5, <2>3
    <3>2. j \in M /\ j < m
      BY <2>3, <3>1
    <3>3. QED
      BY <2>2, <2>3, <3>2
  <2>5. PICK k \in 1..n : kept[k] = m
    BY <1>9, <2>4
  <2>6. Cardinality(Earlier(S, R, m)) = k - 1
    BY <1>9, <2>5
  <2>7. Earlier(S, R, m) \in SUBSET (1..(m - 1))
    <3>1. \A j \in S : <<j, m>> \in R => j < m
      BY <1>3, <2>4
    <3>2. \A j \in S : j \in 1..Len(list)
      BY <1>1
    <3>3. \A j \in Earlier(S, R, m) : j \in 1..Len(list) /\ j < m
      BY <3>1, <3>2 DEF Earlier
    <3>4. QED
      BY <2>3, <3>3
  <2>8. IsFiniteSet(1..(m - 1)) /\ Cardinality(1..(m - 1)) = m - 1
    <3>1. 1 \in Int /\ m - 1 \in Int /\ m >= 1
      BY <2>3
    <3>2. /\ IsFiniteSet(1..(m - 1))
          /\ Cardinality(1..(m - 1)) = IF 1 > m - 1 THEN 0 ELSE (m - 1) - 1 + 1
      BY <3>1, FS_Interval
    <3>3. QED
      BY <3>1, <3>2
  <2>9. k - 1 <= m - 1
    BY <2>6, <2>7, <2>8, FS_Subset
  <2>10. k \in 1..i
    BY <1>9, <2>3, <2>9
  <2>11. a[k].id = E(i).id
    BY <1>10, <2>3, <2>5
  <2>12. QED
    BY <2>10, <2>11
<1>14. \A i, j \in 1..n : i # j => a[i].id # a[j].id
  BY <1>9, <1>12
<1>15. QED
  BY <1>11, <1>13, <1>14 DEF a, E

LEMMA ExpansionIs ==
    ASSUME NEW c
    PROVE  /\ Expansion(c) = c \/ (Expansion(c) \in table /\ Expansion(c).id \in c.parent)
           /\ (\A p \in table : p.id \notin c.parent) => Expansion(c) = c
           /\ (\E p \in table : p.id \in c.parent) =>
                 Expansion(c) \in table /\ Expansion(c).id \in c.parent
  BY DEF Expansion

\* While no file changed and its titles differ, a row is expanded to its own
\* section, which holds its text.
LEMMA ExpansionHolds ==
    ASSUME CorpusInv, Quiet, NEW c \in table
    PROVE  Expansion(c).id.source = c.id.source /\ Holds(Expansion(c), c)
<1>1. PICK s \in Sources : \E d \in loaded[s] : c \in ChunksOf(s, d)
  BY DEF CorpusInv, RowsAreChunks
<1>2. PICK d \in loaded[s] : c \in ChunksOf(s, d)
  BY <1>1
<1>3. WellFormed(d) /\ IsFiniteSet(loaded[s])
  BY DEF CorpusInv, LoadedOK
<1>4. CASE Expansion(c) = c
  BY <1>4 DEF Holds
<1>5. CASE Expansion(c) # c
  <2>1. Expansion(c) \in table /\ Expansion(c).id \in c.parent
    BY <1>5, ExpansionIs
  <2>2. s \in DocsSources
    <3>1. CASE s \notin DocsSources
      <4>1. PICK x, y, z : c = Chunk(x, {}, y, z)
        BY <1>2, <3>1 DEF ChunksOf, IssueChunks
      <4>2. QED
        BY <2>1, <4>1 DEF Chunk
    <3>2. QED
      BY <3>1
  <2>3. c \in DocChunks(s, d)
    BY <1>2, <2>2 DEF ChunksOf
  <2>4. PICK p \in Pieces(d) : c = PieceRow(s, d, p)
    <3>1. \A i \in Windowed(d) : ParentRow(s, d, i).parent = {}
      BY DEF ParentRow, Chunk
    <3>2. QED
      BY <2>1, <2>3, <3>1, DocChunksAre
  <2>5. /\ c.id.source = s /\ c.text = Text(d, p.part, p.part, p.from, p.to)
        /\ c.parent = {ParentId(s, d[i].title) : i \in Windowed(d) \cap {p.part}}
    BY <2>4 DEF PieceRow, Chunk, ChunkId
  <2>6. p.part \in Windowed(d) /\ Expansion(c).id = ParentId(s, d[p.part].title)
    BY <2>1, <2>5
  <2> DEFINE w == ParentRow(s, d, p.part)
  <2>7. /\ w.id = ParentId(s, d[p.part].title) /\ w.id.source = s /\ w.id.seq = -1
        /\ w.text = Text(d, p.part, p.part, 0, d[p.part].size)
    BY DEF ParentRow, Chunk, ParentId
  <2>8. w \in ChunksOf(s, d)
    BY <2>2, <2>6, DocChunksAre DEF ChunksOf
  <2>9. Unchanged(s) /\ TitlesDiffer(d)
    BY <2>2 DEF Quiet
  <2>10. Alone(s, d, w)
    <3>1. SUFFICES ASSUME NEW q \in DocChunks(s, d), q.id = w.id PROVE q = w
      BY <2>2 DEF Alone, ChunksOf
    <3>2. ASSUME NEW x \in Pieces(d) PROVE PieceRow(s, d, x).id.seq \in Nat
      BY <1>3, ChunkSeqIs DEF PieceRow, Chunk, ChunkId
    <3>3. PICK i \in Windowed(d) : q = ParentRow(s, d, i)
      BY <2>7, <3>1, <3>2, DocChunksAre
    <3>4. d[i].title = d[p.part].title
      BY <2>7, <3>1, <3>3 DEF ParentRow, Chunk, ParentId
    <3>5. i = p.part
      BY <2>6, <2>9, <3>4 DEF TitlesDiffer, Windowed
    <3>6. QED
      BY <3>3, <3>5
  <2>11. loaded[s] = {d}
    <3>1. /\ IsFiniteSet(loaded[s] \ {d})
          /\ Cardinality(loaded[s] \ {d}) = Cardinality(loaded[s]) - 1
      BY <1>3, FS_RemoveElement
    <3>2. Cardinality(loaded[s]) <= 1 /\ Cardinality(loaded[s]) \in Nat
      BY <1>3, <2>9, FS_CardinalityType DEF Unchanged
    <3>3. Cardinality(loaded[s] \ {d}) \in Nat
      BY <3>1, FS_CardinalityType
    <3>4. Cardinality(loaded[s] \ {d}) = 0
      BY <3>1, <3>2, <3>3
    <3>5. loaded[s] \ {d} = {}
      BY <3>1, <3>4, FS_EmptySet
    <3>6. QED
      BY <3>5
  <2>12. w \in table
    BY <2>8, <2>10, <2>11 DEF CorpusInv, FirstIsThere
  <2>13. Expansion(c) = w
    BY <2>1, <2>6, <2>7, <2>12 DEF CorpusInv, IdsDiffer
  <2>14. TokensOf(c.text) \subseteq TokensOf(w.text)
    <3>1. p.from \in Nat /\ p.to \in Nat /\ p.to <= d[p.part].size /\ d[p.part].size \in Nat
      BY <1>3, PiecesAre DEF WellFormed
    <3>2. TokensOf(c.text) = {<<i, k>> : i \in p.part..p.part, k \in (p.from + 1)..p.to}
      BY <2>5 DEF TokensOf, Text
    <3>3. TokensOf(w.text) = {<<i, k>> : i \in p.part..p.part, k \in (0 + 1)..d[p.part].size}
      BY <2>7 DEF TokensOf, Text
    <3>4. \A k \in (p.from + 1)..p.to : k \in (0 + 1)..d[p.part].size
      BY <3>1
    <3>5. QED
      BY <3>2, <3>3, <3>4
  <2>15. c.text.of = d /\ w.text.of = d
    BY <2>5, <2>7 DEF Text
  <2>16. QED
    BY <2>5, <2>7, <2>13, <2>14, <2>15 DEF Holds
<1>6. QED
  BY <1>4, <1>5

LEMMA ExpandKeeps ==
    ASSUME SearchInv, CorpusInv, NEW r \in Requests, Expand(r)
    PROVE  SearchInv'
<1>0. Shapes /\ CallOK(r)
  BY DEF SearchInv
<1>1. CallTypeOK(r) /\ FoundOK(r) /\ HitsOK(r)
  BY <1>0 DEF CallOK
<1> DEFINE list == hits[r]
           full == Deduped(list)
           a == Cut(full, TopK)
<1>2. /\ UNCHANGED corpus /\ stack' = stack
      /\ query' = query /\ dense' = dense /\ hits' = hits /\ byDense' = byDense
      /\ byText' = byText /\ table' = table /\ loaded' = loaded
      /\ answer' = [answer EXCEPT ![r] = a]
      /\ stage' = [stage EXCEPT ![r] = "answered"] /\ stage[r] = "expand"
  BY DEF Expand, corpus
<1>3. /\ Len(list) \in Nat /\ \A i \in 1..Len(list) : list[i] \in table
  BY <1>1 DEF HitsOK, ListOf
<1>4. /\ full \in Seq({Expansion(list[i]) : i \in 1..Len(list)})
      /\ \A i, j \in 1..Len(full) : i # j => full[i].id # full[j].id
      /\ \A i \in 1..Len(list) : \E j \in 1..i : /\ j \in 1..Len(full)
                                                 /\ full[j].id = Expansion(list[i]).id
  BY <1>3, DedupedIs
<1>5. Shapes' /\ OthersWait(r) /\ stage'[r] = "answered" /\ answer'[r] = a
  BY <1>0, <1>2 DEF Shapes, OthersWait
<1> HIDE DEF full, list
<1>6. /\ a \in Seq({Expansion(list[i]) : i \in 1..Len(list)})
      /\ Len(a) = Least(TopK, Len(full)) /\ Len(a) <= TopK
      /\ \A i \in 1..Len(a) : a[i] = full[i]
  BY <1>4, CutIs, LimitTypes
<1>7. DOMAIN a = 1..Len(a) /\ Len(a) \in Nat /\ Len(full) \in Nat
  BY <1>4, <1>6
<1> HIDE DEF a
<1>8. \A i, j \in DOMAIN a : i # j => a[i].id # a[j].id
  <2>1. Len(a) <= Len(full)
    BY <1>6, <1>7, LimitTypes DEF Least
  <2>2. \A i \in DOMAIN a : i \in 1..Len(full) /\ a[i] = full[i]
    BY <1>6, <1>7, <2>1
  <2>3. QED
    BY <1>4, <2>2
<1>9. ASSUME NEW i \in 1..Least(TopK, Len(list))
      PROVE  \E j \in 1..i : j \in DOMAIN a /\ a[j].id = Expansion(list[i]).id
  <2>1. i \in 1..Len(list) /\ i <= TopK
    BY <1>3, LimitTypes DEF Least
  <2>2. PICK j \in 1..i : j \in 1..Len(full) /\ full[j].id = Expansion(list[i]).id
    BY <1>4, <2>1
  <2>3. j \in DOMAIN a
    BY <1>6, <1>7, <2>1, <2>2, LimitTypes DEF Least
  <2>4. QED
    BY <1>6, <1>7, <2>2, <2>3
<1>10. \A i \in 1..Least(TopK, Len(list)) : i \in 1..Len(list) /\ list[i] \in table
  BY <1>3, LimitTypes DEF Least
<1>11. CallTypeOK(r)'
  BY <1>1, <1>2, <1>5 DEF CallTypeOK
<1>12. FoundOK(r)'
  BY <1>1, <1>2 DEF FoundOK
<1>13. HitsOK(r)'
  BY <1>1, <1>2, <1>5, <1>6 DEF HitsOK
<1>14. FusedOK(r)'
  BY <1>1, <1>2 DEF FusedOK, CallTypeOK
<1>15. RankOK(r)'
  <2>1. \A i \in 1..Least(TopK, Len(list)) : \E j \in 1..i :
           j \in DOMAIN a /\ a[j].id \in {list[i].id} \cup list[i].parent
    <3>1. \A c : Expansion(c).id \in {c.id} \cup c.parent
      BY ExpansionIs
    <3>2. QED
      BY <1>9, <3>1
  <2>2. hits'[r] = list /\ answer'[r] = a
    BY <1>2, <1>5 DEF list
  <2>3. QED
    BY <1>8, <2>1, <2>2 DEF RankOK
<1>16. HeldOK(r)'
  <2>1. hits'[r] = list /\ answer'[r] = a
    BY <1>2, <1>5 DEF list
  <2>2. Quiet' => Quiet
    BY <1>2 DEF Quiet, Unchanged
  <2>3. ASSUME Quiet, NEW i \in 1..Least(TopK, Len(list))
        PROVE  \E j \in DOMAIN a : a[j].id.source = list[i].id.source /\ Holds(a[j], list[i])
    <3>1. PICK j \in DOMAIN a : a[j].id = Expansion(list[i]).id
      BY <1>9
    <3>2. PICK m \in 1..Len(list) : a[j] = Expansion(list[m])
      BY <1>6, <1>7, <3>1
    <3>3. a[j] \in table /\ Expansion(list[i]) \in table
      BY <1>3, <1>10, <3>2, ExpansionIs
    <3>4. a[j] = Expansion(list[i])
      BY <3>1, <3>3 DEF CorpusInv, IdsDiffer
    <3>5. QED
      BY <1>10, <2>3, <3>4, ExpansionHolds
  <2>4. QED
    BY <2>1, <2>2, <2>3 DEF HeldOK, HitsAreHeld
<1>17. QED
  BY <1>0, <1>2, <1>5, <1>11, <1>12, <1>13, <1>14, <1>15, <1>16, OneCallKeeps DEF CallOK

LEMMA AskKeeps ==
    ASSUME SearchInv, CorpusInv, NEW r \in Requests, Ask(r)
    PROVE  SearchInv'
<1>1. ASSUME NEW q \in Queries, NEW st \in Stacks, NEW text, UNCHANGED corpus,
             Start(r, q, st, text)
      PROVE  SearchInv'
  BY <1>1, StartKeeps
<1>2. "full" \in Stacks
  BY DEF Stacks
<1>3. ASSUME NEW q \in Queries, NEW st \in Stacks, AskPlainly(r, q, st) PROVE SearchInv'
  <2>1. UNCHANGED corpus /\ Start(r, q, st, QueryText(q))
    BY <1>3 DEF AskPlainly
  <2>2. QED
    BY <1>1, <2>1
<1>4. ASSUME NEW q \in Queries, AskCached(r, q) \/ AskAnew(r, q) \/ AskBroken(r, q)
      PROVE  SearchInv'
  <2>1. PICK text : UNCHANGED corpus /\ Start(r, q, "full", text)
    BY <1>4 DEF AskCached, AskAnew, AskBroken, BreakOff
  <2>2. QED
    BY <1>1, <1>2, <2>1
<1>5. ASSUME NEW q \in Queries, DieWriting(r, q) PROVE SearchInv'
  BY <1>5, DieKeeps
<1>6. QED
  BY <1>3, <1>4, <1>5 DEF Ask

\* The corpus changes, or nothing does, or something about the passages.
LEMMA RestStepKeeps ==
    ASSUME SearchInv, CorpusInv,
           \/ (CorpusNext /\ UNCHANGED search) \/ ClearCache \/ UNCHANGED vars
           \/ \E q \in Queries : OtherSteps(q)
    PROVE  SearchInv'
<1>0. Shapes
  BY DEF SearchInv
<1>1. /\ CorpusNext \/ UNCHANGED corpus
      /\ stage' = stage /\ stack' = stack /\ query' = query /\ dense' = dense
      /\ byDense' = byDense /\ byText' = byText /\ hits' = hits /\ answer' = answer
  BY DEF ClearCache, OtherSteps, OtherAsks, OtherOpens, OtherCloses, OtherStops, calls,
         search, vars, corpus
<1>2. CorpusInv' /\ table \in SUBSET table'
  BY <1>1, CorpusInvStep
<1>3. \A s \in Sources : loaded[s] \in SUBSET loaded'[s]
  BY <1>1, LoadedGrows
<1>4. ASSUME NEW p \in Requests PROVE CallOK(p)'
  <2>1. CallOK(p)
    BY DEF SearchInv
  <2>2. QED
    BY <1>1, <1>2, <1>3, <2>1, RestKeeps
<1>5. Shapes'
  BY <1>0, <1>1 DEF Shapes
<1>6. QED
  BY <1>4, <1>5 DEF SearchInv

LEMMA SearchHolds == Spec => [](CorpusInv /\ SearchInv)
<1>1. Init => CorpusInv /\ SearchInv
  BY CorpusInvInit, SearchInvInit DEF Init
<1>2. CorpusInv /\ SearchInv /\ [Next]_vars => (CorpusInv /\ SearchInv)'
  <2> SUFFICES ASSUME CorpusInv, SearchInv, [Next]_vars PROVE CorpusInv' /\ SearchInv'
    OBVIOUS
  <2>1. CorpusInv'
    BY CorpusSteps, CorpusInvStep
  <2>2. ASSUME \/ (CorpusNext /\ UNCHANGED search) \/ ClearCache \/ UNCHANGED vars
               \/ \E q \in Queries : OtherSteps(q)
        PROVE  SearchInv'
    BY <2>2, RestStepKeeps
  <2>3. ASSUME NEW r \in Requests, Ask(r) PROVE SearchInv'
    BY <2>3, AskKeeps
  <2>4. ASSUME NEW r \in Requests, DenseAnswers(r) \/ TextAnswers(r) PROVE SearchInv'
    BY <2>4, AnswersKeep
  <2>5. ASSUME NEW r \in Requests, AnswerUnranked(r) PROVE SearchInv'
    BY <2>5, UnrankedKeeps
  <2>6. ASSUME NEW r \in Requests, Rerank(r) PROVE SearchInv'
    BY <2>6, RerankKeeps
  <2>7. ASSUME NEW r \in Requests, Expand(r) PROVE SearchInv'
    BY <2>7, ExpandKeeps
  <2>8. ASSUME NEW r \in Requests, Fails(r) \/ Done(r) PROVE SearchInv'
    BY <2>8, LeaveKeeps DEF Fails, Done
  <2>9. QED
    BY <2>1, <2>2, <2>3, <2>4, <2>5, <2>6, <2>7, <2>8 DEF Next
<1>3. QED
  BY <1>1, <1>2, PTL DEF Spec

-----------------------------------------------------------------------------
(* The passages of HyDE.                                                   *)

\* A file holds the passage of its query; half of one while it is being written,
\* and after a write that broke off until the cache is cleared.
FileOK(q) == \/ cache[q] = NoFile
             \/ cache[q] = Passage(q, TRUE)
             \/ cache[q] = Passage(q, FALSE) /\ (q \in broken \/ other[q] = "writes")

HydeInv == /\ cache = [q \in Queries |-> cache[q]]
           /\ broken \subseteq Queries
           /\ other \in [Queries -> {"away", "asks", "writes"}]
           /\ \A q \in Queries : FileOK(q)

LEMMA HydeInit == Init => HydeInv
  BY DEF Init, SearchInit, HydeInv, FileOK

\* A step about one passage.
LEMMA OnePassage ==
    ASSUME HydeInv, NEW q \in Queries, NEW file,
           cache' = cache \/ cache' = [cache EXCEPT ![q] = file],
           broken' \subseteq Queries, broken \subseteq broken',
           other' \in [Queries -> {"away", "asks", "writes"}],
           \A p \in Queries \ {q} : other'[p] = other[p],
           FileOK(q)'
    PROVE  HydeInv'
<1>1. cache' = [p \in Queries |-> cache'[p]]
  BY DEF HydeInv
<1>2. ASSUME NEW p \in Queries, p # q PROVE FileOK(p)'
  <2>1. cache'[p] = cache[p] /\ other'[p] = other[p] /\ FileOK(p)
    BY <1>2 DEF HydeInv
  <2>2. QED
    BY <2>1 DEF FileOK
<1>3. QED
  BY <1>1, <1>2 DEF HydeInv

LEMMA HydeStep == HydeInv /\ [Next]_vars => HydeInv'
<1> SUFFICES ASSUME HydeInv, [Next]_vars PROVE HydeInv'
  OBVIOUS
<1>1. ASSUME UNCHANGED hyde PROVE HydeInv'
  BY <1>1 DEF hyde, HydeInv, FileOK
<1>2. ASSUME NEW q \in Queries, BreakOff(q) PROVE HydeInv'
  <2>1. cache' = [cache EXCEPT ![q] = Passage(q, FALSE)] /\ broken' = broken \cup {q}
          /\ other' = other
    BY <1>2 DEF BreakOff, FileOf
  <2>2. FileOK(q)'
    BY <2>1 DEF HydeInv, FileOK
  <2>3. QED
    BY <2>1, <2>2, OnePassage DEF HydeInv
<1>3. ASSUME NEW r \in Requests, NEW q \in Queries, AskAnew(r, q) PROVE HydeInv'
  <2>1. cache' = [cache EXCEPT ![q] = Passage(q, TRUE)] /\ broken' = broken /\ other' = other
    BY <1>3 DEF AskAnew, FileOf
  <2>2. FileOK(q)'
    BY <2>1 DEF HydeInv, FileOK
  <2>3. QED
    BY <2>1, <2>2, OnePassage DEF HydeInv
<1>4. ASSUME NEW q \in Queries, OtherAsks(q) PROVE HydeInv'
  <2>1. /\ cache' = cache /\ broken' = broken /\ other' = [other EXCEPT ![q] = "asks"]
        /\ cache[q] = NoFile
    BY <1>4 DEF OtherAsks, FileOf
  <2>2. FileOK(q)'
    BY <2>1 DEF FileOK
  <2>3. QED
    BY <2>1, <2>2, OnePassage DEF HydeInv
<1>5. ASSUME NEW q \in Queries, OtherOpens(q) PROVE HydeInv'
  <2>1. /\ cache' = [cache EXCEPT ![q] = Passage(q, FALSE)] /\ broken' = broken
        /\ other' = [other EXCEPT ![q] = "writes"]
    BY <1>5 DEF OtherOpens, FileOf
  <2>2. FileOK(q)'
    BY <2>1 DEF HydeInv, FileOK
  <2>3. QED
    BY <2>1, <2>2, OnePassage DEF HydeInv
<1>6. ASSUME NEW q \in Queries, OtherCloses(q) PROVE HydeInv'
  <2>1. /\ cache' = [cache EXCEPT ![q] = Passage(q, TRUE)] /\ broken' = broken
        /\ other' = [other EXCEPT ![q] = "away"]
    BY <1>6 DEF OtherCloses, FileOf
  <2>2. FileOK(q)'
    BY <2>1 DEF HydeInv, FileOK
  <2>3. QED
    BY <2>1, <2>2, OnePassage DEF HydeInv
<1>7. ASSUME NEW q \in Queries, OtherStops(q) PROVE HydeInv'
  <2>1. /\ cache' = cache /\ other' = [other EXCEPT ![q] = "away"]
        /\ broken' = IF other[q] = "writes" THEN broken \cup {q} ELSE broken
    BY <1>7 DEF OtherStops
  <2>2. FileOK(q)'
    BY <2>1 DEF HydeInv, FileOK
  <2>3. QED
    BY <2>1, <2>2, OnePassage DEF HydeInv
<1>8. ASSUME ClearCache PROVE HydeInv'
  BY <1>8 DEF ClearCache, HydeInv, FileOK
<1>9. ASSUME NEW r \in Requests, Ask(r) PROVE HydeInv'
  <2>1. ASSUME NEW q \in Queries, NEW st \in Stacks, AskPlainly(r, q, st) \/ AskCached(r, q)
        PROVE  HydeInv'
    BY <1>1, <2>1 DEF AskPlainly, AskCached
  <2>2. ASSUME NEW q \in Queries, AskBroken(r, q) \/ DieWriting(r, q) PROVE HydeInv'
    BY <1>2, <2>2 DEF AskBroken, DieWriting
  <2>3. "naive" \in Stacks
    BY DEF Stacks
  <2>4. QED
    BY <1>3, <1>9, <2>1, <2>2, <2>3 DEF Ask
<1>10. ASSUME NEW r \in Requests,
              \/ DenseAnswers(r) \/ TextAnswers(r) \/ AnswerUnranked(r) \/ Rerank(r)
              \/ Expand(r) \/ Fails(r) \/ Done(r)
       PROVE  HydeInv'
  <2>1. UNCHANGED hyde
    BY <1>10 DEF DenseAnswers, TextAnswers, AnswerUnranked, Rerank, Expand, Fails, Done, Leave
  <2>2. QED
    BY <1>1, <2>1
<1>11. ASSUME (CorpusNext /\ UNCHANGED search) \/ UNCHANGED vars PROVE HydeInv'
  BY <1>1, <1>11 DEF search, vars
<1>12. QED
  BY <1>4, <1>5, <1>6, <1>7, <1>8, <1>9, <1>10, <1>11 DEF Next, OtherSteps

LEMMA HydeHolds == Spec => []HydeInv
  BY HydeInit, HydeStep, PTL DEF Spec

\* Only a call's own beginning takes it from idle to its searches.
LEMMA OnlyAskStarts ==
    ASSUME SearchInv, [Next]_vars, NEW r \in Requests,
           stage[r] = "idle", stage'[r] = "search"
    PROVE  Ask(r)
<1>1. stage = [p \in Requests |-> stage[p]]
  BY DEF SearchInv, Shapes
<1>2. ASSUME NEW p \in Requests, NEW x, stage' = [stage EXCEPT ![p] = x]
      PROVE  p = r /\ x = "search"
  BY <1>1, <1>2
<1>3. ASSUME NEW p \in Requests, Ask(p) PROVE p = r
  <2>1. ASSUME NEW q \in Queries, DieWriting(p, q) PROVE FALSE
    BY <2>1 DEF DieWriting
  <2>2. PICK q \in Queries, st \in Stacks : \E text : Start(p, q, st, text)
    <3>1. "full" \in Stacks
      BY DEF Stacks
    <3>2. PICK q \in Queries : \/ \E st \in Stacks : AskPlainly(p, q, st)
                               \/ AskCached(p, q) \/ AskAnew(p, q) \/ AskBroken(p, q)
      BY <1>3, <2>1 DEF Ask
    <3>3. QED
      BY <3>1, <3>2 DEF AskPlainly, AskCached, AskAnew, AskBroken
  <2>3. stage' = [stage EXCEPT ![p] = "search"]
    BY <2>2 DEF Start
  <2>4. QED
    BY <1>2, <2>3
<1>4. ASSUME NEW p \in Requests,
             \/ DenseAnswers(p) \/ TextAnswers(p) \/ AnswerUnranked(p) \/ Rerank(p)
             \/ Expand(p) \/ Fails(p) \/ Done(p)
      PROVE  FALSE
  <2>1. CASE DenseAnswers(p) \/ TextAnswers(p)
    BY <2>1 DEF DenseAnswers, TextAnswers
  <2>2. CASE AnswerUnranked(p) \/ Expand(p)
    <3>1. stage' = [stage EXCEPT ![p] = "answered"]
      BY <2>2 DEF AnswerUnranked, Expand
    <3>2. QED
      BY <1>2, <3>1
  <2>3. CASE Rerank(p)
    <3>1. \/ stage' = [stage EXCEPT ![p] = "expand"]
          \/ stage' = [stage EXCEPT ![p] = "answered"]
      BY <2>3 DEF Rerank
    <3>2. QED
      BY <1>2, <3>1
  <2>4. CASE Fails(p) \/ Done(p)
    <3>1. stage' = [stage EXCEPT ![p] = "idle"]
      BY <2>4 DEF Fails, Done, Leave
    <3>2. QED
      BY <1>2, <3>1
  <2>5. QED
    BY <1>4, <2>1, <2>2, <2>3, <2>4
<1>5. ASSUME \/ (CorpusNext /\ UNCHANGED search) \/ ClearCache \/ UNCHANGED vars
             \/ \E q \in Queries : OtherSteps(q)
      PROVE  FALSE
  <2>1. stage' = stage
    BY <1>5 DEF ClearCache, OtherSteps, OtherAsks, OtherOpens, OtherCloses, OtherStops, calls,
                search, vars
  <2>2. QED
    BY <2>1
<1>6. PICK p \in Requests : Ask(p)
  BY <1>4, <1>5 DEF Next
<1>7. QED
  BY <1>3, <1>6

\* What a call embeds is its query or a passage of its query, and half of one only
\* for a reason, for any queries, calls, failures and writers at a time
\* (_cache_path and generate of hyde.py).
LEMMA TextIsItsOwn ==
    ASSUME SearchInv, HydeInv, NEW r \in Requests, Ask(r), stage'[r] = "search"
    PROVE  LET q == query'[r] IN
           \/ dense'[r] \in {QueryText(q), Passage(q, TRUE)}
           \/ dense'[r] = Passage(q, FALSE) /\ (q \in broken \/ other[q] = "writes")
<1>1. query = [p \in Requests |-> query[p]] /\ dense = [p \in Requests |-> dense[p]]
  BY DEF SearchInv, Shapes
<1>2. ASSUME NEW q \in Queries, NEW st, NEW text, Start(r, q, st, text)
      PROVE  query'[r] = q /\ dense'[r] = text
  BY <1>1, <1>2 DEF Start
<1>3. ASSUME NEW q \in Queries, NEW st \in Stacks, AskPlainly(r, q, st)
      PROVE  query'[r] = q /\ dense'[r] = QueryText(q)
  BY <1>2, <1>3 DEF AskPlainly
<1>4. ASSUME NEW q \in Queries, AskCached(r, q)
      PROVE  query'[r] = q /\ dense'[r] = cache[q] /\ cache[q] # NoFile
  BY <1>2, <1>4 DEF AskCached, FileOf
<1>5. ASSUME NEW q \in Queries, AskAnew(r, q)
      PROVE  query'[r] = q /\ dense'[r] = Passage(q, TRUE)
  BY <1>2, <1>5 DEF AskAnew
<1>6. ASSUME NEW q \in Queries, AskBroken(r, q)
      PROVE  query'[r] = q /\ dense'[r] = QueryText(q)
  BY <1>2, <1>6 DEF AskBroken
<1>7. ASSUME NEW q \in Queries, DieWriting(r, q) PROVE FALSE
  BY <1>7 DEF DieWriting
<1>8. PICK q \in Queries : \/ \E st \in Stacks : AskPlainly(r, q, st)
                           \/ AskCached(r, q) \/ AskAnew(r, q) \/ AskBroken(r, q)
  BY <1>7 DEF Ask
<1>9. FileOK(q)
  BY DEF HydeInv
<1>10. CASE AskCached(r, q)
  BY <1>4, <1>9, <1>10 DEF FileOK
<1>11. CASE ~AskCached(r, q)
  BY <1>3, <1>5, <1>6, <1>8, <1>11
<1>12. QED
  BY <1>10, <1>11

\* No call embeds a passage of another query, and none embeds half a passage
\* unless it is being written or its write broke off and nobody cleared the cache
\* since, for any queries, calls at a time, failures and deaths (_cache_path and
\* generate of hyde.py).
THEOREM PassagesAreTheirQueries == Spec => DenseTextIsItsOwn
<1>1. SearchInv /\ HydeInv /\ [Next]_vars =>
        [\A r \in Requests :
           (stage[r] = "idle" /\ stage'[r] = "search") =>
              LET q == query'[r] IN
              \/ dense'[r] \in {QueryText(q), Passage(q, TRUE)}
              \/ dense'[r] = Passage(q, FALSE) /\ (q \in broken \/ other[q] = "writes")]_vars
  BY OnlyAskStarts, TextIsItsOwn
<1>2. QED
  BY <1>1, SearchHolds, HydeHolds, PTL DEF Spec, DenseTextIsItsOwn

-----------------------------------------------------------------------------
(* What the calls promise.                                                 *)

\* The fusion is monotone: whatever the two searches answer, however many rows
\* they give and whatever RRF_K, FUSE_TO and top_k are, a row both put before
\* another is before it in the answer (_rrf_fuse).
THEOREM FusionIsMonotone == Spec => []AgreedOrderKept
<1>1. CorpusInv /\ SearchInv => AgreedOrderKept
  <2> SUFFICES ASSUME CorpusInv, SearchInv, NEW r \in Requests,
                      stage[r] = "answered", stack[r] = "hybrid",
                      NEW c \in Range(byDense[r]) \cup Range(byText[r]),
                      NEW b \in Range(byDense[r]) \cup Range(byText[r]),
                      AtLeastAsEarly(byDense[r], c, b), AtLeastAsEarly(byText[r], c, b),
                      PlaceIn(answer[r], b) # 0
               PROVE  PlaceIn(answer[r], c) \in 1..(PlaceIn(answer[r], b) - 1)
    BY DEF AgreedOrderKept
  <2> DEFINE d == byDense[r]
             s == byText[r]
  <2>1. FoundOK(r) /\ FusedOK(r)
    BY DEF SearchInv, CallOK
  <2>2. /\ ListOf(d, table) /\ ListOf(s, table)
        /\ answer[r] = Cut(Cut(Fuse(d, s), FuseTo), TopK)
    BY <2>1 DEF FoundOK, FusedOK, Fused
  <2> HIDE DEF d, s
  <2>3. /\ TwoLists(d, s) /\ Prefix(Cut(Fuse(d, s), FuseTo), Fuse(d, s))
        /\ Cut(Fuse(d, s), FuseTo) \in Seq(table)
    BY <2>2, FusedIs
  <2>4. Prefix(answer[r], Cut(Fuse(d, s), FuseTo))
    BY <2>2, <2>3, CutIs, LimitTypes
  <2>5. Len(Fuse(d, s)) \in Nat
    BY <2>2, FusedIs
  <2>6. Prefix(answer[r], Fuse(d, s))
    BY <2>3, <2>4, <2>5 DEF Prefix
  <2>7. QED
    BY <2>3, <2>6, FusedInOrder DEF d, s
<1>2. QED
  BY <1>1, SearchHolds, PTL

\* An answer of the full stack has no passage twice and has every hit, or its
\* parent, at its place or before, for any number of hits and any top_k
\* (_dedupe_to_parent).
THEOREM ExpansionIsForward == Spec => []ExpansionKeepsRank
<1>1. SearchInv => ExpansionKeepsRank
  BY DEF SearchInv, CallOK, RankOK, ExpansionKeepsRank
<1>2. QED
  BY <1>1, SearchHolds, PTL

\* The text of every hit is in what the model reads, for any sources, while no
\* file changed and no file has one title twice (parent_lookup).
THEOREM HitsReachTheModel == Spec => []HitsAreRead
<1>1. SearchInv => HitsAreRead
  BY DEF SearchInv, CallOK, HeldOK, Quiet, HitsAreRead
<1>2. QED
  BY <1>1, SearchHolds, PTL

\* The search, the widget's page and its frame keep their types.
THEOREM AnswerTypes == Spec /\ Client!Spec /\ Frame!Spec => []TypesOK
<1>1. SearchInv /\ HydeInv => SearchTypeOK
  <2> SUFFICES ASSUME SearchInv, HydeInv PROVE SearchTypeOK
    OBVIOUS
  <2>1. Shapes /\ \A r \in Requests : CallTypeOK(r) /\ HitsOK(r)
    BY DEF SearchInv, CallOK
  <2>2. \A q \in Queries : cache[q] \in {NoFile} \cup {Passage(p, w) : p \in Queries, w \in BOOLEAN}
    <3> SUFFICES ASSUME NEW q \in Queries
                 PROVE  cache[q] \in {NoFile} \cup {Passage(p, w) : p \in Queries, w \in BOOLEAN}
      OBVIOUS
    <3>1. cache[q] = NoFile \/ cache[q] = Passage(q, TRUE) \/ cache[q] = Passage(q, FALSE)
      BY DEF HydeInv, FileOK
    <3> DEFINE P == {Passage(p, w) : p \in Queries, w \in BOOLEAN}
    <3>2. \A w \in BOOLEAN : Passage(q, w) \in P
      OBVIOUS
    <3> HIDE DEF P
    <3>3. Passage(q, TRUE) \in P /\ Passage(q, FALSE) \in P
      BY <3>2, Zenon
    <3>4. cache[q] \in {NoFile} \cup P
      BY <3>1, <3>3
    <3>5. QED
      BY <3>4 DEF P
  <2>3. cache \in [Queries -> {NoFile} \cup {Passage(p, w) : p \in Queries, w \in BOOLEAN}]
    BY <2>2 DEF HydeInv
  <2>4. /\ stage \in [Requests -> {"idle", "search", "expand", "answered"}]
        /\ stack \in [Requests -> Stacks] /\ query \in [Requests -> Queries]
    BY <2>1 DEF Shapes, CallTypeOK
  <2>5. QED
    BY <2>1, <2>3, <2>4 DEF SearchTypeOK, HitsOK, HydeInv
<1>2. ClientInv => Client!TypeOK
  BY DEF ClientInv
<1>3. QED
  BY <1>1, <1>2, SearchHolds, HydeHolds, ClientHolds, FrameHolds, PTL DEF TypesOK
=============================================================================
