-------------------------- MODULE RetrievalProofs --------------------------
(***************************************************************************)
(* Proofs about Queries and Embeddings, for any finite set of entries, any *)
(* readers and servers, and any page sizes and limits.                     *)
(*                                                                         *)
(* Both read the entries latest written first, so the first part is about  *)
(* Recency: where a row stands in a listing, and what one row that moves   *)
(* does to the places of the others.                                       *)
(***************************************************************************)
EXTENDS Queries, Embeddings, FiniteSetTheorems, WellFoundedInduction, TLAPS

(* Recency.                                                                *)

\* The place of a row is a number.
LEMMA PlaceType ==
  ASSUME NEW S, IsFiniteSet(S), NEW order, NEW i
  PROVE  IsFiniteSet(Before(S, order, i)) /\ Place(S, order, i) \in Nat
<1>1. Before(S, order, i) \in SUBSET S
  BY DEF Before
<1>. QED
  BY <1>1, FS_Subset, FS_CardinalityType DEF Place

\* A row that is returned before another has the smaller place.
LEMMA BeforeIsSmaller ==
  ASSUME NEW T, NEW order, IsRecency(order, T), NEW S \in SUBSET T, IsFiniteSet(S),
         NEW i \in S, NEW j \in S, <<j, i>> \in order
  PROVE  /\ Before(S, order, j) \subseteq Before(S, order, i) \ {j}
         /\ Place(S, order, j) < Place(S, order, i)
<1>1. Before(S, order, j) \subseteq Before(S, order, i) \ {j}
  BY DEF Before, IsRecency
<1>2. j \in Before(S, order, i)
  BY DEF Before
<1>3. Cardinality(Before(S, order, j)) <= Cardinality(Before(S, order, i) \ {j})
  BY <1>1, PlaceType, FS_RemoveElement, FS_Subset
<1>4. Cardinality(Before(S, order, i) \ {j}) = Cardinality(Before(S, order, i)) - 1
  BY <1>2, PlaceType, FS_RemoveElement
<1>. QED
  BY <1>1, <1>3, <1>4, PlaceType DEF Place

\* Among some rows one is returned first.
LEMMA FirstExists ==
  ASSUME NEW T, NEW order, IsRecency(order, T), NEW S \in SUBSET T, IsFiniteSet(S),
         NEW X \in SUBSET S, X # {}
  PROVE  \E i \in X : \A j \in X \ {i} : <<i, j>> \in order
<1>. DEFINE sets == {Before(S, order, i) : i \in X}
<1>1. sets \subseteq FiniteSubsetsOf(S) /\ sets # {}
  <2>1. \A i \in X : Before(S, order, i) \in FiniteSubsetsOf(S)
    BY PlaceType DEF FiniteSubsetsOf, Before
  <2>. QED
    BY <2>1
<1>. HIDE DEF sets
<1>2. PICK least \in sets : \A B \in sets : <<B, least>> \notin StrictSubsetOrdering(S)
  BY <1>1, FS_StrictSubsetOrderingWellFounded, WFMin
<1>3. PICK i \in X : least = Before(S, order, i)
  BY DEF sets
<1>4. ASSUME NEW j \in X \ {i} PROVE <<i, j>> \in order
  <2>1. CASE <<j, i>> \in order
    <3>1. Before(S, order, j) \in sets
      BY DEF sets
    <3>2. Before(S, order, j) \subseteq Before(S, order, i) \ {j} /\ j \in Before(S, order, i)
      BY <2>1, BeforeIsSmaller DEF Before
    <3>3. <<Before(S, order, j), Before(S, order, i)>> \in StrictSubsetOrdering(S)
      BY <3>2, <1>1, <1>3, <3>1 DEF StrictSubsetOrdering, Before
    <3>. QED
      BY <1>2, <1>3, <3>1, <3>3
  <2>. QED
    BY <2>1 DEF IsRecency
<1>. QED
  BY <1>4

\* ... and one last.
LEMMA LastExists ==
  ASSUME NEW T, NEW order, IsRecency(order, T), NEW S \in SUBSET T, IsFiniteSet(S),
         NEW X \in SUBSET S, X # {}
  PROVE  \E i \in X : \A j \in X \ {i} : <<j, i>> \in order
<1>. DEFINE back == {p \in T \X T : <<p[2], p[1]>> \in order}
<1>1. \A i, j \in T : <<i, j>> \in back <=> <<j, i>> \in order
  BY DEF IsRecency
<1>2. back \subseteq T \X T
  OBVIOUS
<1>. HIDE DEF back
<1>3. IsRecency(back, T)
  BY <1>1, <1>2 DEF IsRecency
<1>4. PICK i \in X : \A j \in X \ {i} : <<i, j>> \in back
  BY <1>3, FirstExists
<1>. QED
  BY <1>1, <1>4

\* Places have no holes.
LEMMA PlacesContiguous ==
  ASSUME NEW T, NEW order, IsRecency(order, T), NEW S \in SUBSET T, IsFiniteSet(S),
         NEW m \in Nat, NEW i \in S, Place(S, order, i) >= m
  PROVE  \E k \in S : Place(S, order, k) = m
<1>. DEFINE X == {k \in S : Place(S, order, k) >= m}
<1>0. X \in SUBSET S /\ X # {}
  OBVIOUS
<1>. HIDE DEF X
<1>1. PICK k \in X : \A j \in X \ {k} : <<k, j>> \in order
  BY <1>0, FirstExists
<1>2. CASE Place(S, order, k) > m
  <2>. DEFINE B == Before(S, order, k)
  <2>1. B \in SUBSET S /\ IsFiniteSet(B) /\ Cardinality(B) \in Nat /\ Cardinality(B) > m
    BY <1>2, PlaceType DEF Place, Before
  <2>2. B # {}
    BY <2>1, FS_EmptySet
  <2>. HIDE DEF B
  <2>3. PICK j \in B : \A h \in B \ {j} : <<h, j>> \in order
    BY <2>1, <2>2, LastExists
  <2>4. j \in S /\ k \in S /\ <<j, k>> \in order
    BY <1>0, <2>3 DEF B, Before
  <2>5. Before(S, order, j) = B \ {j}
    <3>1. Before(S, order, j) \subseteq B \ {j}
      BY <2>4, BeforeIsSmaller DEF B
    <3>2. B \ {j} \subseteq Before(S, order, j)
      BY <2>1, <2>3 DEF Before
    <3>. QED
      BY <3>1, <3>2
  <2>6. Place(S, order, j) >= m
    <3>1. Cardinality(B \ {j}) = Cardinality(B) - 1
      BY <2>1, <2>3, FS_RemoveElement
    <3>2. Place(S, order, j) = Cardinality(B) - 1
      BY <2>5, <3>1 DEF Place
    <3>. QED
      BY <2>1, <3>2
  <2>7. j # k /\ j \in X /\ k \in T
    BY <1>0, <2>4, <2>6 DEF IsRecency, X
  <2>. QED
    BY <1>1, <2>4, <2>7 DEF IsRecency
<1>. QED
  BY <1>2, PlaceType DEF X

\* One row j moves, appears or disappears: a row i whose place was not before
\* offset o and now is, owes it to j, which was before o and no longer is.
LEMMA OneMoves ==
  ASSUME NEW T1, NEW order1, IsRecency(order1, T1), NEW S1 \in SUBSET T1, IsFiniteSet(S1),
         NEW T2, NEW order2, IsRecency(order2, T2), NEW S2 \in SUBSET T2, IsFiniteSet(S2),
         NEW j, S1 \ {j} = S2 \ {j},
         \A a, b \in S1 \ {j} : <<a, b>> \in order1 <=> <<a, b>> \in order2,
         NEW o \in Nat, NEW i \in S1 \ {j},
         Place(S1, order1, i) >= o, Place(S2, order2, i) < o
  PROVE  Passed(S1, order1, j, o) /\ ~Passed(S2, order2, j, o)
<1>. DEFINE B1 == Before(S1, order1, i)
            B2 == Before(S2, order2, i)
<1>1. /\ IsFiniteSet(B1) /\ Cardinality(B1) \in Nat /\ Cardinality(B1) >= o
      /\ IsFiniteSet(B2) /\ Cardinality(B2) \in Nat /\ Cardinality(B2) < o
  BY PlaceType DEF Place
<1>2. B1 \ {j} = B2 \ {j}
  BY DEF Before
<1>3. j \in B1 /\ j \notin B2
  <2>1. CASE j \notin B1
    <3>1. B1 \subseteq B2
      BY <1>2, <2>1
    <3>. QED
      BY <1>1, <3>1, FS_Subset
  <2>2. CASE j \in B1 /\ j \in B2
    <3>1. B1 = B2
      BY <1>2, <2>2
    <3>. QED
      BY <1>1, <3>1
  <2>. QED
    BY <2>1, <2>2
<1>4. Cardinality(B1) = o /\ Cardinality(B2) = o - 1
  <2>1. B2 = B1 \ {j}
    BY <1>2, <1>3
  <2>2. Cardinality(B2) = Cardinality(B1) - 1
    BY <1>1, <1>3, <2>1, FS_RemoveElement
  <2>. QED
    BY <1>1, <2>2
<1>5. j \in S1 /\ Place(S1, order1, j) < o
  <2>1. j \in S1 /\ <<j, i>> \in order1
    BY <1>3 DEF Before
  <2>2. Place(S1, order1, j) < Place(S1, order1, i)
    BY <2>1, BeforeIsSmaller
  <2>. QED
    BY <1>4, <2>1, <2>2 DEF Place
<1>6. ASSUME j \in S2 PROVE ~(Place(S2, order2, j) < o)
  <2>1. i \in S2 /\ <<i, j>> \in order2
    BY <1>3, <1>6 DEF Before, IsRecency
  <2>2. Place(S2, order2, i) < Place(S2, order2, j)
    BY <1>6, <2>1, BeforeIsSmaller
  <2>. QED
    BY <1>4, <2>2, PlaceType DEF Place
<1>. QED
  BY <1>5, <1>6 DEF Passed

\* Putting a row in its place, or taking it out, leaves an order.
LEMMA PlacedInOrder ==
  ASSUME NEW T, NEW order, IsRecency(order, T), NEW i, NEW N \in SUBSET (T \ {i}),
         \A j \in N : Before(T, order, j) \subseteq N \cup {i}
  PROVE  /\ IsRecency(Placed(order, i, N, T \ (N \cup {i})), T \cup {i})
         /\ \A a, b \in T \ {i} : <<a, b>> \in Placed(order, i, N, T \ (N \cup {i}))
                                  <=> <<a, b>> \in order
<1>. DEFINE O == T \ (N \cup {i})
            new == Placed(order, i, N, O)
<1>1. \A a, b \in T \cup {i} :
        <<a, b>> \in new <=> \/ a # i /\ b # i /\ <<a, b>> \in order
                             \/ a \in N /\ b = i
                             \/ a = i /\ b \in O
  BY DEF Placed, Without
<1>2. new \subseteq (T \cup {i}) \X (T \cup {i})
  BY DEF Placed, Without, IsRecency
<1>3. \A a, b \in T : b \in N /\ a # i /\ <<a, b>> \in order => a \in N
  BY DEF Before
<1>. HIDE DEF new
<1>4. \A a \in T \cup {i} : <<a, a>> \notin new
  BY <1>1 DEF IsRecency
<1>5. \A a, b \in T \cup {i} : a # b => <<a, b>> \in new \/ <<b, a>> \in new
  BY <1>1 DEF IsRecency
<1>6. \A a, b, c \in T \cup {i} : <<a, b>> \in new /\ <<b, c>> \in new => <<a, c>> \in new
  <2>. SUFFICES ASSUME NEW a \in T \cup {i}, NEW b \in T \cup {i}, NEW c \in T \cup {i},
                       <<a, b>> \in new, <<b, c>> \in new
                PROVE  <<a, c>> \in new
    OBVIOUS
  <2>1. CASE a = i
    <3>1. b \in O /\ b # i /\ c # i
      BY <1>1, <2>1
    <3>2. <<b, c>> \in order /\ c \in T
      BY <1>1, <3>1
    <3>3. c \notin N
      BY <1>3, <3>1, <3>2
    <3>. QED
      BY <1>1, <2>1, <3>1, <3>2, <3>3
  <2>2. CASE b = i
    <3>1. a \in N /\ c \in O /\ a # i /\ c # i
      BY <1>1, <2>2
    <3>2. <<a, c>> \in order \/ <<c, a>> \in order
      BY <3>1 DEF IsRecency
    <3>. QED
      BY <1>1, <1>3, <3>1, <3>2
  <2>3. CASE c = i
    <3>1. b \in N /\ a # i
      BY <1>1, <1>4, <2>3
    <3>. QED
      BY <1>1, <1>3, <2>3, <3>1
  <2>4. CASE a # i /\ b # i /\ c # i
    BY <1>1, <2>4 DEF IsRecency
  <2>. QED
    BY <2>1, <2>2, <2>3, <2>4
<1>7. IsRecency(new, T \cup {i})
  BY <1>2, <1>4, <1>5, <1>6 DEF IsRecency
<1>8. \A a, b \in T \ {i} : <<a, b>> \in new <=> <<a, b>> \in order
  BY <1>1
<1>. QED
  BY <1>7, <1>8 DEF new

LEMMA WithoutInOrder ==
  ASSUME NEW T, NEW order, IsRecency(order, T), NEW i
  PROVE  /\ IsRecency(Without(order, i), T \ {i})
         /\ \A a, b \in T \ {i} : <<a, b>> \in Without(order, i) <=> <<a, b>> \in order
<1>. DEFINE new == Without(order, i)
<1>1. \A a, b \in T : <<a, b>> \in new <=> a # i /\ b # i /\ <<a, b>> \in order
  BY DEF Without
<1>2. new \subseteq (T \ {i}) \X (T \ {i})
  BY DEF Without, IsRecency
<1>. HIDE DEF new
<1>3. IsRecency(new, T \ {i})
  BY <1>1, <1>2 DEF IsRecency
<1>. QED
  BY <1>1, <1>3 DEF new

-----------------------------------------------------------------------------
(* Queries.                                                                *)

ListedBefore(o) == {i \in Listed : Place(Listed, newer, i) < o}

\* Unless the walk may miss an entry, what it passed it has returned.
NoGap(r) ==
  ~walk[r].gap =>
    /\ ListedBefore(walk[r].offset) \ walk[r].touched \subseteq walk[r].seen
    /\ asked[r].listing =>
         /\ ListedBefore(walk[r].offset + PageSize) \ walk[r].touched
              \subseteq walk[r].seen \cup asked[r].page
         /\ ~asked[r].more =>
              Listed \ walk[r].touched \subseteq walk[r].seen \cup asked[r].page

\* Unless the walk may repeat an entry, it has returned only what it passed.
NoOverlap(r) ==
  ~walk[r].overlap =>
    /\ Listed \cap walk[r].seen \subseteq ListedBefore(walk[r].offset)
    /\ asked[r].listing =>
         /\ (Listed \cap asked[r].page) \ walk[r].touched
              \subseteq ListedBefore(walk[r].offset + PageSize)
         /\ asked[r].page \cap walk[r].seen = {}

Reading(r) ==
  /\ asked[r].listing => asked[r].at \in {"found", "logged", "unlogged"}
  /\ asked[r].at = "logged" => \A i \in asked[r].page : i \in reads \/ rows[i] = "purged"
  /\ walk[r].offset = 0 => walk[r].seen = {}
  /\ NoGap(r)
  /\ NoOverlap(r)

QInv == QTypeOK /\ \A r \in Readers : Reading(r)

\* What the listing of a reachable state is cut from.
LEMMA ListingFacts ==
  ASSUME QTypeOK
  PROVE  /\ IsRecency(newer, Stored) /\ Listed \in SUBSET Stored /\ IsFiniteSet(Listed)
         /\ \A i \in Entries : Place(Listed, newer, i) \in Nat
         /\ ListedBefore(0) = {}
         /\ PageSize \in Nat /\ PageSize > 0
<1>1. Listed \in SUBSET Stored /\ Listed \in SUBSET Entries
  BY DEF Listed, Stored
<1>2. IsFiniteSet(Listed)
  BY <1>1, QueriesAssumption, FS_Subset
<1>3. \A i \in Entries : Place(Listed, newer, i) \in Nat
  BY <1>2, PlaceType
<1>4. ListedBefore(0) = {}
  BY <1>1, <1>3 DEF ListedBefore
<1>. QED
  BY <1>1, <1>2, <1>3, <1>4, QueriesAssumption DEF QTypeOK

\* The last page ends the listing.
LEMMA LastPage ==
  ASSUME QTypeOK, NEW o \in Nat, ~HasMore(o)
  PROVE  Listed \subseteq ListedBefore(o + PageSize)
<1>1. SUFFICES ASSUME NEW i \in Listed, i \notin ListedBefore(o + PageSize) PROVE FALSE
  OBVIOUS
<1>2. o + PageSize \in Nat /\ o <= o + PageSize /\ i \in Entries
  BY ListingFacts DEF Listed
<1>3. Place(Listed, newer, i) >= o + PageSize
  BY <1>1, <1>2, ListingFacts DEF ListedBefore
<1>4. PICK k \in Listed : Place(Listed, newer, k) = o + PageSize
  BY <1>2, <1>3, ListingFacts, PlacesContiguous
<1>5. k \in Page(Listed, newer, o, PageSize + 1) /\ k \notin Page(Listed, newer, o, PageSize)
  BY <1>2, <1>4, ListingFacts DEF Page
<1>. QED
  BY <1>5 DEF HasMore, Fetched

\* A step of another reader.
LEMMA SameReading ==
  ASSUME NEW q \in Readers, Reading(q), UNCHANGED table,
         asked'[q] = asked[q], walk'[q] = walk[q], reads \subseteq reads'
  PROVE  Reading(q)'
<1>1. /\ rows' = rows /\ newer' = newer /\ Listed' = Listed
      /\ \A o : ListedBefore(o)' = ListedBefore(o)
  BY DEF table, Listed, ListedBefore
<1>2. NoGap(q)'
  BY <1>1 DEF Reading, NoGap
<1>3. NoOverlap(q)'
  BY <1>1 DEF Reading, NoOverlap
<1>. QED
  BY <1>1, <1>2, <1>3 DEF Reading

\* A step of reader r leaves the others alone.
LEMMA ReaderStep ==
  ASSUME QInv, NEW r \in Readers, UNCHANGED table,
         reads \subseteq reads', reads' \subseteq Stored,
         NEW a \in Asked, asked' = [asked EXCEPT ![r] = a],
         NEW w \in Walk, (walk' = [walk EXCEPT ![r] = w] \/ (walk' = walk /\ w = walk[r])),
         Reading(r)'
  PROVE  QInv'
<1>1. asked \in [Readers -> Asked] /\ walk \in [Readers -> Walk]
  BY DEF QInv, QTypeOK
<1>2. /\ asked' \in [Readers -> Asked] /\ walk' \in [Readers -> Walk]
      /\ \A q \in Readers \ {r} : asked'[q] = asked[q] /\ walk'[q] = walk[q]
  BY <1>1
<1>3. Stored' = Stored /\ rows' = rows /\ newer' = newer
  BY DEF table, Stored
<1>4. QTypeOK'
  BY <1>2, <1>3 DEF QInv, QTypeOK
<1>5. \A q \in Readers : Reading(q)'
  BY <1>2, SameReading DEF QInv
<1>. QED
  BY <1>4, <1>5 DEF QInv

\* The page that follows what the walk has passed.
LEMMA PageFound ==
  ASSUME QInv, NEW r \in Readers, NEW w \in Walk,
         w.offset = walk[r].offset, w.seen = walk[r].seen, w.touched = walk[r].touched,
         (walk[r].gap => w.gap), (walk[r].overlap => w.overlap),
         (walk' = [walk EXCEPT ![r] = w] \/ (walk' = walk /\ w = walk[r])),
         NEW S \in SUBSET Listed,
         S = Fetched(walk[r].offset, PageSize) \/ (w.gap /\ w.overlap),
         Finds(r, S, TRUE, HasMore(walk[r].offset))
  PROVE  QInv'
<1>. DEFINE o == walk[r].offset
            a == [at |-> "found", page |-> S, listing |-> TRUE, more |-> HasMore(o)]
<1>1. /\ asked \in [Readers -> Asked] /\ walk \in [Readers -> Walk] /\ o \in Nat
      /\ walk'[r] = w
  BY DEF QInv, QTypeOK, Walk
<1>2. /\ asked' = [asked EXCEPT ![r] = a] /\ UNCHANGED table /\ reads' = reads
      /\ reads \subseteq Stored
  BY DEF Finds, QInv, QTypeOK
<1>3. a \in Asked
  <2>1. S \in SUBSET Entries /\ HasMore(o) \in BOOLEAN
    BY DEF Listed, HasMore
  <2>. QED
    BY <2>1 DEF Asked
<1>4. asked'[r] = a
  BY <1>1, <1>2
<1>5. Listed' = Listed /\ \A x : ListedBefore(x)' = ListedBefore(x)
  BY <1>2 DEF table, Listed, ListedBefore
<1>6. NoGap(r)'
  <2>. SUFFICES ASSUME ~w.gap
                PROVE  /\ ListedBefore(o) \ w.touched \subseteq w.seen
                       /\ ListedBefore(o + PageSize) \ w.touched \subseteq w.seen \cup S
                       /\ ~HasMore(o) => Listed \ w.touched \subseteq w.seen \cup S
    BY <1>1, <1>4, <1>5 DEF NoGap
  <2>1. ListedBefore(o) \ w.touched \subseteq w.seen
    BY DEF QInv, Reading, NoGap
  <2>2. ListedBefore(o + PageSize) \subseteq ListedBefore(o) \cup S
    <3>1. \A i \in Listed : Place(Listed, newer, i) \in Nat
      BY ListingFacts DEF QInv, Listed
    <3>. QED
      BY <1>1, <3>1 DEF Fetched, Page, ListedBefore
  <2>3. ~HasMore(o) => Listed \subseteq ListedBefore(o + PageSize)
    BY <1>1, LastPage DEF QInv
  <2>. QED
    BY <2>1, <2>2, <2>3
<1>7. NoOverlap(r)'
  <2>. SUFFICES ASSUME ~w.overlap
                PROVE  /\ Listed \cap w.seen \subseteq ListedBefore(o)
                       /\ S \subseteq ListedBefore(o + PageSize)
                       /\ S \cap w.seen = {}
    BY <1>1, <1>4, <1>5 DEF NoOverlap
  <2>1. Listed \cap w.seen \subseteq ListedBefore(o)
    BY DEF QInv, Reading, NoOverlap
  <2>2. S \subseteq ListedBefore(o + PageSize)
    BY DEF Fetched, Page, ListedBefore
  <2>3. S \cap ListedBefore(o) = {}
    <3>1. \A i \in Listed : Place(Listed, newer, i) \in Nat
      BY ListingFacts DEF QInv, Listed
    <3>. QED
      BY <1>1, <3>1 DEF Fetched, Page, ListedBefore
  <2>. QED
    BY <2>1, <2>2, <2>3
<1>8. Reading(r)'
  BY <1>1, <1>4, <1>6, <1>7 DEF QInv, Reading
<1>. HIDE DEF a
<1>. QED
  BY <1>2, <1>3, <1>8, ReaderStep

LEMMA GetPageStep ==
  ASSUME QInv, NEW r \in Readers, GetPage(r) \/ GetRankedPage(r)
  PROVE  QInv'
<1>. DEFINE o == walk[r].offset
<1>1. walk \in [Readers -> Walk] /\ walk[r] \in Walk
  BY DEF QInv, QTypeOK
<1>2. Fetched(o, PageSize) \in SUBSET Listed /\ Fetched(o, PageSize + 1) \in SUBSET Listed
  BY DEF Fetched, Page
<1>3. CASE GetPage(r)
  BY <1>1, <1>2, <1>3, PageFound DEF GetPage
<1>4. CASE GetRankedPage(r)
  <2>. DEFINE w == [walk[r] EXCEPT !.gap = @ \/ HasMore(o), !.overlap = @ \/ HasMore(o)]
  <2>1. PICK S \in SUBSET Fetched(o, PageSize + 1) :
          /\ HasMore(o) \/ S = Fetched(o, PageSize)
          /\ Finds(r, S, TRUE, HasMore(o))
    BY <1>4 DEF GetRankedPage
  <2>2. walk' = [walk EXCEPT ![r] = w]
    BY <1>1, <1>4 DEF GetRankedPage, Walk
  <2>3. /\ w \in Walk /\ w.offset = o /\ w.seen = walk[r].seen
        /\ w.touched = walk[r].touched
        /\ walk[r].gap => w.gap
        /\ walk[r].overlap => w.overlap
        /\ HasMore(o) => (w.gap /\ w.overlap)
    <3>1. HasMore(o) \in BOOLEAN
      BY DEF HasMore
    <3>. QED
      BY <1>1, <3>1 DEF Walk
  <2>4. S \in SUBSET Listed
    BY <1>2, <2>1
  <2>. HIDE DEF w
  <2>. QED
    BY <2>1, <2>2, <2>3, <2>4, PageFound
<1>. QED
  BY <1>3, <1>4

\* Steps after which the reader has no listing under way.
LEMMA NoListingStep ==
  ASSUME QInv, NEW r \in Readers, UNCHANGED <<table, reads>>,
         NEW a \in Asked, ~a.listing, a.at # "logged", asked' = [asked EXCEPT ![r] = a],
         (walk' = [walk EXCEPT ![r] = NewWalk] \/ walk' = walk)
  PROVE  QInv'
<1>. DEFINE w == walk'[r]
<1>1. /\ asked \in [Readers -> Asked] /\ walk \in [Readers -> Walk]
      /\ reads \subseteq Stored
  BY DEF QInv, QTypeOK
<1>2. asked'[r] = a /\ w \in Walk /\ (w = NewWalk \/ w = walk[r])
  <2>1. NewWalk \in Walk
    BY DEF NewWalk, Walk
  <2>. QED
    BY <1>1, <2>1
<1>3. Listed' = Listed /\ \A x : ListedBefore(x)' = ListedBefore(x)
  BY DEF table, Listed, ListedBefore
<1>4. NoGap(r)' /\ NoOverlap(r)' /\ (w.offset = 0 => w.seen = {})
  <2>1. CASE w = NewWalk
    BY <1>2, <1>3, <2>1, ListingFacts DEF QInv, NewWalk, NoGap, NoOverlap
  <2>2. CASE w = walk[r]
    BY <1>2, <1>3, <2>2 DEF QInv, Reading, NoGap, NoOverlap
  <2>. QED
    BY <1>2, <2>1, <2>2
<1>5. Reading(r)'
  BY <1>2, <1>4 DEF Reading
<1>6. walk' = [walk EXCEPT ![r] = w] \/ (walk' = walk /\ w = walk[r])
  BY <1>1, <1>2
<1>. HIDE DEF w
<1>. QED
  BY <1>1, <1>2, <1>5, <1>6, ReaderStep

LEMMA QuietSteps ==
  ASSUME QInv, NEW r \in Readers,
         StopWalk(r) \/ Search(r) \/ GetRelated(r) \/ GetReferencing(r) \/ NoAnswer(r)
  PROVE  QInv'
<1>1. /\ asked \in [Readers -> Asked] /\ asked[r] \in Asked /\ NoCall \in Asked
      /\ ~NoCall.listing /\ NoCall.at # "logged"
  BY DEF QInv, QTypeOK, NoCall, Asked
<1>2. CASE StopWalk(r)
  <2>1. asked[r].at = "idle" /\ ~asked[r].listing
    BY <1>2 DEF StopWalk, Waits, QInv, Reading
  <2>2. asked' = [asked EXCEPT ![r] = asked[r]]
    BY <1>1, <1>2 DEF StopWalk
  <2>. QED
    BY <1>1, <1>2, <2>1, <2>2, NoListingStep DEF StopWalk
<1>3. CASE Search(r)
  <2>1. PICK S \in SUBSET Listed : Finds(r, S, FALSE, FALSE)
    BY <1>3 DEF Search
  <2>. DEFINE a == [at |-> "found", page |-> S, listing |-> FALSE, more |-> FALSE]
  <2>2. a \in Asked /\ ~a.listing /\ a.at # "logged"
    BY DEF Asked, Listed
  <2>3. asked' = [asked EXCEPT ![r] = a] /\ UNCHANGED <<table, reads>>
    BY <2>1 DEF Finds
  <2>. HIDE DEF a
  <2>. QED
    BY <1>3, <2>2, <2>3, NoListingStep DEF Search
<1>4. CASE GetRelated(r)
  <2>1. PICK S \in SUBSET Listed :
          asked' = [asked EXCEPT ![r] = [NoCall EXCEPT !.at = "related", !.page = S]]
    BY <1>4 DEF GetRelated
  <2>. DEFINE a == [NoCall EXCEPT !.at = "related", !.page = S]
  <2>2. a \in Asked /\ ~a.listing /\ a.at # "logged"
    BY DEF Asked, Listed, NoCall
  <2>. HIDE DEF a
  <2>. QED
    BY <1>4, <2>1, <2>2, NoListingStep DEF GetRelated, a
<1>5. CASE GetReferencing(r)
  <2>1. PICK S \in SUBSET Listed :
          asked' = [asked EXCEPT ![r].at = "found", ![r].page = @ \cup S]
    BY <1>5 DEF GetReferencing
  <2>. DEFINE a == [asked[r] EXCEPT !.at = "found", !.page = @ \cup S]
  <2>2. asked[r].at = "related" /\ ~asked[r].listing
    BY <1>5 DEF GetReferencing, QInv, Reading
  <2>3. a \in Asked /\ ~a.listing /\ a.at # "logged"
    <3>1. asked[r].page \cup S \in SUBSET Entries
      BY <1>1 DEF Asked, Listed
    <3>. QED
      BY <1>1, <2>2, <3>1 DEF Asked
  <2>4. asked' = [asked EXCEPT ![r] = a]
    BY <1>1, <2>1 DEF Asked
  <2>. HIDE DEF a
  <2>. QED
    BY <1>5, <2>3, <2>4, NoListingStep DEF GetReferencing
<1>6. CASE NoAnswer(r)
  BY <1>1, <1>6, NoListingStep DEF NoAnswer
<1>. QED
  BY <1>2, <1>3, <1>4, <1>5, <1>6

LEMMA LogReadsStep ==
  ASSUME QInv, NEW r \in Readers, LogReads(r)
  PROVE  QInv'
<1>1. /\ asked \in [Readers -> Asked] /\ walk \in [Readers -> Walk]
      /\ asked[r] \in Asked /\ walk[r] \in Walk /\ reads \subseteq Stored
      /\ Reading(r) /\ asked[r].at = "found" /\ UNCHANGED table /\ walk' = walk
  BY DEF QInv, QTypeOK, LogReads
<1>2. PICK at \in {"logged", "unlogged"} :
        /\ asked' = [asked EXCEPT ![r].at = at]
        /\ \/ at = "logged" /\ asked[r].page \subseteq Stored
              /\ reads' = reads \cup asked[r].page
           \/ at = "unlogged" /\ reads' = reads
  BY DEF LogReads
<1>. DEFINE a == [asked[r] EXCEPT !.at = at]
<1>3. /\ a \in Asked /\ a.at = at /\ a.page = asked[r].page
      /\ a.listing = asked[r].listing /\ a.more = asked[r].more
  BY <1>1 DEF Asked
<1>4. asked' = [asked EXCEPT ![r] = a] /\ asked'[r] = a
  BY <1>1, <1>2
<1>. HIDE DEF a
<1>5. Listed' = Listed /\ \A x : ListedBefore(x)' = ListedBefore(x)
  BY <1>1 DEF table, Listed, ListedBefore
<1>6. NoGap(r)'
  BY <1>1, <1>3, <1>4, <1>5 DEF Reading, NoGap
<1>7. NoOverlap(r)'
  BY <1>1, <1>3, <1>4, <1>5 DEF Reading, NoOverlap
<1>8. Reading(r)'
  BY <1>1, <1>2, <1>3, <1>4, <1>6, <1>7 DEF Reading
<1>. QED
  BY <1>1, <1>2, <1>3, <1>4, <1>8, ReaderStep

LEMMA ReturnStep ==
  ASSUME QInv, NEW r \in Readers, Return(r)
  PROVE  QInv'
<1>1. /\ asked \in [Readers -> Asked] /\ walk \in [Readers -> Walk]
      /\ asked[r] \in Asked /\ walk[r] \in Walk /\ reads \subseteq Stored
      /\ Reading(r) /\ UNCHANGED <<table, reads>>
      /\ asked' = [asked EXCEPT ![r] = NoCall]
  BY DEF QInv, QTypeOK, Return
<1>2. NoCall \in Asked /\ ~NoCall.listing /\ NoCall.at # "logged"
  BY DEF NoCall, Asked
<1>3. CASE ~(asked[r].listing /\ asked[r].more)
  <2>1. walk' = [walk EXCEPT ![r] = NewWalk] \/ walk' = walk
    BY <1>3 DEF Return
  <2>. QED
    BY <1>1, <1>2, <2>1, NoListingStep
<1>4. CASE asked[r].listing /\ asked[r].more
  <2>. DEFINE o == walk[r].offset
              passed == walk[r].seen \cup (asked[r].page \ walk[r].touched)
              w == [walk[r] EXCEPT !.offset = @ + PageSize, !.seen = passed]
  <2>1. o \in Nat /\ o + PageSize \in Nat /\ o + PageSize > 0
    BY <1>1, QueriesAssumption DEF Walk
  <2>2. /\ w \in Walk /\ w.offset = o + PageSize /\ w.seen = passed
        /\ w.touched = walk[r].touched /\ w.gap = walk[r].gap /\ w.overlap = walk[r].overlap
    <3>1. passed \in SUBSET Entries
      BY <1>1 DEF Walk, Asked
    <3>. QED
      BY <1>1, <2>1, <3>1 DEF Walk
  <2>3. walk' = [walk EXCEPT ![r] = w] /\ walk'[r] = w /\ asked'[r] = NoCall
    BY <1>1, <1>4 DEF Return, Walk
  <2>. HIDE DEF w
  <2>4. Listed' = Listed /\ \A x : ListedBefore(x)' = ListedBefore(x)
    BY <1>1 DEF table, Listed, ListedBefore
  <2>5. ListedBefore(o) \subseteq ListedBefore(o + PageSize)
    <3>1. \A i \in Listed : Place(Listed, newer, i) \in Nat
      BY ListingFacts DEF QInv, Listed
    <3>. QED
      BY <2>1, <3>1, QueriesAssumption DEF ListedBefore
  <2>6. NoGap(r)'
    <3>. SUFFICES ASSUME ~walk[r].gap
                  PROVE  ListedBefore(o + PageSize) \ walk[r].touched \subseteq passed
      BY <1>2, <2>2, <2>3, <2>4 DEF NoGap
    <3>. QED
      BY <1>1, <1>4 DEF Reading, NoGap
  <2>7. NoOverlap(r)'
    <3>. SUFFICES ASSUME ~walk[r].overlap
                  PROVE  Listed \cap passed \subseteq ListedBefore(o + PageSize)
      BY <1>2, <2>2, <2>3, <2>4 DEF NoOverlap
    <3>. QED
      BY <1>1, <1>4, <2>5 DEF Reading, NoOverlap
  <2>8. Reading(r)'
    BY <1>2, <2>1, <2>2, <2>3, <2>6, <2>7 DEF Reading
  <2>. QED
    BY <1>1, <1>2, <2>2, <2>3, <2>8, ReaderStep
<1>. QED
  BY <1>3, <1>4

\* Row j is put somewhere else: the others move by at most one place, and past
\* the edge of a page only if j passes it the other way.
LEMMA EdgeMoves ==
  ASSUME QTypeOK, QTypeOK', NEW j \in Entries, Listed \ {j} = Listed' \ {j},
         \A a, b \in Listed \ {j} : <<a, b>> \in newer <=> <<a, b>> \in newer',
         NEW o \in Nat
  PROVE  /\ ~(Passed(Listed, newer, j, o) /\ ~Passed(Listed', newer', j, o))
              => ListedBefore(o)' \ {j} \subseteq ListedBefore(o)
         /\ ~(~Passed(Listed, newer, j, o) /\ Passed(Listed', newer', j, o))
              => ListedBefore(o) \ {j} \subseteq ListedBefore(o)'
<1>1. /\ IsRecency(newer, Stored) /\ Listed \in SUBSET Stored /\ IsFiniteSet(Listed)
      /\ \A i \in Entries : Place(Listed, newer, i) \in Nat
  BY ListingFacts
<1>2. /\ IsRecency(newer', Stored') /\ Listed' \in SUBSET Stored' /\ IsFiniteSet(Listed')
      /\ \A i \in Entries : Place(Listed', newer', i) \in Nat
  <2>1. Listed' \in SUBSET Stored' /\ Listed' \in SUBSET Entries
    BY DEF Listed, Stored
  <2>2. IsFiniteSet(Listed')
    BY <2>1, QueriesAssumption, FS_Subset
  <2>3. \A i \in Entries : Place(Listed', newer', i) \in Nat
    BY <2>2, PlaceType
  <2>. QED
    BY <2>1, <2>2, <2>3 DEF QTypeOK
<1>3. Listed \subseteq Entries /\ Listed' \subseteq Entries
  BY DEF Listed
<1>4. ASSUME NEW i \in ListedBefore(o)' \ {j}, i \notin ListedBefore(o)
      PROVE  Passed(Listed, newer, j, o) /\ ~Passed(Listed', newer', j, o)
  <2>1. i \in Listed \ {j} /\ Place(Listed', newer', i) < o /\ Place(Listed, newer, i) >= o
    BY <1>1, <1>3, <1>4 DEF ListedBefore
  <2>. QED
    BY <1>1, <1>2, <2>1, OneMoves
<1>5. ASSUME NEW i \in ListedBefore(o) \ {j}, i \notin ListedBefore(o)'
      PROVE  ~Passed(Listed, newer, j, o) /\ Passed(Listed', newer', j, o)
  <2>1. i \in Listed' \ {j} /\ Place(Listed, newer, i) < o /\ Place(Listed', newer', i) >= o
    BY <1>2, <1>3, <1>5 DEF ListedBefore
  <2>2. \A a, b \in Listed' \ {j} : <<a, b>> \in newer' <=> <<a, b>> \in newer
    OBVIOUS
  <2>. QED
    BY <1>1, <1>2, <2>1, <2>2, OneMoves
<1>. QED
  BY <1>4, <1>5

\* A write to row j.
LEMMA PutRowStep ==
  ASSUME QInv, NEW j \in Entries, NEW to \in RowStates, NEW order,
         PutRow(j, to, order), asked' = asked, rows[j] # "purged",
         IsRecency(order, Stored'),
         \A a, b \in Listed \ {j} : <<a, b>> \in newer <=> <<a, b>> \in order,
         reads \ {j} \subseteq reads', reads' \subseteq Stored',
         reads \subseteq reads' \/ to = "purged"
  PROVE  QInv'
<1>. DEFINE is == IF to = "active" THEN Listed \cup {j} ELSE Listed \ {j}
            lost(o) == Passed(Listed, newer, j, o) /\ ~Passed(is, order, j, o)
            gained(o) == ~Passed(Listed, newer, j, o) /\ Passed(is, order, j, o)
            moved(r) == [walk[r] EXCEPT !.touched = @ \cup {j}, !.seen = @ \ {j},
                                        !.gap = @ \/ \E o \in Edges(r) : lost(o),
                                        !.overlap = @ \/ \E o \in Edges(r) : gained(o)]
<1>1. /\ rows \in [Entries -> RowStates] /\ asked \in [Readers -> Asked]
      /\ walk \in [Readers -> Walk]
  BY DEF QInv, QTypeOK
<1>2. /\ rows' = [rows EXCEPT ![j] = to] /\ newer' = order
      /\ walk' = [r \in Readers |-> IF ~Walking(r) THEN walk[r] ELSE moved(r)]
  BY DEF PutRow
<1>3. Listed' = is /\ Listed \ {j} = Listed' \ {j}
  BY <1>1, <1>2 DEF Listed
<1>. HIDE DEF is
<1>4. \A r \in Readers :
        /\ moved(r) \in Walk
        /\ moved(r).offset = walk[r].offset
        /\ moved(r).touched = walk[r].touched \cup {j}
        /\ moved(r).seen = walk[r].seen \ {j}
        /\ ~moved(r).gap => (~walk[r].gap /\ \A o \in Edges(r) : ~lost(o))
        /\ ~moved(r).overlap => (~walk[r].overlap /\ \A o \in Edges(r) : ~gained(o))
  <2>. SUFFICES ASSUME NEW r \in Readers
                PROVE  /\ moved(r) \in Walk
                       /\ moved(r).offset = walk[r].offset
                       /\ moved(r).touched = walk[r].touched \cup {j}
                       /\ moved(r).seen = walk[r].seen \ {j}
                       /\ ~moved(r).gap => (~walk[r].gap /\ \A o \in Edges(r) : ~lost(o))
                       /\ ~moved(r).overlap
                            => (~walk[r].overlap /\ \A o \in Edges(r) : ~gained(o))
    OBVIOUS
  <2>. DEFINE g == \E o \in Edges(r) : lost(o)
              h == \E o \in Edges(r) : gained(o)
  <2>1. g \in BOOLEAN /\ h \in BOOLEAN
    OBVIOUS
  <2>2. walk[r] \in Walk
    BY <1>1
  <2>3. (~g => \A o \in Edges(r) : ~lost(o)) /\ (~h => \A o \in Edges(r) : ~gained(o))
    OBVIOUS
  <2>. HIDE DEF lost, gained, g, h
  <2>. QED
    BY <2>1, <2>2, <2>3 DEF Walk, g, h
<1>. HIDE DEF moved
<1>5. walk' \in [Readers -> Walk]
  BY <1>1, <1>2, <1>4
<1>6. QTypeOK'
  BY <1>1, <1>2, <1>5 DEF QTypeOK
<1>7. QTypeOK
  BY DEF QInv
<1>8. ASSUME NEW o \in Nat
      PROVE  /\ ~lost(o) => ListedBefore(o)' \ {j} \subseteq ListedBefore(o)
             /\ ~gained(o) => ListedBefore(o) \ {j} \subseteq ListedBefore(o)'
  BY <1>2, <1>3, <1>6, <1>7, EdgeMoves
<1>9. ListedBefore(0)' = {}
  <2>1. IsFiniteSet(Listed')
    <3>1. Listed' \subseteq Entries
      BY DEF Listed
    <3>. QED
      BY <3>1, QueriesAssumption, FS_Subset
  <2>2. \A i \in Listed' : Place(Listed', newer', i) \in Nat
    BY <2>1, PlaceType
  <2>. QED
    BY <2>2 DEF ListedBefore
<1>. HIDE DEF lost, gained
<1>10. ASSUME NEW r \in Readers
       PROVE  Reading(r)'
  <2>0. PICK o \in Nat : o = walk[r].offset
    BY <1>1 DEF Walk
  <2>1. Reading(r) /\ asked'[r] = asked[r] /\ o + PageSize \in Nat
    BY <1>1, QueriesAssumption DEF QInv
  <2>2. asked[r].at = "logged" =>
          \A i \in asked[r].page : i \in reads' \/ rows'[i] = "purged"
    <3>. SUFFICES ASSUME asked[r].at = "logged", NEW i \in asked[r].page,
                         i \notin reads'
                  PROVE  rows'[i] = "purged"
      OBVIOUS
    <3>1. i \in reads \/ rows[i] = "purged"
      BY <2>1 DEF Reading
    <3>. QED
      BY <1>1, <1>2, <3>1
  <2>3. CASE ~Walking(r)
    <3>1. walk'[r] = walk[r] /\ o = 0 /\ ~asked[r].listing /\ walk[r].seen = {}
      BY <1>2, <2>0, <2>1, <2>3 DEF Walking, Reading
    <3>2. NoGap(r)' /\ NoOverlap(r)'
      BY <1>9, <2>0, <2>1, <3>1 DEF NoGap, NoOverlap
    <3>. QED
      BY <2>1, <2>2, <3>1, <3>2 DEF Reading
  <2>4. CASE Walking(r)
    <3>1. walk'[r] = moved(r)
      BY <1>2, <2>4
    <3>3. NoGap(r)'
      <4>. SUFFICES ASSUME ~moved(r).gap
                    PROVE  NoGap(r)'
        BY <3>1 DEF NoGap
      <4>1. ListedBefore(o)' \ {j} \subseteq ListedBefore(o)
        BY <1>4, <1>8, <2>0, <2>1 DEF Edges
      <4>2. asked[r].listing =>
              ListedBefore(o + PageSize)' \ {j} \subseteq ListedBefore(o + PageSize)
        BY <1>4, <1>8, <2>0, <2>1 DEF Edges
      <4>. QED
        BY <1>3, <1>4, <2>0, <2>1, <3>1, <4>1, <4>2 DEF Reading, NoGap
    <3>4. NoOverlap(r)'
      <4>. SUFFICES ASSUME ~moved(r).overlap
                    PROVE  NoOverlap(r)'
        BY <3>1 DEF NoOverlap
      <4>1. ListedBefore(o) \ {j} \subseteq ListedBefore(o)'
        BY <1>4, <1>8, <2>0, <2>1 DEF Edges
      <4>2. asked[r].listing =>
              ListedBefore(o + PageSize) \ {j} \subseteq ListedBefore(o + PageSize)'
        BY <1>4, <1>8, <2>0, <2>1 DEF Edges
      <4>. QED
        BY <1>3, <1>4, <2>0, <2>1, <3>1, <4>1, <4>2 DEF Reading, NoOverlap
    <3>. QED
      BY <1>4, <2>1, <2>2, <3>1, <3>3, <3>4 DEF Reading
  <2>. QED
    BY <2>3, <2>4
<1>. QED
  BY <1>6, <1>10 DEF QInv

LEMMA WriteRowStep ==
  ASSUME QInv, NEW i \in Entries, NEW N \in SUBSET Entries, WriteRow(i, N)
  PROVE  QInv'
<1>. DEFINE to == IF i \in Stored THEN rows[i] ELSE "active"
            order == Placed(newer, i, N, Stored \ (N \cup {i}))
<1>1. /\ rows \in [Entries -> RowStates] /\ IsRecency(newer, Stored) /\ reads \subseteq Stored
  BY DEF QInv, QTypeOK
<1>2. /\ rows[i] # "purged" /\ N \in SUBSET (Stored \ {i})
      /\ \A j \in N : Before(Stored, newer, j) \subseteq N \cup {i}
      /\ PutRow(i, to, order) /\ reads' = reads /\ asked' = asked
  BY DEF WriteRow
<1>3. to \in RowStates /\ to \in {"active", "trash"}
  BY <1>1 DEF RowStates, Stored
<1>4. Stored' = Stored \cup {i}
  <2>1. rows' = [rows EXCEPT ![i] = to]
    BY <1>2 DEF PutRow
  <2>. QED
    BY <1>1, <1>3, <2>1 DEF Stored
<1>5. IsRecency(order, Stored')
  BY <1>1, <1>2, <1>4, PlacedInOrder
<1>6. \A a, b \in Listed \ {i} : <<a, b>> \in newer <=> <<a, b>> \in order
  <2>1. Listed \subseteq Stored
    BY DEF Listed, Stored
  <2>2. \A a, b \in Stored \ {i} : <<a, b>> \in order <=> <<a, b>> \in newer
    BY <1>1, <1>2, PlacedInOrder
  <2>. QED
    BY <2>1, <2>2
<1>. HIDE DEF to, order
<1>. QED
  BY <1>1, <1>2, <1>3, <1>4, <1>5, <1>6, PutRowStep

LEMMA TrashSteps ==
  ASSUME QInv, NEW i \in Entries, MoveToTrash(i) \/ TakeFromTrash(i)
  PROVE  QInv'
<1>1. /\ rows \in [Entries -> RowStates] /\ IsRecency(newer, Stored) /\ reads \subseteq Stored
  BY DEF QInv, QTypeOK
<1>2. PICK to \in {"active", "trash"} :
        /\ rows[i] \in {"active", "trash"}
        /\ PutRow(i, to, newer) /\ reads' = reads /\ asked' = asked
  BY DEF MoveToTrash, TakeFromTrash
<1>3. to \in RowStates
  BY DEF RowStates
<1>4. Stored' = Stored
  <2>1. rows' = [rows EXCEPT ![i] = to]
    BY <1>2 DEF PutRow
  <2>. QED
    BY <1>1, <1>2, <2>1 DEF Stored
<1>. QED
  BY <1>1, <1>2, <1>3, <1>4, PutRowStep

LEMMA PurgeRowStep ==
  ASSUME QInv, NEW i \in Entries, PurgeRow(i)
  PROVE  QInv'
<1>. DEFINE order == Without(newer, i)
<1>1. /\ rows \in [Entries -> RowStates] /\ IsRecency(newer, Stored) /\ reads \subseteq Stored
  BY DEF QInv, QTypeOK
<1>2. /\ rows[i] # "purged" /\ PutRow(i, "purged", order)
      /\ reads' = reads \ {i} /\ asked' = asked
  BY DEF PurgeRow, Stored
<1>3. "purged" \in RowStates
  BY DEF RowStates
<1>4. Stored' = Stored \ {i}
  <2>1. rows' = [rows EXCEPT ![i] = "purged"]
    BY <1>2 DEF PutRow
  <2>. QED
    BY <1>1, <2>1 DEF Stored
<1>5. IsRecency(order, Stored')
  BY <1>1, <1>4, WithoutInOrder
<1>6. \A a, b \in Listed \ {i} : <<a, b>> \in newer <=> <<a, b>> \in order
  <2>1. Listed \subseteq Stored
    BY DEF Listed, Stored
  <2>2. \A a, b \in Stored \ {i} : <<a, b>> \in order <=> <<a, b>> \in newer
    BY <1>1, WithoutInOrder
  <2>. QED
    BY <2>1, <2>2
<1>. HIDE DEF order
<1>. QED
  BY <1>1, <1>2, <1>3, <1>4, <1>5, <1>6, PutRowStep

LEMMA QueriesInit == QInit => QInv
<1>. SUFFICES ASSUME QInit PROVE QInv
  OBVIOUS
<1>1. Stored = {} /\ Listed = {}
  BY DEF QInit, Stored, Listed
<1>2. NoCall \in Asked /\ NewWalk \in Walk
  BY DEF NoCall, Asked, NewWalk, Walk
<1>3. QTypeOK
  BY <1>1, <1>2 DEF QInit, QTypeOK, RowStates, IsRecency
<1>4. \A o : ListedBefore(o) = {}
  BY <1>1 DEF ListedBefore
<1>5. ASSUME NEW r \in Readers PROVE Reading(r)
  BY <1>1, <1>4 DEF QInit, NoCall, NewWalk, Reading, NoGap, NoOverlap
<1>. QED
  BY <1>3, <1>5 DEF QInv

LEMMA QueriesStep == QInv /\ [QNext]_qvars => QInv'
<1>. SUFFICES ASSUME QInv, [QNext]_qvars PROVE QInv'
  OBVIOUS
<1>1. CASE UNCHANGED qvars
  <2>1. /\ rows' = rows /\ newer' = newer /\ reads' = reads /\ asked' = asked /\ walk' = walk
        /\ Stored' = Stored /\ QTypeOK'
    BY <1>1 DEF qvars, Stored, QInv, QTypeOK
  <2>2. \A r \in Readers : Reading(r)'
    BY <2>1, SameReading DEF QInv, table
  <2>. QED
    BY <2>1, <2>2 DEF QInv
<1>2. ASSUME NEW r \in Readers, GetPage(r) \/ GetRankedPage(r) PROVE QInv'
  BY <1>2, GetPageStep
<1>3. ASSUME NEW r \in Readers,
             StopWalk(r) \/ Search(r) \/ GetRelated(r) \/ GetReferencing(r) \/ NoAnswer(r)
      PROVE  QInv'
  BY <1>3, QuietSteps
<1>4. ASSUME NEW r \in Readers, LogReads(r) PROVE QInv'
  BY <1>4, LogReadsStep
<1>5. ASSUME NEW r \in Readers, Return(r) PROVE QInv'
  BY <1>5, ReturnStep
<1>6. ASSUME NEW i \in Entries, NEW N \in SUBSET Entries, WriteRow(i, N) PROVE QInv'
  BY <1>6, WriteRowStep
<1>7. ASSUME NEW i \in Entries, MoveToTrash(i) \/ TakeFromTrash(i) PROVE QInv'
  BY <1>7, TrashSteps
<1>8. ASSUME NEW i \in Entries, PurgeRow(i) PROVE QInv'
  BY <1>8, PurgeRowStep
<1>. QED
  BY <1>1, <1>2, <1>3, <1>4, <1>5, <1>6, <1>7, <1>8 DEF QNext

LEMMA QueriesInvariant == QSpec => []QInv
BY QueriesInit, QueriesStep, PTL DEF QSpec

\* The variables keep their types, the stored rows one order, and only stored
\* entries have reads logged (ON DELETE CASCADE and the foreign key of reads).
THEOREM QueriesTypeCorrect == QSpec => []QTypeOK
<1>1. QInv => QTypeOK
  BY DEF QInv
<1>. QED
  BY <1>1, QueriesInvariant, PTL

\* A walk over the pages of get_knowledge or get_alerts that ran to its end
\* missed no entry that was listed all along and not written, unless one left
\* the pages already read or a hint reordered a page that was not the last.
THEOREM WalksComplete == QSpec => []WalkMissesNothing
<1>1. QInv => WalkMissesNothing
  BY DEF QInv, Reading, NoGap, WalkMissesNothing
<1>. QED
  BY <1>1, QueriesInvariant, PTL

\* ... and repeated none, unless one came into the pages already read, or ...
THEOREM WalksRepeatNothing == QSpec => []WalkRepeatsNothing
<1>1. QInv => WalkRepeatsNothing
  BY DEF QInv, Reading, NoOverlap, WalkRepeatsNothing
<1>. QED
  BY <1>1, QueriesInvariant, PTL

\* Once log_read has committed, get_unread does not report what the call is
\* about to return.
THEOREM ReadsLogged == QSpec => []ReadsTrackReturned
<1>1. QInv => ReadsTrackReturned
  BY DEF QInv, Reading, ReadsTrackReturned, Unread, Listed
<1>. QED
  BY <1>1, QueriesInvariant, PTL

-----------------------------------------------------------------------------
(* Embeddings.                                                             *)

\* What a server holds: it is lost if the server stops.
Held(s) == Elements(queue[s]) \cup running[s] \cup call[s].todo

\* The current text of an entry is on its way, or it is stored and nothing older
\* can overwrite it.
TrackedEntry(i) ==
  JobOf(i) \in UnderWay(i) \/ (emb[i] = text[i] /\ UnderWay(i) \subseteq {JobOf(i)})

Tracked == \A i \in Ids \ Silent : Exists(i) => i \in excused \/ TrackedEntry(i)

ServerInv(s) ==
  /\ IsFiniteSet(running[s]) /\ Cardinality(running[s]) <= PoolSize
  /\ Held(s) \subseteq Job
  /\ \A job \in Held(s) : job.text <= text[job.id]

EInv ==
  /\ TypeOK
  /\ \A i \in Ids : Exists(i) => text[i] >= 1
  /\ \A s \in Servers : ServerInv(s)
  /\ Tracked

\* What is under way is what the servers hold.
LEMMA UnderWayIsHeld ==
  ASSUME NEW i, NEW job
  PROVE  job \in UnderWay(i) <=> job.id = i /\ \E s \in Servers : job \in Held(s)
<1>1. job \in UNION {Elements(queue[s]) \cup running[s] \cup call[s].todo : s \in Servers}
        <=> \E s \in Servers : job \in Held(s)
  BY DEF Held
<1>. QED
  BY <1>1 DEF UnderWay

LEMMA QueueOps ==
  ASSUME NEW q \in Seq(Job)
  PROVE  /\ \A job \in Job : /\ Append(q, job) \in Seq(Job)
                             /\ Elements(Append(q, job)) = Elements(q) \cup {job}
         /\ q # <<>> => /\ Head(q) \in Job /\ Tail(q) \in Seq(Job)
                        /\ Elements(q) = Elements(Tail(q)) \cup {Head(q)}
         /\ Elements(q) \subseteq Job
         /\ <<>> \in Seq(Job) /\ Elements(<<>>) = {}
<1>1. ASSUME NEW job \in Job
      PROVE  /\ Append(q, job) \in Seq(Job)
             /\ Elements(Append(q, job)) = Elements(q) \cup {job}
  <2>. DEFINE a == Append(q, job)
  <2>1. /\ a \in Seq(Job) /\ DOMAIN a = 1..(Len(q) + 1) /\ DOMAIN q = 1..Len(q) /\ Len(q) \in Nat
        /\ a[Len(q) + 1] = job /\ \A n \in 1..Len(q) : a[n] = q[n]
    OBVIOUS
  <2>. HIDE DEF a
  <2>2. Elements(a) \subseteq Elements(q) \cup {job}
    <3>. SUFFICES ASSUME NEW n \in 1..(Len(q) + 1) PROVE a[n] \in Elements(q) \cup {job}
      BY <2>1 DEF Elements
    <3>1. n \in 1..Len(q) \/ n = Len(q) + 1
      BY <2>1
    <3>. QED
      BY <2>1, <3>1 DEF Elements
  <2>3. Elements(q) \cup {job} \subseteq Elements(a)
    <3>1. \A n \in 1..Len(q) : n \in 1..(Len(q) + 1)
      BY <2>1
    <3>2. Len(q) + 1 \in 1..(Len(q) + 1)
      BY <2>1
    <3>. QED
      BY <2>1, <3>1, <3>2 DEF Elements
  <2>. QED
    BY <2>1, <2>2, <2>3 DEF a
<1>2. ASSUME q # <<>>
      PROVE  /\ Head(q) \in Job /\ Tail(q) \in Seq(Job)
             /\ Elements(q) = Elements(Tail(q)) \cup {Head(q)}
  <2>. DEFINE t == Tail(q)
  <2>1. /\ t \in Seq(Job) /\ Head(q) \in Job /\ Head(q) = q[1] /\ Len(q) \in Nat /\ Len(q) >= 1
        /\ DOMAIN q = 1..Len(q) /\ DOMAIN t = 1..(Len(q) - 1)
        /\ \A n \in 1..(Len(q) - 1) : t[n] = q[n + 1]
    BY <1>2
  <2>. HIDE DEF t
  <2>2. Elements(q) \subseteq Elements(t) \cup {Head(q)}
    <3>. SUFFICES ASSUME NEW n \in 1..Len(q) PROVE q[n] \in Elements(t) \cup {Head(q)}
      BY <2>1 DEF Elements
    <3>1. CASE n = 1
      BY <2>1, <3>1
    <3>2. CASE n # 1
      <4>1. n - 1 \in 1..(Len(q) - 1) /\ (n - 1) + 1 = n
        BY <2>1, <3>2
      <4>2. t[n - 1] = q[n]
        BY <2>1, <4>1
      <4>. QED
        BY <2>1, <4>1, <4>2 DEF Elements
    <3>. QED
      BY <3>1, <3>2
  <2>3. Elements(t) \cup {Head(q)} \subseteq Elements(q)
    <3>1. \A n \in 1..(Len(q) - 1) : n + 1 \in 1..Len(q)
      BY <2>1
    <3>2. 1 \in 1..Len(q)
      BY <2>1
    <3>. QED
      BY <2>1, <3>1, <3>2 DEF Elements
  <2>. QED
    BY <2>1, <2>2, <2>3 DEF t
<1>3. Elements(q) \subseteq Job
  BY DEF Elements
<1>4. <<>> \in Seq(Job) /\ Elements(<<>>) = {}
  BY DEF Elements
<1>. QED
  BY <1>1, <1>2, <1>3, <1>4

\* An entry stays tracked if nothing of its own is stored or given up, and
\* nothing older is added.
LEMMA TrackedStays ==
  ASSUME NEW i \in Ids \ Silent, TrackedEntry(i),
         text'[i] = text[i], emb'[i] = emb[i],
         UnderWay(i)' \subseteq UnderWay(i) \cup {JobOf(i)},
         JobOf(i) \in UnderWay(i) => JobOf(i) \in UnderWay(i)'
  PROVE  TrackedEntry(i)'
BY DEF TrackedEntry, JobOf

\* What one server holds is all that changes.
LEMMA OthersHold ==
  ASSUME NEW s \in Servers, \A t \in Servers \ {s} : Held(t)' = Held(t),
         NEW i
  PROVE  /\ \A job \in UnderWay(i)' : job \in UnderWay(i) \/ (job \in Held(s)' /\ job.id = i)
         /\ \A job \in UnderWay(i) : job \in UnderWay(i)' \/ (job \in Held(s) /\ job \notin Held(s)')
         /\ \A job \in Held(s)' : job.id = i => job \in UnderWay(i)'
<1>1. \A job : job \in UnderWay(i) <=> job.id = i /\ \E t \in Servers : job \in Held(t)
  BY UnderWayIsHeld
<1>2. \A job : job \in UnderWay(i)' <=> job.id = i /\ \E t \in Servers : job \in Held(t)'
  <2>. SUFFICES ASSUME NEW job
                PROVE  job \in UnderWay(i)' <=> job.id = i /\ \E t \in Servers : job \in Held(t)'
    OBVIOUS
  <2>1. job \in (UNION {Elements(queue[t]) \cup running[t] \cup call[t].todo : t \in Servers})'
          <=> \E t \in Servers : job \in Held(t)'
    BY DEF Held
  <2>. QED
    BY <2>1 DEF UnderWay
<1>. QED
  BY <1>1, <1>2

\* A step of server s changes what s holds, and no other server's.
LocalStep(s) ==
  /\ queue' \in [Servers -> Seq(Job)]
  /\ running' \in [Servers -> SUBSET Job]
  /\ call' \in [Servers -> Call]
  /\ \A t \in Servers \ {s} : queue'[t] = queue[t] /\ running'[t] = running[t] /\ call'[t] = call[t]
  /\ IsFiniteSet(running'[s]) /\ Cardinality(running'[s]) <= PoolSize

LEMMA LocalStepHolds ==
  ASSUME EInv, NEW s \in Servers, LocalStep(s),
         \A i \in Ids : text'[i] \in Nat /\ text'[i] >= text[i],
         \A job \in Held(s)' : job \in Held(s) \/ job.text <= text'[job.id]
  PROVE  /\ \A t \in Servers : ServerInv(t)'
         /\ \A t \in Servers \ {s} : Held(t)' = Held(t)
<1>1. \A t \in Servers \ {s} : Held(t)' = Held(t)
  BY DEF LocalStep, Held
<1>2. \A t \in Servers : ServerInv(t)
  BY DEF EInv
<1>3. text \in [Ids -> 0..MaxText] /\ MaxText \in Nat
  BY EmbeddingsAssumption DEF EInv, TypeOK
<1>4. \A job \in Job : job.id \in Ids /\ job.text \in Nat
  BY DEF Job
<1>5. \A t \in Servers : \A job \in Held(t) : job \in Job /\ job.text <= text'[job.id]
  <2>. SUFFICES ASSUME NEW t \in Servers, NEW job \in Held(t)
                PROVE  job \in Job /\ job.text <= text'[job.id]
    OBVIOUS
  <2>1. job \in Job /\ job.text <= text[job.id]
    BY <1>2 DEF ServerInv
  <2>2. job.id \in Ids /\ text[job.id] \in Nat /\ text'[job.id] \in Nat /\ job.text \in Nat
    BY <1>3, <1>4, <2>1
  <2>. QED
    BY <2>1, <2>2
<1>6. ASSUME NEW t \in Servers \ {s} PROVE ServerInv(t)'
  <2>1. IsFiniteSet(running[t]) /\ Cardinality(running[t]) <= PoolSize
    BY <1>2 DEF ServerInv
  <2>2. IsFiniteSet(running'[t]) /\ Cardinality(running'[t]) <= PoolSize
    BY <2>1 DEF LocalStep
  <2>. QED
    BY <1>1, <1>5, <2>2 DEF ServerInv
<1>7. ServerInv(s)'
  <2>1. Held(s)' \subseteq Job
    <3>1. queue'[s] \in Seq(Job) /\ running'[s] \subseteq Job /\ call'[s].todo \subseteq Job
      BY DEF LocalStep, Call
    <3>2. Elements(queue'[s]) \subseteq Job
      BY <3>1, QueueOps
    <3>3. Held(s)' = Elements(queue'[s]) \cup running'[s] \cup call'[s].todo
      BY DEF Held, Elements
    <3>. QED
      BY <3>1, <3>2, <3>3
  <2>2. \A job \in Held(s)' : job.text <= text'[job.id]
    BY <1>5
  <2>. QED
    BY <2>1, <2>2 DEF ServerInv, LocalStep
<1>. QED
  BY <1>1, <1>6, <1>7

\* A step of server s that leaves the tables alone: what it adds is current, and
\* an entry whose current text it gives up is excused.
LEMMA QuietStep ==
  ASSUME EInv, NEW s \in Servers, LocalStep(s),
         UNCHANGED <<state, text, recent, emb>>,
         changes' \in 0..MaxChanges, faults' \in 0..MaxFaults,
         excused \subseteq excused', excused' \subseteq Ids,
         \A job \in Held(s)' : job \in Held(s) \/ job = JobOf(job.id),
         \A i \in Ids : JobOf(i) \in Held(s) \ Held(s)' => i \in excused'
  PROVE  EInv'
<1>1. \A i \in Ids : text[i] \in Nat
  BY EmbeddingsAssumption DEF EInv, TypeOK
<1>2. \A job \in Held(s)' : job \in Held(s) \/ job.text <= text'[job.id]
  <2>. SUFFICES ASSUME NEW job \in Held(s)', job \notin Held(s)
                PROVE  job.text <= text[job.id]
    OBVIOUS
  <2>1. job = JobOf(job.id)
    OBVIOUS
  <2>2. job.text = text[job.id]
    BY <2>1 DEF JobOf
  <2>3. Held(s)' \subseteq Job
    <3>1. queue'[s] \in Seq(Job) /\ running'[s] \subseteq Job /\ call'[s].todo \subseteq Job
      BY DEF LocalStep, Call
    <3>2. Held(s)' = Elements(queue'[s]) \cup running'[s] \cup call'[s].todo
      BY DEF Held, Elements
    <3>. QED
      BY <3>1, <3>2, QueueOps
  <2>. QED
    BY <1>1, <2>2, <2>3 DEF Job
<1>3. /\ \A t \in Servers : ServerInv(t)'
      /\ \A t \in Servers \ {s} : Held(t)' = Held(t)
  BY <1>1, <1>2, LocalStepHolds
<1>4. Present' = Present /\ \A i \in Ids : Exists(i)' = Exists(i)
  BY DEF Present, Exists
<1>5. TypeOK'
  <2>1. \A t \in Servers : Cardinality(running'[t]) <= PoolSize
    BY <1>3 DEF ServerInv
  <2>. QED
    BY <1>4, <2>1 DEF EInv, TypeOK, LocalStep
<1>6. Tracked'
  <2>. SUFFICES ASSUME NEW i \in Ids \ Silent, Exists(i)', i \notin excused'
                PROVE  TrackedEntry(i)'
    BY DEF Tracked
  <2>1. TrackedEntry(i)
    BY <1>4 DEF EInv, Tracked
  <2>2. UnderWay(i)' \subseteq UnderWay(i) \cup {JobOf(i)}
    <3>. SUFFICES ASSUME NEW job \in UnderWay(i)', job \notin UnderWay(i)
                  PROVE  job = JobOf(i)
      OBVIOUS
    <3>1. job \in Held(s)' /\ job.id = i
      BY <1>3, OthersHold
    <3>2. job \notin Held(s)
      BY <3>1, UnderWayIsHeld
    <3>. QED
      BY <3>1, <3>2
  <2>3. JobOf(i) \in UnderWay(i) => JobOf(i) \in UnderWay(i)'
    BY <1>3, OthersHold
  <2>. QED
    BY <2>1, <2>2, <2>3, TrackedStays
<1>. QED
  BY <1>3, <1>4, <1>5, <1>6 DEF EInv

\* The types a step relies on.
LEMMA EFacts ==
  ASSUME EInv
  PROVE  /\ state \in [Ids -> State] /\ text \in [Ids -> 0..MaxText] /\ emb \in [Ids -> 0..MaxText]
         /\ queue \in [Servers -> Seq(Job)] /\ running \in [Servers -> SUBSET Job]
         /\ call \in [Servers -> Call] /\ \A s \in Servers : call[s].todo \subseteq Job
         /\ changes \in 0..MaxChanges /\ faults \in 0..MaxFaults /\ excused \subseteq Ids
         /\ MaxText \in Nat /\ MaxChanges \in Nat /\ MaxFaults \in Nat /\ PoolSize \in Nat
         /\ \A i \in Ids : Exists(i) => JobOf(i) \in Job
         /\ \A s \in Servers : ServerInv(s)
         /\ \A i \in Ids : JobOf(i).id = i /\ JobOf(i).text = text[i]
<1>1. /\ text \in [Ids -> 0..MaxText] /\ MaxText \in Nat
      /\ \A i \in Ids : Exists(i) => text[i] >= 1
  BY EmbeddingsAssumption DEF EInv, TypeOK
<1>2. ASSUME NEW i \in Ids, Exists(i) PROVE JobOf(i) \in Job
  <2>1. text[i] \in 1..MaxText
    BY <1>1, <1>2
  <2>. QED
    BY <2>1 DEF JobOf, Job
<1>3. call \in [Servers -> Call] /\ \A c \in Call : c.todo \subseteq Job
  BY DEF EInv, TypeOK, Call
<1>4. \A s \in Servers : ServerInv(s)
  BY DEF EInv
<1>5. \A i \in Ids : JobOf(i).id = i /\ JobOf(i).text = text[i]
  BY DEF JobOf
<1>. QED
  BY <1>1, <1>2, <1>3, <1>4, <1>5, EmbeddingsAssumption DEF EInv, TypeOK

\* Jobs of ids in S, when S has only present ones.
LEMMA JobsOfType ==
  ASSUME EInv, NEW S \in SUBSET Ids, \A i \in S : Exists(i)
  PROVE  JobsOf(S) \subseteq Job /\ \A job \in JobsOf(S) : job = JobOf(job.id)
BY EFacts DEF JobsOf

\* A step of a backfill changes the call of its server only.
LEMMA GotoStep ==
  ASSUME EInv, NEW s \in Servers, NEW at, NEW todo \in SUBSET Job, Goto(s, at, todo),
         [at |-> at, todo |-> todo] \in Call, UNCHANGED <<queue, running>>
  PROVE  /\ LocalStep(s)
         /\ Held(s)' = Elements(queue[s]) \cup running[s] \cup todo
<1>. DEFINE c == [at |-> at, todo |-> todo]
<1>1. call' = [call EXCEPT ![s] = c] /\ c.todo = todo
  BY DEF Goto
<1>2. ServerInv(s) /\ call \in [Servers -> Call]
      /\ queue \in [Servers -> Seq(Job)] /\ running \in [Servers -> SUBSET Job]
  BY EFacts
<1>. HIDE DEF c
<1>3. /\ call' \in [Servers -> Call] /\ call'[s] = c
      /\ \A t \in Servers \ {s} : call'[t] = call[t]
  BY <1>1, <1>2 DEF c
<1>4. LocalStep(s)
  BY <1>2, <1>3 DEF LocalStep, ServerInv
<1>5. Held(s)' = Elements(queue[s]) \cup running[s] \cup todo
  BY <1>1, <1>3 DEF Held, Elements
<1>. QED
  BY <1>4, <1>5

LEMMA TakeStep ==
  ASSUME EInv, NEW s \in Servers, Take(s)
  PROVE  EInv'
<1>. DEFINE h == Head(queue[s])
<1>1. /\ queue[s] # <<>> /\ Cardinality(running[s]) < PoolSize
      /\ running' = [running EXCEPT ![s] = @ \cup {h}]
      /\ queue' = [queue EXCEPT ![s] = Tail(@)]
      /\ UNCHANGED <<state, text, recent, emb, call, changes, faults, excused>>
  BY DEF Take
<1>2. /\ queue[s] \in Seq(Job) /\ h \in Job /\ Tail(queue[s]) \in Seq(Job)
      /\ Elements(queue[s]) = Elements(Tail(queue[s])) \cup {h}
  BY <1>1, EFacts, QueueOps
<1>3. IsFiniteSet(running[s]) /\ Cardinality(running[s]) <= PoolSize /\ running[s] \in SUBSET Job
  BY EFacts DEF ServerInv
<1>4. IsFiniteSet(running[s] \cup {h}) /\ Cardinality(running[s] \cup {h}) <= PoolSize
  <2>1. Cardinality(running[s]) \in Nat
    BY <1>3, FS_CardinalityType
  <2>2. /\ IsFiniteSet(running[s] \cup {h})
        /\ Cardinality(running[s] \cup {h})
             = IF h \in running[s] THEN Cardinality(running[s]) ELSE Cardinality(running[s]) + 1
    BY <1>3, FS_AddElement
  <2>. QED
    BY <1>1, <2>1, <2>2, EFacts
<1>. HIDE DEF h
<1>5. running'[s] = running[s] \cup {h} /\ queue'[s] = Tail(queue[s])
  BY <1>1, EFacts
<1>6. LocalStep(s)
  <2>1. queue' \in [Servers -> Seq(Job)] /\ running' \in [Servers -> SUBSET Job]
    BY <1>1, <1>2, <1>3, EFacts
  <2>2. \A t \in Servers \ {s} : queue'[t] = queue[t] /\ running'[t] = running[t]
    BY <1>1, EFacts
  <2>. QED
    BY <1>1, <1>4, <1>5, <2>1, <2>2, EFacts DEF LocalStep
<1>7. Held(s)' = Held(s)
  <2>1. Held(s)' = Elements(queue'[s]) \cup running'[s] \cup call'[s].todo
    BY DEF Held, Elements
  <2>. QED
    BY <1>1, <1>2, <1>5, <2>1 DEF Held
<1>. QED
  BY <1>1, <1>6, <1>7, QuietStep, EFacts

\* A worker gives its job up.
LEMMA WorkerDone ==
  ASSUME EInv, NEW s \in Servers, NEW job \in running[s],
         running' = [running EXCEPT ![s] = @ \ {job}], UNCHANGED <<queue, call>>
  PROVE  /\ LocalStep(s)
         /\ job \in Held(s) /\ Held(s)' \subseteq Held(s) /\ Held(s) \subseteq Held(s)' \cup {job}
<1>1. IsFiniteSet(running[s]) /\ Cardinality(running[s]) <= PoolSize /\ running[s] \in SUBSET Job
  BY EFacts DEF ServerInv
<1>2. IsFiniteSet(running[s] \ {job}) /\ Cardinality(running[s] \ {job}) <= PoolSize
  <2>1. /\ IsFiniteSet(running[s] \ {job})
        /\ Cardinality(running[s] \ {job}) = Cardinality(running[s]) - 1
    BY <1>1, FS_RemoveElement
  <2>. QED
    BY <1>1, <2>1, FS_CardinalityType, EFacts
<1>3. running'[s] = running[s] \ {job}
  BY EFacts
<1>4. running' \in [Servers -> SUBSET Job]
  BY <1>1, EFacts
<1>5. \A t \in Servers \ {s} : running'[t] = running[t]
  BY EFacts
<1>6. LocalStep(s)
  BY <1>2, <1>3, <1>4, <1>5, EFacts DEF LocalStep
<1>7. Held(s)' = Elements(queue[s]) \cup (running[s] \ {job}) \cup call[s].todo
  BY <1>3 DEF Held, Elements
<1>. QED
  BY <1>6, <1>7 DEF Held

LEMMA EmbedFailsStep ==
  ASSUME EInv, NEW s \in Servers, NEW job \in running[s], EmbedFails(s, job)
  PROVE  EInv'
<1>1. /\ Fault /\ Lose({job}) /\ running' = [running EXCEPT ![s] = @ \ {job}]
      /\ UNCHANGED <<state, text, recent, emb, queue, call, changes>>
  BY DEF EmbedFails
<1>2. faults' \in 0..MaxFaults
  BY <1>1, EFacts DEF Fault
<1>3. /\ LocalStep(s)
      /\ job \in Held(s) /\ Held(s)' \subseteq Held(s) /\ Held(s) \subseteq Held(s)' \cup {job}
  BY <1>1, WorkerDone
<1>4. /\ excused \subseteq excused' /\ excused' \subseteq Ids
      /\ \A i \in Ids : JobOf(i) = job => i \in excused'
  BY <1>1, EFacts DEF Lose
<1>. QED
  BY <1>1, <1>2, <1>3, <1>4, QuietStep, EFacts

\* The steps of a backfill that store nothing.
LEMMA BackfillSteps ==
  ASSUME EInv, NEW s \in Servers,
         \/ BackfillNew(s) \/ BackfillEmbed(s) \/ BackfillEmbedFails(s)
         \/ BackfillStoreFails(s) \/ BackfillStale(s) \/ BackfillAnswer(s)
  PROVE  EInv'
<1>1. PICK at, todo :
        /\ Goto(s, at, todo) /\ [at |-> at, todo |-> todo] \in Call
        /\ todo \in SUBSET Job /\ \A job \in todo : job \in call[s].todo \/ job = JobOf(job.id)
        /\ excused \subseteq excused' /\ excused' \subseteq Ids /\ faults' \in 0..MaxFaults
        /\ \A i \in Ids : JobOf(i) \in call[s].todo \ todo => i \in excused'
  <2>. DEFINE Good(at, todo) ==
         /\ Goto(s, at, todo) /\ [at |-> at, todo |-> todo] \in Call
         /\ todo \in SUBSET Job /\ \A job \in todo : job \in call[s].todo \/ job = JobOf(job.id)
         /\ excused \subseteq excused' /\ excused' \subseteq Ids /\ faults' \in 0..MaxFaults
         /\ \A i \in Ids : JobOf(i) \in call[s].todo \ todo => i \in excused'
  <2>. SUFFICES \E at, todo : Good(at, todo)
    OBVIOUS
  <2>0. /\ call[s] \in Call /\ call[s].todo \subseteq Job
        /\ excused \subseteq Ids /\ faults \in 0..MaxFaults
        /\ \A at \in {"embedNew", "storeNew", "embedStale", "storeStale"} :
             \A todo \in SUBSET Job : [at |-> at, todo |-> todo] \in Call
        /\ [at |-> "idle", todo |-> {}] \in Call
        /\ \A jobs : Lose(jobs) => /\ excused \subseteq excused' /\ excused' \subseteq Ids
                                   /\ \A i \in Ids : JobOf(i) \in jobs => i \in excused'
        /\ Fault => faults' \in 0..MaxFaults
    BY EFacts DEF Call, Lose, Fault
  <2>1. CASE BackfillNew(s)
    <3>. DEFINE J == JobsOf(Missing(Limit))
    <3>1. J \subseteq Job /\ \A job \in J : job = JobOf(job.id)
      <4>1. Missing(Limit) \in SUBSET Ids /\ \A i \in Missing(Limit) : Exists(i)
        BY DEF Missing, FirstOf, Page, Exists
      <4>. QED
        BY <4>1, JobsOfType
    <3>2. Goto(s, "embedNew", J) /\ excused' = excused /\ faults' = faults /\ call[s].todo = {}
      BY <2>1 DEF BackfillNew, Ready, Idle
    <3>. HIDE DEF J
    <3>3. Good("embedNew", J)
      BY <2>0, <3>1, <3>2
    <3>. QED
      BY <3>3
  <2>2. CASE BackfillStale(s)
    <3>. DEFINE J == JobsOf(Stale(Limit))
    <3>1. J \subseteq Job /\ \A job \in J : job = JobOf(job.id)
      <4>1. Stale(Limit) \in SUBSET Ids /\ \A i \in Stale(Limit) : Exists(i)
        BY DEF Stale, Embedded, FirstOf, Page, Exists
      <4>. QED
        BY <4>1, JobsOfType
    <3>2. Goto(s, "embedStale", J) /\ excused' = excused /\ faults' = faults /\ call[s].todo = {}
      BY <2>2 DEF BackfillStale
    <3>. HIDE DEF J
    <3>3. Good("embedStale", J)
      BY <2>0, <3>1, <3>2
    <3>. QED
      BY <3>3
  <2>3. CASE BackfillEmbed(s)
    <3>1. PICK at \in {"storeNew", "storeStale"} : Goto(s, at, call[s].todo)
      BY <2>3 DEF BackfillEmbed
    <3>2. Good(at, call[s].todo)
      BY <2>0, <2>3, <3>1 DEF BackfillEmbed
    <3>. QED
      BY <3>2
  <2>4. CASE BackfillEmbedFails(s)
    <3>1. PICK at \in {"storeNew", "storeStale"} : Goto(s, at, {})
      BY <2>4 DEF BackfillEmbedFails
    <3>2. Good(at, {})
      BY <2>0, <2>4, <3>1 DEF BackfillEmbedFails
    <3>. QED
      BY <3>2
  <2>5. CASE BackfillStoreFails(s)
    <3>1. PICK job \in call[s].todo : Lose({job}) /\ Goto(s, call[s].at, call[s].todo \ {job})
      BY <2>5 DEF BackfillStoreFails
    <3>2. call[s].at \in {"storeNew", "storeStale"} /\ Fault
      BY <2>5 DEF BackfillStoreFails
    <3>3. Good(call[s].at, call[s].todo \ {job})
      BY <2>0, <3>1, <3>2
    <3>. QED
      BY <3>3
  <2>6. CASE BackfillAnswer(s)
    <3>1. Good("idle", {})
      BY <2>0, <2>6 DEF BackfillAnswer
    <3>. QED
      BY <3>1
  <2>. QED
    BY <2>1, <2>2, <2>3, <2>4, <2>5, <2>6
<1>2. UNCHANGED <<state, text, recent, emb, queue, running, changes>>
  BY DEF BackfillNew, BackfillEmbed, BackfillEmbedFails, BackfillStoreFails, BackfillStale,
         BackfillAnswer
<1>3. LocalStep(s) /\ Held(s)' = Elements(queue[s]) \cup running[s] \cup todo
  BY <1>1, <1>2, GotoStep
<1>4. \A job \in Held(s)' : job \in Held(s) \/ job = JobOf(job.id)
  BY <1>1, <1>3 DEF Held
<1>5. \A i \in Ids : JobOf(i) \in Held(s) \ Held(s)' => i \in excused'
  BY <1>1, <1>3 DEF Held
<1>. QED
  BY <1>1, <1>2, <1>3, <1>4, <1>5, QuietStep, EFacts

LEMMA RestartStep ==
  ASSUME EInv, NEW s \in Servers, Restart(s)
  PROVE  EInv'
<1>1. /\ Fault /\ Lose(Held(s))
      /\ queue' = [queue EXCEPT ![s] = <<>>] /\ running' = [running EXCEPT ![s] = {}]
      /\ call' = [call EXCEPT ![s] = Idle]
      /\ UNCHANGED <<state, text, recent, emb, changes>>
  BY DEF Restart, Held, Goto, Idle
<1>2. Idle \in Call /\ Idle.todo = {} /\ <<>> \in Seq(Job)
  BY DEF Idle, Call
<1>3. IsFiniteSet({}) /\ Cardinality({}) <= PoolSize
  BY FS_EmptySet, EFacts
<1>4. queue'[s] = <<>> /\ running'[s] = {} /\ call'[s] = Idle
  BY <1>1, EFacts
<1>5. queue' \in [Servers -> Seq(Job)] /\ running' \in [Servers -> SUBSET Job]
      /\ call' \in [Servers -> Call]
  BY <1>1, <1>2, EFacts
<1>6. \A t \in Servers \ {s} :
        queue'[t] = queue[t] /\ running'[t] = running[t] /\ call'[t] = call[t]
  BY <1>1, EFacts
<1>7. LocalStep(s)
  BY <1>3, <1>4, <1>5, <1>6 DEF LocalStep
<1>8. Held(s)' = {}
  <2>1. Held(s)' = Elements(queue'[s]) \cup running'[s] \cup call'[s].todo
    BY DEF Held, Elements
  <2>2. Elements(<<>>) = {}
    BY DEF Elements
  <2>. QED
    BY <1>2, <1>4, <2>1, <2>2
<1>9. /\ excused \subseteq excused' /\ excused' \subseteq Ids
      /\ \A i \in Ids : JobOf(i) \in Held(s) => i \in excused'
  BY <1>1, EFacts DEF Lose
<1>10. faults' \in 0..MaxFaults
  BY <1>1, EFacts DEF Fault
<1>. QED
  BY <1>1, <1>7, <1>8, <1>9, <1>10, QuietStep, EFacts

\* A vector is stored.
LEMMA UpsertStep ==
  ASSUME EInv, NEW s \in Servers, NEW job \in Held(s), LocalStep(s), Upsert(job),
         Held(s)' \subseteq Held(s), Held(s) \subseteq Held(s)' \cup {job},
         UNCHANGED <<state, text, recent, changes, faults>>
  PROVE  EInv'
<1>1. job \in Job /\ job.id \in Ids /\ job.text \in 1..MaxText /\ job.text <= text[job.id]
  BY EFacts DEF ServerInv, Job
<1>2. job \in UnderWay(job.id)
  BY UnderWayIsHeld
<1>3. /\ \A t \in Servers : ServerInv(t)'
      /\ \A t \in Servers \ {s} : Held(t)' = Held(t)
  <2>1. \A i \in Ids : text'[i] \in Nat /\ text'[i] >= text[i]
    BY EFacts
  <2>. QED
    BY <2>1, LocalStepHolds
<1>4. /\ Present' = Present /\ \A i \in Ids : Exists(i)' = Exists(i) /\ JobOf(i)' = JobOf(i)
  BY DEF Present, Exists, JobOf
<1>5. /\ emb' \in [Ids -> 0..MaxText]
      /\ \A i \in Ids : emb'[i] <= text[i] /\ (emb'[i] # 0 => Exists(i))
      /\ \A i \in Ids \ {job.id} : emb'[i] = emb[i]
      /\ Exists(job.id) => emb'[job.id] = job.text
  <2>1. \A i \in Ids : emb[i] <= text[i] /\ (emb[i] # 0 => Exists(i))
    BY DEF EInv, TypeOK
  <2>2. CASE Exists(job.id)
    <3>1. emb' = [emb EXCEPT ![job.id] = job.text]
      BY <2>2 DEF Upsert
    <3>. QED
      BY <1>1, <2>1, <2>2, <3>1, EFacts
  <2>3. CASE ~Exists(job.id)
    BY <2>1, <2>3, EFacts DEF Upsert
  <2>. QED
    BY <2>2, <2>3
<1>6. excused' \subseteq Ids /\ \A i \in Ids \ {job.id} : i \in excused' <=> i \in excused
  BY <1>1, EFacts DEF Upsert
<1>7. TypeOK'
  <2>1. \A t \in Servers : Cardinality(running'[t]) <= PoolSize
    BY <1>3 DEF ServerInv
  <2>. QED
    BY <1>4, <1>5, <1>6, <2>1 DEF EInv, TypeOK, LocalStep
<1>8. Tracked'
  <2>. SUFFICES ASSUME NEW i \in Ids \ Silent, Exists(i), i \notin excused'
                PROVE  TrackedEntry(i)'
    BY <1>4 DEF Tracked
  <2>1. UnderWay(i)' \subseteq UnderWay(i)
    <3>. SUFFICES ASSUME NEW other \in UnderWay(i)' PROVE other \in UnderWay(i)
      OBVIOUS
    <3>1. other \in UnderWay(i) \/ (other \in Held(s)' /\ other.id = i)
      BY <1>3, OthersHold
    <3>. QED
      BY <3>1, UnderWayIsHeld
  <2>2. \A other \in UnderWay(i) : other \in UnderWay(i)' \/ other = job
    BY <1>3, OthersHold
  <2>3. i \in excused \/ TrackedEntry(i)
    BY DEF EInv, Tracked
  <2>4. CASE i # job.id
    <3>1. TrackedEntry(i)
      BY <1>6, <2>3, <2>4
    <3>2. job # JobOf(i)
      BY <2>4, EFacts
    <3>3. JobOf(i) \in UnderWay(i) => JobOf(i) \in UnderWay(i)'
      BY <2>2, <3>2
    <3>. QED
      BY <1>5, <2>1, <2>4, <3>1, <3>3, TrackedStays
  <2>5. CASE i = job.id /\ job # JobOf(i)
    <3>1. i \notin excused
      BY <2>5 DEF Upsert
    <3>2. JobOf(i) \in UnderWay(i)
      BY <1>2, <2>3, <2>5, <3>1 DEF TrackedEntry
    <3>3. JobOf(i) \in UnderWay(i)'
      BY <2>2, <2>5, <3>2
    <3>. QED
      BY <1>4, <3>3 DEF TrackedEntry
  <2>6. CASE i = job.id /\ job = JobOf(i)
    <3>1. UnderWay(i) \subseteq {job}
      BY <2>6 DEF Upsert
    <3>2. emb'[i] = text[i]
      BY <1>5, <2>6, EFacts
    <3>3. UnderWay(i)' \subseteq {JobOf(i)}
      BY <2>1, <2>6, <3>1
    <3>. QED
      BY <1>4, <3>2, <3>3 DEF TrackedEntry
  <2>. QED
    BY <2>4, <2>5, <2>6
<1>. QED
  BY <1>3, <1>4, <1>7, <1>8 DEF EInv

LEMMA StoreSteps ==
  ASSUME EInv, NEW s \in Servers,
         (\E job \in running[s] : Embed(s, job)) \/ BackfillStore(s)
  PROVE  EInv'
<1>1. ASSUME NEW job \in running[s], Embed(s, job)
      PROVE  EInv'
  <2>1. /\ LocalStep(s)
        /\ job \in Held(s) /\ Held(s)' \subseteq Held(s) /\ Held(s) \subseteq Held(s)' \cup {job}
    BY <1>1, WorkerDone DEF Embed
  <2>. QED
    BY <1>1, <2>1, UpsertStep DEF Embed
<1>2. CASE BackfillStore(s)
  <2>1. PICK job \in call[s].todo :
          Upsert(job) /\ Goto(s, call[s].at, call[s].todo \ {job})
    BY <1>2 DEF BackfillStore
  <2>2. /\ call[s].at \in {"storeNew", "storeStale"}
        /\ UNCHANGED <<state, text, recent, queue, running, changes, faults>>
    BY <1>2 DEF BackfillStore
  <2>3. call[s].todo \ {job} \in SUBSET Job
    BY EFacts
  <2>4. [at |-> call[s].at, todo |-> call[s].todo \ {job}] \in Call
    BY <2>2, <2>3 DEF Call
  <2>5. /\ LocalStep(s)
        /\ Held(s)' = Elements(queue[s]) \cup running[s] \cup (call[s].todo \ {job})
    BY <2>1, <2>2, <2>3, <2>4, GotoStep
  <2>6. job \in Held(s) /\ Held(s)' \subseteq Held(s) /\ Held(s) \subseteq Held(s)' \cup {job}
    BY <2>5 DEF Held
  <2>. QED
    BY <2>1, <2>2, <2>5, <2>6, UpsertStep
<1>. QED
  BY <1>1, <1>2

\* An entry is written: its new text is handed to the pool.
LEMMA WriteStep ==
  ASSUME EInv, NEW s \in Servers, NEW i \in Ids, Write(s, i)
  PROVE  EInv'
<1>. DEFINE new == [id |-> i, text |-> text[i] + 1]
<1>1. /\ state[i] \in {"none", "active"} /\ text[i] < MaxText
      /\ state' = [state EXCEPT ![i] = "active"] /\ text' = [text EXCEPT ![i] = @ + 1]
      /\ recent' = Placed(recent, i, {}, Present \ {i})
      /\ changes' \in 0..MaxChanges
      /\ UNCHANGED <<emb, running, call, faults, excused>>
  BY EFacts DEF Write, Change
<1>0. PICK given \in SUBSET {new} :
        /\ i \notin Silent => given = {new}
        /\ \/ given = {} /\ queue' = queue
           \/ given = {new} /\ queue' = [queue EXCEPT ![s] = Append(@, new)]
  BY DEF Write, Submit
<1>2. /\ text[i] + 1 \in 1..MaxText /\ text' \in [Ids -> 0..MaxText]
      /\ text'[i] = text[i] + 1 /\ \A j \in Ids \ {i} : text'[j] = text[j]
      /\ \A j \in Ids : text'[j] \in Nat /\ text'[j] >= text[j]
  <2>1. text[i] \in 0..MaxText
    BY EFacts
  <2>2. text[i] + 1 \in 1..MaxText /\ text[i] + 1 \in 0..MaxText
    BY <1>1, <2>1, EFacts
  <2>3. \A j \in Ids : text[j] \in Nat
    BY EFacts
  <2>. QED
    BY <1>1, <2>1, <2>2, <2>3, EFacts
<1>3. /\ state' \in [Ids -> State] /\ Present' = Present \cup {i}
      /\ Exists(i)' /\ \A j \in Ids \ {i} : Exists(j)' = Exists(j)
  BY <1>1, EFacts DEF State, Present, Exists
<1>4. IsRecency(recent', Present')
  <2>1. Present \ ({} \cup {i}) = Present \ {i} /\ IsRecency(recent, Present)
    BY DEF EInv, TypeOK
  <2>2. IsRecency(Placed(recent, i, {}, Present \ ({} \cup {i})), Present \cup {i})
    BY <2>1, PlacedInOrder
  <2>. QED
    BY <1>1, <1>3, <2>1, <2>2
<1>5. new \in Job /\ new.id = i /\ new.text = text'[i] /\ JobOf(i)' = new
      /\ \A j \in Ids \ {i} : JobOf(j)' = JobOf(j)
  BY <1>2 DEF Job, JobOf
<1>. HIDE DEF new
<1>6. /\ LocalStep(s)
      /\ Held(s)' = Held(s) \cup given
  <2>1. /\ queue[s] \in Seq(Job) /\ Append(queue[s], new) \in Seq(Job)
        /\ Elements(Append(queue[s], new)) = Elements(queue[s]) \cup {new}
    BY <1>5, EFacts, QueueOps
  <2>2. queue' \in [Servers -> Seq(Job)] /\ \A t \in Servers \ {s} : queue'[t] = queue[t]
    BY <1>0, <2>1, EFacts
  <2>3. Elements(queue'[s]) = Elements(queue[s]) \cup given
    BY <1>0, <2>1, EFacts
  <2>4. Held(s)' = Elements(queue'[s]) \cup running'[s] \cup call'[s].todo
    BY DEF Held, Elements
  <2>5. LocalStep(s)
    BY <1>1, <2>2, EFacts DEF LocalStep, ServerInv
  <2>. QED
    BY <1>1, <2>3, <2>4, <2>5 DEF Held
<1>7. /\ \A t \in Servers : ServerInv(t)'
      /\ \A t \in Servers \ {s} : Held(t)' = Held(t)
  <2>1. new.text <= text'[new.id]
    BY <1>2, <1>5
  <2>. QED
    BY <1>2, <1>6, <2>1, LocalStepHolds
<1>8. TypeOK'
  <2>1. \A t \in Servers : Cardinality(running'[t]) <= PoolSize
    BY <1>7 DEF ServerInv
  <2>2. \A j \in Ids : emb'[j] <= text'[j] /\ (emb'[j] # 0 => Exists(j)')
    <3>1. \A j \in Ids : emb[j] <= text[j] /\ (emb[j] # 0 => Exists(j))
      BY DEF EInv, TypeOK
    <3>2. \A j \in Ids : emb[j] \in Nat /\ text[j] \in Nat
      BY EFacts
    <3>. QED
      BY <1>1, <1>2, <1>3, <3>1, <3>2
  <2>. QED
    BY <1>1, <1>2, <1>3, <1>4, <1>6, <2>1, <2>2, EFacts DEF TypeOK, LocalStep
<1>9. \A j \in Ids : Exists(j)' => text'[j] >= 1
  <2>1. \A j \in Ids : Exists(j) => text[j] >= 1
    BY DEF EInv
  <2>. QED
    BY <1>2, <1>3, <2>1
<1>10. Tracked'
  <2>. SUFFICES ASSUME NEW j \in Ids \ Silent, Exists(j)', j \notin excused'
                PROVE  TrackedEntry(j)'
    BY DEF Tracked
  <2>1. CASE j = i
    <3>1. new \in UnderWay(i)'
      BY <1>0, <1>5, <1>6, <1>7, <2>1, OthersHold
    <3>. QED
      BY <1>5, <2>1, <3>1 DEF TrackedEntry
  <2>2. CASE j # i
    <3>1. TrackedEntry(j)
      BY <1>1, <1>3, <2>2 DEF EInv, Tracked
    <3>2. UnderWay(j)' \subseteq UnderWay(j)
      <4>. SUFFICES ASSUME NEW job \in UnderWay(j)' PROVE job \in UnderWay(j)
        OBVIOUS
      <4>1. job \in UnderWay(j) \/ (job \in Held(s)' /\ job.id = j)
        BY <1>7, OthersHold
      <4>2. job \in UnderWay(j) \/ (job \in Held(s) /\ job.id = j)
        BY <1>5, <1>6, <2>2, <4>1
      <4>. QED
        BY <4>2, UnderWayIsHeld
    <3>3. UnderWay(j) \subseteq UnderWay(j)'
      BY <1>6, <1>7, OthersHold
    <3>. QED
      BY <1>1, <1>2, <2>2, <3>1, <3>2, <3>3, TrackedStays
  <2>. QED
    BY <2>1, <2>2
<1>. QED
  BY <1>7, <1>8, <1>9, <1>10 DEF EInv

\* An entry goes to the trash, comes back, or is purged with its embedding.
LEMMA TrashAndPurgeSteps ==
  ASSUME EInv, NEW i \in Ids, (\E s \in Servers : Move(s, i)) \/ Purge(i)
  PROVE  EInv'
<1>1. UNCHANGED <<text, queue, running, call, faults, excused>>
  BY DEF Move, Purge
<1>2. changes' \in 0..MaxChanges
  BY EFacts DEF Move, Purge, Change
<1>3. /\ state' \in [Ids -> State]
      /\ IsRecency(recent', Present') /\ emb' \in [Ids -> 0..MaxText]
      /\ \A j \in Ids : /\ Exists(j)' => Exists(j) /\ emb'[j] = emb[j]
                        /\ emb'[j] # 0 => emb'[j] = emb[j] /\ Exists(j)'
                        /\ emb'[j] <= text[j]
  <2>0. /\ \A j \in Ids : emb[j] <= text[j] /\ (emb[j] # 0 => Exists(j))
        /\ \A j \in Ids : text[j] \in Nat
        /\ IsRecency(recent, Present)
    BY EFacts DEF EInv, TypeOK
  <2>1. CASE \E s \in Servers : Move(s, i)
    <3>1. /\ Exists(i) /\ recent' = recent /\ emb' = emb
          /\ state' = [state EXCEPT ![i] = IF @ = "active" THEN "trash" ELSE "active"]
      BY <2>1 DEF Move
    <3>2. /\ state' \in [Ids -> State] /\ \A j \in Ids : Exists(j)' <=> Exists(j)
      BY <3>1, EFacts DEF State, Exists
    <3>3. Present' = Present
      BY <3>2 DEF Present
    <3>. QED
      BY <2>0, <3>1, <3>2, <3>3, EFacts
  <2>2. CASE Purge(i)
    <3>1. /\ state' = [state EXCEPT ![i] = "purged"] /\ emb' = [emb EXCEPT ![i] = 0]
          /\ recent' = Without(recent, i)
      BY <2>2 DEF Purge
    <3>2. /\ state' \in [Ids -> State] /\ ~Exists(i)'
          /\ \A j \in Ids \ {i} : Exists(j)' <=> Exists(j)
      BY <3>1, EFacts DEF State, Exists
    <3>3. Present' = Present \ {i}
      BY <3>2 DEF Present
    <3>4. IsRecency(recent', Present')
      BY <2>0, <3>1, <3>3, WithoutInOrder
    <3>5. emb' \in [Ids -> 0..MaxText] /\ emb'[i] = 0 /\ \A j \in Ids \ {i} : emb'[j] = emb[j]
      <4>1. 0 \in 0..MaxText
        BY EFacts
      <4>. QED
        BY <3>1, <4>1, EFacts
    <3>. QED
      BY <2>0, <3>2, <3>4, <3>5
  <2>. QED
    BY <2>1, <2>2
<1>4. \A t \in Servers : ServerInv(t)' /\ Held(t)' = Held(t)
  BY <1>1, EFacts DEF ServerInv, Held, Elements
<1>5. \A j \in Ids : UnderWay(j)' = UnderWay(j)
  BY <1>1 DEF UnderWay, Elements
<1>6. TypeOK'
  BY <1>1, <1>2, <1>3 DEF EInv, TypeOK
<1>7. Tracked'
  <2>. SUFFICES ASSUME NEW j \in Ids \ Silent, Exists(j)', j \notin excused'
                PROVE  TrackedEntry(j)'
    BY DEF Tracked
  <2>1. TrackedEntry(j)
    BY <1>1, <1>3 DEF EInv, Tracked
  <2>. QED
    BY <1>1, <1>3, <1>5, <2>1, TrackedStays
<1>8. \A j \in Ids : Exists(j)' => text'[j] >= 1
  BY <1>1, <1>3 DEF EInv
<1>. QED
  BY <1>4, <1>6, <1>7, <1>8 DEF EInv

LEMMA EmbeddingsInit == Init => EInv
<1>. SUFFICES ASSUME Init PROVE EInv
  OBVIOUS
<1>1. /\ 0 \in 0..MaxText /\ MaxChanges \in 0..MaxChanges /\ MaxFaults \in 0..MaxFaults
      /\ PoolSize \in Nat
  BY EmbeddingsAssumption
<1>2. Present = {} /\ \A i \in Ids : ~Exists(i)
  BY DEF Init, Present, Exists
<1>3. Idle \in Call /\ Idle.todo = {} /\ <<>> \in Seq(Job) /\ Elements(<<>>) = {}
  BY DEF Idle, Call, Elements
<1>4. IsFiniteSet({}) /\ Cardinality({}) = 0
  BY FS_EmptySet
<1>5. TypeOK
  BY <1>1, <1>2, <1>3, <1>4 DEF Init, TypeOK, State, IsRecency
<1>6. ASSUME NEW s \in Servers PROVE ServerInv(s)
  <2>1. running[s] = {} /\ Held(s) = {}
    BY <1>3 DEF Init, Held
  <2>. QED
    BY <1>1, <1>4, <2>1 DEF ServerInv
<1>. QED
  BY <1>2, <1>5, <1>6 DEF EInv, Tracked

LEMMA EmbeddingsStep == EInv /\ [Next]_vars => EInv'
<1>. SUFFICES ASSUME EInv, [Next]_vars PROVE EInv'
  OBVIOUS
<1>1. CASE UNCHANGED vars
  <2>1. /\ state' = state /\ text' = text /\ recent' = recent /\ emb' = emb /\ queue' = queue
        /\ running' = running /\ call' = call /\ changes' = changes /\ faults' = faults
        /\ excused' = excused
    BY <1>1 DEF vars
  <2>2. /\ \A i \in Ids : UnderWay(i)' = UnderWay(i) /\ Exists(i)' = Exists(i)
                          /\ JobOf(i)' = JobOf(i)
        /\ Present' = Present
        /\ \A s \in Servers : Held(s)' = Held(s)
    BY <2>1 DEF UnderWay, Elements, Exists, JobOf, Present, Held
  <2>3. TypeOK'
    BY <2>1, <2>2 DEF EInv, TypeOK
  <2>4. Tracked'
    BY <2>1, <2>2 DEF EInv, Tracked, TrackedEntry
  <2>5. \A s \in Servers : ServerInv(s)'
    BY <2>1, <2>2 DEF EInv, ServerInv
  <2>. QED
    BY <2>1, <2>2, <2>3, <2>4, <2>5 DEF EInv
<1>2. ASSUME NEW s \in Servers, NEW i \in Ids, Write(s, i) PROVE EInv'
  BY <1>2, WriteStep
<1>3. ASSUME NEW i \in Ids, (\E s \in Servers : Move(s, i)) \/ Purge(i) PROVE EInv'
  BY <1>3, TrashAndPurgeSteps
<1>4. ASSUME NEW s \in Servers, Take(s) PROVE EInv'
  BY <1>4, TakeStep
<1>5. ASSUME NEW s \in Servers, NEW job \in running[s], EmbedFails(s, job) PROVE EInv'
  BY <1>5, EmbedFailsStep
<1>6. ASSUME NEW s \in Servers, (\E job \in running[s] : Embed(s, job)) \/ BackfillStore(s)
      PROVE  EInv'
  BY <1>6, StoreSteps
<1>7. ASSUME NEW s \in Servers,
             \/ BackfillNew(s) \/ BackfillEmbed(s) \/ BackfillEmbedFails(s)
             \/ BackfillStoreFails(s) \/ BackfillStale(s) \/ BackfillAnswer(s)
      PROVE  EInv'
  BY <1>7, BackfillSteps
<1>8. ASSUME NEW s \in Servers, Restart(s) PROVE EInv'
  BY <1>8, RestartStep
<1>. QED
  BY <1>1, <1>2, <1>3, <1>4, <1>5, <1>6, <1>7, <1>8 DEF Next, Backfill

LEMMA EmbeddingsInvariant == Spec => []EInv
BY EmbeddingsInit, EmbeddingsStep, PTL DEF Spec

\* The variables keep their types, no pool runs more workers than it has, and
\* only entries that have a row have an embedding.
THEOREM EmbeddingsTypeCorrect == Spec => []TypeOK
<1>1. EInv => TypeOK
  BY DEF EInv
<1>. QED
  BY <1>1, EmbeddingsInvariant, PTL

\* An embedding that is missing or of an older text is about to be replaced, or
\* was lost to a failure, a restart or an overlap of two workers or servers.
THEOREM StaleOnlyForACause == Spec => []StaleForACause
<1>1. EInv => StaleForACause
  BY DEF EInv, Tracked, TrackedEntry, StaleForACause
<1>. QED
  BY <1>1, EmbeddingsInvariant, PTL
=============================================================================
