---------------------------- MODULE SmsPagesProofs ----------------------------
(***************************************************************************)
(* Theorems about SmsPages, for every set of numbers, times and page sizes *)
(* and any number of messages.                                             *)
(***************************************************************************)
EXTENDS SmsPages, FiniteSetTheorems, WellFoundedInduction, TLAPS

-----------------------------------------------------------------------------
(***************************************************************************)
(* Numbers.                                                                *)
(***************************************************************************)
\* Max of the community modules is a CHOOSE: it is what it is called in a set
\* that is bounded and not empty, because there is a least bound.
LEMMA MaxOfBounded ==
    ASSUME NEW n \in Nat, NEW S \in SUBSET (0..n), S # {}
    PROVE  Max(S) \in S /\ \A y \in S : Max(S) >= y
  <1> DEFINE Bounds == {m \in Nat : \A y \in S : y <= m}
  <1>1. n \in Bounds
    OBVIOUS
  <1>2. PICK m \in Bounds : \A y \in Bounds : m <= y
    <2>1. \E m \in Bounds : \A y \in Bounds : ~(<<y, m>> \in OpToRel(<, Nat))
      <3> HIDE DEF Bounds
      <3>1. Bounds \subseteq Nat
        BY DEF Bounds
      <3>2. QED
        BY <1>1, <3>1, NatLessThanWellFounded, WFMin
    <2>2. \A x, y \in Nat : y < x => <<y, x>> \in OpToRel(<, Nat)
      BY DEF OpToRel
    <2>3. PICK m \in Bounds : \A y \in Bounds : ~(y < m)
      BY <2>1, <2>2
    <2>4. QED
      BY <2>3
  <1>3. m \in S
    <2>1. SUFFICES ASSUME m \notin S PROVE FALSE
      OBVIOUS
    <2>2. m # 0
      <3>1. PICK y \in S : TRUE
        OBVIOUS
      <3>2. QED
        BY <2>1, <3>1
    <2>3. m - 1 \in Bounds
      BY <2>1, <2>2
    <2>4. QED
      BY <1>2, <2>3
  <1>4. QED
    BY <1>3 DEF Max

\* What the place of a page is computed from.
LEMMA NumberTimes ==
    \A n \in Nat : n * 0 = 0 /\ \A k \in Nat : n * k \in Nat /\ n * (k + 1) = n * k + n
  OBVIOUS

-----------------------------------------------------------------------------
(***************************************************************************)
(* Places in an order.                                                     *)
(***************************************************************************)
Ahead(S, R, x) == {y \in S : <<y, x>> \in R}
Place(S, R, x) == Cardinality(Ahead(S, R, x))

TotalOrder(S, R) ==
    /\ \A x \in S : <<x, x>> \notin R
    /\ \A x, y, z \in S : <<x, y>> \in R /\ <<y, z>> \in R => <<x, z>> \in R
    /\ \A x, y \in S : x = y \/ <<x, y>> \in R \/ <<y, x>> \in R

\* What comes earlier has the lower place.
LEMMA PlaceIncreases ==
    ASSUME NEW S, IsFiniteSet(S), NEW R, TotalOrder(S, R)
    PROVE  /\ \A x \in S : IsFiniteSet(Ahead(S, R, x)) /\ Place(S, R, x) \in Nat
           /\ \A x, y \in S : <<x, y>> \in R => Place(S, R, x) < Place(S, R, y)
  <1>1. ASSUME NEW x \in S
        PROVE  IsFiniteSet(Ahead(S, R, x)) /\ Place(S, R, x) \in Nat
    <2>1. Ahead(S, R, x) \in SUBSET S
      BY DEF Ahead
    <2>2. QED
      BY <2>1, FS_Subset, FS_CardinalityType DEF Place
  <1>2. ASSUME NEW x \in S, NEW y \in S, <<x, y>> \in R
        PROVE  Place(S, R, x) < Place(S, R, y)
    <2>1. Ahead(S, R, x) \in SUBSET Ahead(S, R, y)
      BY <1>2 DEF Ahead, TotalOrder
    <2>2. x \in Ahead(S, R, y) /\ x \notin Ahead(S, R, x)
      BY <1>2 DEF Ahead, TotalOrder
    <2>3. Place(S, R, x) <= Place(S, R, y) /\ Place(S, R, x) # Place(S, R, y)
      BY <1>1, <2>1, <2>2, FS_Subset DEF Place
    <2>4. QED
      BY <1>1, <2>3
  <1>3. QED
    BY <1>1, <1>2

\* The places of a finite order are taken without a gap.
LEMMA PlacesWithoutGap ==
    ASSUME NEW S, IsFiniteSet(S), NEW R, TotalOrder(S, R),
           NEW x \in S, NEW k \in Nat, k < Place(S, R, x)
    PROVE  \E y \in S : Place(S, R, y) = k
  <1> DEFINE P == Ahead(S, R, x)
             n == Place(S, R, x)
             f == [y \in P |-> Place(S, R, y)]
  <1>1. /\ IsFiniteSet(P) /\ n \in Nat /\ Cardinality(P) = n /\ P \subseteq S
        /\ \A y \in P : <<y, x>> \in R
    BY PlaceIncreases DEF Place, Ahead
  <1>2. ASSUME NEW y \in P PROVE Place(S, R, y) \in 0..n - 1
    <2>1. Place(S, R, y) \in Nat /\ Place(S, R, y) < n
      BY <1>1, PlaceIncreases
    <2>2. QED
      BY <1>1, <2>1
  <1>3. f \in [P -> 0..n - 1]
    BY <1>2
  <1>4. ASSUME NEW y \in P, NEW z \in P, f[y] = f[z] PROVE y = z
    <2>1. Place(S, R, y) = Place(S, R, z) /\ y \in S /\ z \in S
      BY <1>1, <1>4
    <2>2. ~(<<y, z>> \in R) /\ ~(<<z, y>> \in R)
      BY <2>1, PlaceIncreases
    <2>3. QED
      BY <2>1, <2>2 DEF TotalOrder
  <1>5. f \in Injection(P, 0..n - 1)
    BY <1>3, <1>4 DEF Injection, IsInjective
  <1>6. IsFiniteSet(0..n - 1) /\ Cardinality(0..n - 1) = n
    <2>1. PICK m \in Int : m = n - 1
      BY <1>1
    <2>2. IsFiniteSet(0..m) /\ Cardinality(0..m) = IF 0 > m THEN 0 ELSE m - 0 + 1
      BY FS_Interval
    <2>3. QED
      BY <1>1, <2>1, <2>2
  <1>7. f \in Surjection(P, 0..n - 1)
    BY <1>1, <1>5, <1>6, FS_Injection
  <1>8. k \in 0..n - 1
    BY <1>1
  <1>9. PICK y \in P : f[y] = k
    BY <1>7, <1>8 DEF Surjection
  <1>10. QED
    BY <1>1, <1>9

\* If an element has a place at or after the end of a window of places, the
\* window is full.
LEMMA WindowIsFull ==
    ASSUME NEW S, IsFiniteSet(S), NEW R, TotalOrder(S, R),
           NEW a \in Nat, NEW n \in Nat, NEW x \in S, a + n <= Place(S, R, x)
    PROVE  Cardinality({y \in S : Place(S, R, y) \in a..a + n - 1}) >= n
  <1> DEFINE W == {y \in S : Place(S, R, y) \in a..a + n - 1}
             f == [y \in W |-> Place(S, R, y)]
  <1>1. IsFiniteSet(W) /\ Cardinality(W) \in Nat
    BY FS_Subset, FS_CardinalityType
  <1>2. IsFiniteSet(a..a + n - 1) /\ Cardinality(a..a + n - 1) = n
    BY FS_Interval
  <1>3. Place(S, R, x) \in Nat
    BY PlaceIncreases
  <1>4. ASSUME NEW k \in a..a + n - 1 PROVE \E y \in W : f[y] = k
    <2>1. k \in Nat /\ k < Place(S, R, x)
      BY <1>3
    <2>2. PICK y \in S : Place(S, R, y) = k
      BY <2>1, PlacesWithoutGap
    <2>3. QED
      BY <2>2
  <1>5. f \in Surjection(W, a..a + n - 1)
    BY <1>4 DEF Surjection
  <1>6. QED
    BY <1>1, <1>2, <1>5, FS_Surjection

-----------------------------------------------------------------------------
(***************************************************************************)
(* The list at a moment: finite, totally ordered, with a time for each of  *)
(* its items.                                                              *)
(***************************************************************************)
RowRecords == [phone : Phones, created_at : Times]

\* created_at has no bound of its own, but the rows of a table have.
RowsOK ==
    /\ rows \in Seq(RowRecords)
    /\ \E n \in Nat : \A i \in DOMAIN rows : rows[i].created_at <= n

Asked ==
    /\ request.list \in {"messages", "numbers"}
    /\ request.list = "messages" => request.phone \in Phones
    /\ request.limit \in Limits

ListFacts ==
    /\ IsFiniteSet(Items)
    /\ Items \subseteq Nat
    /\ \A x \in Items : Time(x) \in Nat

LEMMA RowFacts ==
    ASSUME RowsOK
    PROVE  /\ IsFiniteSet(DOMAIN rows)
           /\ DOMAIN rows = 1..Len(rows) /\ Len(rows) \in Nat
           /\ \A i \in DOMAIN rows : rows[i].phone \in Nat /\ rows[i].created_at \in Nat
  <1>1. rows \in Seq(RowRecords)
    BY DEF RowsOK
  <1>2. DOMAIN rows = 1..Len(rows) /\ Len(rows) \in Nat
    BY <1>1
  <1>3. IsFiniteSet(1..Len(rows))
    BY <1>2, FS_Interval
  <1>4. \A i \in DOMAIN rows : rows[i] \in RowRecords
    BY <1>1
  <1>5. QED
    BY <1>2, <1>3, <1>4, PhonesAssumption, TimesAssumption DEF RowRecords

\* The time of a number is that of one of its messages, and no message of it is
\* later.
LatestOK(x) ==
    /\ LatestOf(x) \in Nat
    /\ \E i \in MessagesOf(x) : LatestOf(x) = rows[i].created_at
    /\ \A i \in MessagesOf(x) : rows[i].created_at <= LatestOf(x)

LEMMA LatestFacts ==
    ASSUME RowsOK, NEW x \in Numbers
    PROVE  LatestOK(x)
  <1> DEFINE T == {rows[i].created_at : i \in MessagesOf(x)}
  <1>1. PICK n \in Nat : \A i \in DOMAIN rows : rows[i].created_at <= n
    BY DEF RowsOK
  <1>2. T \in SUBSET (0..n)
    BY <1>1, RowFacts DEF MessagesOf
  <1>3. T # {}
    BY DEF Numbers, MessagesOf
  <1>4. Max(T) \in T /\ \A y \in T : Max(T) >= y
    BY <1>1, <1>2, <1>3, MaxOfBounded
  <1>5. LatestOf(x) = Max(T)
    BY DEF LatestOf
  <1> HIDE DEF T
  <1>6. LatestOf(x) \in T /\ \A y \in T : LatestOf(x) >= y
    BY <1>4, <1>5
  <1>7. QED
    <2>1. PICK i \in MessagesOf(x) : LatestOf(x) = rows[i].created_at
      BY <1>6 DEF T
    <2>2. \A j \in MessagesOf(x) : rows[j].created_at \in Nat /\ rows[j].created_at \in T
      BY RowFacts DEF MessagesOf, T
    <2>3. QED
      BY <1>6, <2>1, <2>2 DEF LatestOK

LEMMA LatestFactsNext == RowsOK' => (\A x \in Numbers : LatestOK(x))'
  <1>1. RowsOK => \A x \in Numbers : LatestOK(x)
    BY LatestFacts DEF LatestOK
  <1>2. QED
    BY <1>1, PTL

LEMMA ListIsFinite == RowsOK /\ Asked => ListFacts
  <1> SUFFICES ASSUME RowsOK, Asked PROVE ListFacts
    OBVIOUS
  <1>1. CASE request.list = "messages"
    <2>1. Items = MessagesOf(request.phone) /\ Items \in SUBSET DOMAIN rows
      BY <1>1 DEF Items, MessagesOf
    <2>2. IsFiniteSet(Items)
      BY <2>1, RowFacts, FS_Subset
    <2>3. Items \subseteq Nat
      BY <2>1, RowFacts
    <2>4. \A x \in Items : Time(x) \in Nat
      BY <1>1, <2>1, RowFacts DEF Time
    <2>5. QED
      BY <2>2, <2>3, <2>4 DEF ListFacts
  <1>2. CASE request.list = "numbers"
    <2> DEFINE f == [i \in DOMAIN rows |-> rows[i].phone]
    <2>1. Items = Numbers
      BY <1>2 DEF Items
    <2>2. f \in Surjection(DOMAIN rows, Numbers)
      BY DEF Surjection, Numbers
    <2>3. IsFiniteSet(Items)
      BY <2>1, <2>2, RowFacts, FS_Surjection
    <2>4. Items \subseteq Nat
      BY <2>1, RowFacts DEF Numbers
    <2>5. \A x \in Items : Time(x) \in Nat
      BY <1>2, <2>1, LatestFacts DEF Time, LatestOK
    <2>6. QED
      BY <2>3, <2>4, <2>5 DEF ListFacts
  <1>3. QED
    BY <1>1, <1>2 DEF Asked

LEMMA ListIsFiniteNext == (RowsOK /\ Asked)' => ListFacts'
  BY ListIsFinite, PTL

LEMMA PositionIsNumber == ListFacts => \A x \in Items : Position(x) \in Nat
  <1> SUFFICES ASSUME ListFacts, NEW x \in Items PROVE Position(x) \in Nat
    OBVIOUS
  <1>1. {y \in Items : Before(y, x)} \in SUBSET Items /\ IsFiniteSet(Items)
    BY DEF ListFacts
  <1>2. QED
    BY <1>1, FS_Subset, FS_CardinalityType DEF Position

LEMMA PositionIsNumberNext == ListFacts' => (\A x \in Items : Position(x) \in Nat)'
  BY PositionIsNumber, PTL

Order == {p \in Items \X Items : Before(p[1], p[2])}

LEMMA ListIsOrdered ==
    ASSUME ListFacts
    PROVE  /\ TotalOrder(Items, Order)
           /\ \A x \in Items : Position(x) = Place(Items, Order, x)
  <1>1. \A x \in Items : x \in Nat /\ Time(x) \in Nat
    BY DEF ListFacts
  <1>2. \A x, y \in Items : <<x, y>> \in Order <=> Before(x, y)
    BY DEF Order
  <1>3. \A x \in Items : ~Before(x, x)
    BY <1>1 DEF Before
  <1>4. \A x, y, z \in Items : Before(x, y) /\ Before(y, z) => Before(x, z)
    BY <1>1 DEF Before
  <1>5. \A x, y \in Items : x = y \/ Before(x, y) \/ Before(y, x)
    BY <1>1 DEF Before
  <1>6. TotalOrder(Items, Order)
    BY <1>2, <1>3, <1>4, <1>5 DEF TotalOrder
  <1>7. ASSUME NEW x \in Items PROVE Position(x) = Place(Items, Order, x)
    <2>1. {y \in Items : Before(y, x)} = Ahead(Items, Order, x)
      BY <1>2 DEF Ahead
    <2>2. QED
      BY <2>1 DEF Position, Place
  <1>8. QED
    BY <1>6, <1>7

-----------------------------------------------------------------------------
(***************************************************************************)
(* A message that is stored moves no item of the list to the front, but    *)
(* for its own number in the list of numbers.                              *)
(***************************************************************************)
Stored(phone, created_at) ==
    /\ rows' = Append(rows, [phone |-> phone, created_at |-> created_at])
    /\ request' = request

\* The lists for which this holds: of messages in either order, of numbers with
\* the newest first.
Guarded == request.list = "messages" \/ ~request.reverse

LEMMA StoredRows ==
    ASSUME RowsOK, NEW phone \in Phones, NEW created_at \in Times, Stored(phone, created_at)
    PROVE  /\ RowsOK'
           /\ DOMAIN rows' = DOMAIN rows \cup {Len(rows) + 1} /\ Len(rows) + 1 \notin DOMAIN rows
           /\ \A i \in DOMAIN rows : rows'[i] = rows[i]
           /\ rows'[Len(rows) + 1].phone = phone
           /\ rows'[Len(rows) + 1].created_at = created_at
  <1> DEFINE r == [phone |-> phone, created_at |-> created_at]
  <1>1. r \in RowRecords /\ r.phone = phone /\ r.created_at = created_at
    BY DEF RowRecords
  <1> HIDE DEF r
  <1>2. rows' = Append(rows, r) /\ rows \in Seq(RowRecords)
    BY DEF Stored, RowsOK, r
  <1>3. /\ rows' \in Seq(RowRecords) /\ Len(rows') = Len(rows) + 1 /\ Len(rows) \in Nat
        /\ DOMAIN rows = 1..Len(rows) /\ DOMAIN rows' = 1..Len(rows) + 1
        /\ \A i \in 1..Len(rows) : rows'[i] = rows[i]
        /\ rows'[Len(rows) + 1] = r
    BY <1>1, <1>2
  <1>4. DOMAIN rows' = DOMAIN rows \cup {Len(rows) + 1} /\ Len(rows) + 1 \notin DOMAIN rows
    BY <1>3
  <1>5. PICK n \in Nat : \A i \in DOMAIN rows : rows[i].created_at <= n
    BY DEF RowsOK
  <1>6. PICK m \in Nat : m = IF n < created_at THEN created_at ELSE n
    BY TimesAssumption
  <1>7. \A i \in DOMAIN rows' : rows'[i].created_at <= m
    <2>1. created_at \in Nat /\ \A i \in DOMAIN rows : rows[i].created_at \in Nat
      BY RowFacts, TimesAssumption
    <2>2. QED
      BY <1>1, <1>3, <1>4, <1>5, <1>6, <2>1
  <1>8. RowsOK'
    BY <1>3, <1>7 DEF RowsOK
  <1>9. QED
    BY <1>1, <1>3, <1>4, <1>8

\* A list that keeps its items and their order among themselves, and gains others,
\* moves none to the front.
LEMMA FurtherBack ==
    ASSUME IsFiniteSet(Items'), Items \subseteq Items', NEW x \in Items,
           \A y \in Items : Before(y, x) => Before(y, x)'
    PROVE  Position(x) <= Position(x)'
  <1> DEFINE A == {y \in Items : Before(y, x)}
             B == {y \in Items' : Before(y, x)'}
  <1>1. A \in SUBSET B /\ B \in SUBSET Items'
    OBVIOUS
  <1>2. IsFiniteSet(B)
    BY <1>1, FS_Subset
  <1>3. Cardinality(A) <= Cardinality(B)
    BY <1>1, <1>2, FS_Subset
  <1>4. Position(x) = Cardinality(A) /\ Position(x)' = Cardinality(B)
    BY DEF Position
  <1>5. QED
    BY <1>3, <1>4

LEMMA StoredList ==
    ASSUME RowsOK, Asked, NEW phone \in Phones, NEW created_at \in Times,
           Stored(phone, created_at)
    PROVE  /\ Items \subseteq Items'
           /\ Guarded => \A x \in Items : \/ request.list = "numbers" /\ x = phone
                                          \/ Position(x) <= Position(x)'
  <1>1. /\ RowsOK' /\ request' = request /\ Asked'
        /\ DOMAIN rows \subseteq DOMAIN rows'
        /\ \A i \in DOMAIN rows : rows'[i] = rows[i]
        /\ \A i \in DOMAIN rows' : i \in DOMAIN rows \/ rows'[i].phone = phone
    BY StoredRows DEF Stored, Asked
  <1>2. ListFacts /\ ListFacts'
    BY <1>1, ListIsFinite, ListIsFiniteNext
  <1>3. CASE request.list = "messages"
    <2>1. Items \subseteq Items' /\ \A x \in Items : x \in DOMAIN rows
      BY <1>1, <1>3 DEF Items, MessagesOf
    <2>2. \A x \in Items : Time(x)' = Time(x)
      BY <1>1, <1>3, <2>1 DEF Time
    <2>3. \A x, y \in Items : Before(y, x) => Before(y, x)'
      BY <1>1, <2>2 DEF Before
    <2>4. \A x \in Items : Position(x) <= Position(x)'
      BY <1>2, <2>1, <2>3, FurtherBack DEF ListFacts
    <2>5. QED
      BY <2>1, <2>4
  <1>4. CASE request.list = "numbers"
    <2>1. Items = Numbers /\ Items' = Numbers'
      BY <1>1, <1>4 DEF Items
    <2>2. Numbers \subseteq Numbers'
      BY <1>1 DEF Numbers
    <2>3. ASSUME NEW x \in Numbers
          PROVE  LatestOf(x) \in Nat /\ LatestOf(x)' \in Nat /\ LatestOf(x) <= LatestOf(x)'
      <3>1. PICK i \in MessagesOf(x) : LatestOf(x) = rows[i].created_at
        BY LatestFacts DEF LatestOK
      <3>2. i \in MessagesOf(x)' /\ rows'[i] = rows[i]
        BY <1>1 DEF MessagesOf
      <3>3. /\ LatestOf(x)' \in Nat
            /\ \A j \in MessagesOf(x)' : rows'[j].created_at <= LatestOf(x)'
        BY <1>1, <2>2, LatestFactsNext DEF LatestOK
      <3>4. QED
        BY <3>1, <3>2, <3>3, LatestFacts DEF LatestOK
    <2>4. ASSUME NEW x \in Numbers, x # phone PROVE LatestOf(x)' = LatestOf(x)
      <3>1. MessagesOf(x)' = MessagesOf(x)
        BY <1>1, <2>4 DEF MessagesOf
      <3>2. \A i \in MessagesOf(x) : rows'[i] = rows[i]
        BY <1>1 DEF MessagesOf
      <3>3. {rows'[i].created_at : i \in MessagesOf(x)'}
            = {rows[i].created_at : i \in MessagesOf(x)}
        BY <3>1, <3>2
      <3>4. QED
        BY <3>3 DEF LatestOf
    <2>5. ASSUME ~request.reverse, NEW x \in Items, x # phone
          PROVE  Position(x) <= Position(x)'
      <3>1. ASSUME NEW y \in Items, Before(y, x) PROVE Before(y, x)'
        <4>1. Time(x)' = Time(x) /\ Time(x) = LatestOf(x) /\ Time(x) \in Nat
          BY <1>1, <1>4, <2>1, <2>3, <2>4, <2>5 DEF Time
        <4>2. Time(y) <= Time(y)' /\ Time(y) \in Nat /\ Time(y)' \in Nat
          BY <1>1, <1>4, <2>1, <2>3 DEF Time
        <4>3. \/ Time(y) > Time(x)
              \/ Time(y) = Time(x) /\ IF request.ties THEN y < x ELSE y > x
          BY <2>5, <3>1 DEF Before
        <4>4. \/ Time(y)' > Time(x)'
              \/ Time(y)' = Time(x)' /\ IF request.ties THEN y < x ELSE y > x
          BY <4>1, <4>2, <4>3
        <4>5. QED
          BY <1>1, <2>5, <4>4 DEF Before
      <3>2. QED
        BY <1>2, <2>1, <2>2, <3>1, FurtherBack DEF ListFacts
    <2>6. QED
      BY <1>4, <2>1, <2>2, <2>5 DEF Guarded
  <1>5. QED
    BY <1>3, <1>4 DEF Asked

-----------------------------------------------------------------------------
(***************************************************************************)
(* The client.                                                             *)
(***************************************************************************)
\* What a page read, or a number it may miss.
Covered(x) == x \in got \/ (request.list = "numbers" /\ x \in active)

\* Everything the list began with is on the pages read, or has moved to the
\* front, or lies behind those pages.
PagesInv ==
    /\ RowsOK /\ Asked
    /\ page \in Nat
    /\ pc \in {"idle", "reading", "done", "failed"}
    /\ begun \subseteq Items
    /\ pc = "idle" => page = 0 /\ begun = {}
    /\ Guarded /\ pc = "reading" =>
           \A x \in begun : Covered(x) \/ request.limit * page <= Position(x)
    /\ Guarded /\ pc = "done" => \A x \in begun : Covered(x)

LEMMA PagesInit == Init => PagesInv
  <1> SUFFICES ASSUME Init PROVE PagesInv
    OBVIOUS
  <1>1. RowsOK
    BY DEF Init, RowsOK
  <1>2. Asked
    BY DEF Init, Requests, Asked
  <1>3. QED
    BY <1>1, <1>2 DEF Init, PagesInv

LEMMA InsertKeepsPages ==
    ASSUME PagesInv, NEW phone \in Phones, NEW created_at \in Times,
           InsertMessage(phone, created_at)
    PROVE  PagesInv'
  <1>1. /\ Stored(phone, created_at) /\ request' = request
        /\ page' = page /\ got' = got /\ begun' = begun /\ pc' = pc
        /\ active \subseteq active' /\ (pc = "reading" => phone \in active')
    BY DEF InsertMessage, Stored
  <1>2. RowsOK' /\ Asked'
    BY <1>1, StoredRows DEF PagesInv, Asked
  <1>3. /\ Items \subseteq Items'
        /\ Guarded => \A x \in Items : \/ request.list = "numbers" /\ x = phone
                                       \/ Position(x) <= Position(x)'
    BY <1>1, StoredList DEF PagesInv
  <1>4. \A x : Covered(x) => Covered(x)'
    BY <1>1 DEF Covered
  <1>5. ASSUME Guarded', pc' = "reading", NEW x \in begun'
        PROVE  Covered(x)' \/ request'.limit * page' <= Position(x)'
    <2>1. Guarded /\ pc = "reading" /\ x \in begun /\ x \in Items
      BY <1>1, <1>5 DEF Guarded, PagesInv
    <2>2. CASE Covered(x)
      BY <1>4, <2>2
    <2>3. CASE request.list = "numbers" /\ x = phone
      BY <1>1, <2>1, <2>3 DEF Covered
    <2>4. CASE request.limit * page <= Position(x) /\ Position(x) <= Position(x)'
      <3>1. request.limit \in Nat /\ page \in Nat
        BY LimitsAssumption DEF PagesInv, Asked
      <3>2. request.limit * page \in Nat
        BY <3>1
      <3>3. ListFacts /\ ListFacts' /\ x \in Items'
        BY <1>2, <1>3, <2>1, ListIsFinite, ListIsFiniteNext DEF PagesInv
      <3>4. Position(x) \in Nat /\ Position(x)' \in Nat
        BY <3>3, <2>1, PositionIsNumber, PositionIsNumberNext
      <3>5. request.limit * page <= Position(x)'
        BY <2>4, <3>2, <3>4
      <3>6. QED
        BY <1>1, <3>5
    <2>5. QED
      BY <1>3, <2>1, <2>2, <2>3, <2>4 DEF PagesInv
  <1>6. ASSUME Guarded', pc' = "done", NEW x \in begun' PROVE Covered(x)'
    BY <1>1, <1>4, <1>6 DEF Guarded, PagesInv
  <1>7. /\ page' \in Nat /\ pc' \in {"idle", "reading", "done", "failed"}
        /\ begun' \subseteq Items'
        /\ pc' = "idle" => page' = 0 /\ begun' = {}
    BY <1>1, <1>3 DEF PagesInv
  <1>8. QED
    BY <1>2, <1>5, <1>6, <1>7 DEF PagesInv

LEMMA BeginKeepsPages == PagesInv /\ Begin => PagesInv'
  <1> SUFFICES ASSUME PagesInv, Begin PROVE PagesInv'
    OBVIOUS
  <1>1. /\ rows' = rows /\ request' = request /\ page' = page /\ got' = got
        /\ active' = active /\ begun' = Items /\ pc = "idle" /\ pc' = "reading"
    BY DEF Begin
  <1>2. RowsOK' /\ Asked' /\ Items' = Items
    BY <1>1 DEF PagesInv, RowsOK, Asked, Items, MessagesOf, Numbers
  <1>3. page' = 0 /\ page' \in Nat
    BY <1>1 DEF PagesInv
  <1>4. request'.limit * page' = 0
    <2>1. \A n \in Nat : n * 0 = 0
      BY NumberTimes
    <2>2. request'.limit \in Nat
      BY <1>2, LimitsAssumption DEF Asked
    <2>3. QED
      BY <1>3, <2>1, <2>2
  <1>5. \A x \in begun' : 0 <= Position(x)'
    BY <1>1, <1>2, ListIsFiniteNext, PositionIsNumberNext
  <1>6. QED
    BY <1>1, <1>2, <1>3, <1>4, <1>5 DEF PagesInv

\* A page that is not full is the last one, and the one behind it begins where
\* it ends.
LEMMA PageHolds ==
    ASSUME ListFacts, NEW a \in Nat, NEW n \in Nat, NEW x \in Items, a <= Position(x)
    PROVE  \/ x \in Page(n, a)
           \/ a + n <= Position(x) /\ ~(n > Cardinality(Page(n, a)))
  <1>1. IsFiniteSet(Items) /\ Position(x) \in Nat
    BY PositionIsNumber DEF ListFacts
  <1>2. TotalOrder(Items, Order) /\ \A y \in Items : Position(y) = Place(Items, Order, y)
    BY ListIsOrdered
  <1>3. CASE Position(x) < a + n
    <2>1. Position(x) \in a..a + n - 1
      BY <1>1, <1>3
    <2>2. QED
      BY <2>1 DEF Page
  <1>4. CASE a + n <= Position(x)
    <2>1. Page(n, a) = {y \in Items : Place(Items, Order, y) \in a..a + n - 1}
      BY <1>2 DEF Page
    <2>2. Cardinality(Page(n, a)) >= n
      BY <1>1, <1>2, <1>4, <2>1, WindowIsFull
    <2>3. Page(n, a) \in SUBSET Items
      BY DEF Page
    <2>4. Cardinality(Page(n, a)) \in Nat
      BY <1>1, <2>3, FS_Subset, FS_CardinalityType
    <2>5. QED
      BY <1>4, <2>2, <2>4
  <1>5. QED
    BY <1>1, <1>3, <1>4

LEMMA ReadPageKeepsPages == PagesInv /\ ReadPage => PagesInv'
  <1> SUFFICES ASSUME PagesInv, ReadPage PROVE PagesInv'
    OBVIOUS
  <1> DEFINE n == request.limit
             a == n * page
  <1>1. /\ rows' = rows /\ request' = request /\ begun' = begun /\ active' = active
        /\ page' = page + 1 /\ pc = "reading"
        /\ got' = got \cup Page(n, a)
        /\ pc' = IF n > Cardinality(Page(n, a)) THEN "done" ELSE "reading"
    BY DEF ReadPage
  <1>2. /\ RowsOK' /\ Asked' /\ Items' = Items /\ Guarded' = Guarded
        /\ \A x : Position(x)' = Position(x)
    BY <1>1 DEF PagesInv, RowsOK, Asked, Items, MessagesOf, Numbers, Guarded, Position, Before,
                Time, LatestOf
  <1>3. n \in Nat /\ page \in Nat /\ ListFacts
    BY LimitsAssumption, ListIsFinite DEF PagesInv, Asked
  <1>4. a \in Nat /\ n * (page + 1) = a + n
    BY <1>3, NumberTimes
  <1> HIDE DEF a
  <1>5. ASSUME Guarded, NEW x \in begun
        PROVE  \/ Covered(x)'
               \/ a + n <= Position(x) /\ ~(n > Cardinality(Page(n, a)))
    <2>1. Covered(x) \/ a <= Position(x)
      BY <1>1, <1>5 DEF PagesInv, a
    <2>2. CASE Covered(x)
      BY <1>1, <2>2 DEF Covered
    <2>3. CASE a <= Position(x)
      <3>1. x \in Items
        BY <1>5 DEF PagesInv
      <3>2. \/ x \in Page(n, a)
            \/ a + n <= Position(x) /\ ~(n > Cardinality(Page(n, a)))
        BY <1>3, <1>4, <2>3, <3>1, PageHolds
      <3>3. QED
        BY <1>1, <3>2 DEF Covered
    <2>4. QED
      BY <2>1, <2>2, <2>3
  <1>6. Guarded' /\ pc' = "reading" =>
            \A x \in begun' : Covered(x)' \/ request'.limit * page' <= Position(x)'
    BY <1>1, <1>2, <1>4, <1>5
  <1>7. Guarded' /\ pc' = "done" => \A x \in begun' : Covered(x)'
    BY <1>1, <1>2, <1>5
  <1>8. /\ page' \in Nat /\ pc' \in {"reading", "done"} /\ begun' \subseteq Items'
    BY <1>1, <1>2, <1>3 DEF PagesInv
  <1>9. QED
    BY <1>2, <1>6, <1>7, <1>8 DEF PagesInv

LEMMA PagesStutter ==
    ASSUME PagesInv, UNCHANGED <<rows, request, page, got, begun, active>>,
           pc' \in {pc, "failed"}
    PROVE  PagesInv'
  <1>1. /\ RowsOK' /\ Asked' /\ Items' = Items /\ Guarded' = Guarded
        /\ \A x : Position(x)' = Position(x) /\ Covered(x)' = Covered(x)
    BY DEF PagesInv, RowsOK, Asked, Items, MessagesOf, Numbers, Guarded, Position, Before, Time,
           LatestOf, Covered
  <1>2. QED
    BY <1>1 DEF PagesInv

LEMMA PagesInvariant == Spec => []PagesInv
  <1>1. ASSUME PagesInv, [Next]_vars PROVE PagesInv'
    <2>1. ASSUME NEW phone \in Phones, NEW created_at \in Times, InsertMessage(phone, created_at)
          PROVE  PagesInv'
      BY <1>1, <2>1, InsertKeepsPages
    <2>2. CASE Begin
      BY <1>1, <2>2, BeginKeepsPages
    <2>3. CASE ReadPage
      BY <1>1, <2>3, ReadPageKeepsPages
    <2>4. CASE ReadFails
      BY <1>1, <2>4, PagesStutter DEF ReadFails
    <2>5. CASE UNCHANGED vars
      BY <1>1, <2>5, PagesStutter DEF vars, client
    <2>6. QED
      BY <1>1, <2>1, <2>2, <2>3, <2>4, <2>5 DEF Next
  <1>2. QED
    BY <1>1, PagesInit, PTL DEF Spec

\* The loop of docs/http.md:66 gets every message of its number that was stored
\* when it began, in either order, for every page size and whatever is stored
\* meanwhile with whatever time.
THEOREM NoMessageIsMissed == Spec => []NoMessageMissed
  <1>1. PagesInv => NoMessageMissed
    BY DEF PagesInv, NoMessageMissed, Guarded, Covered
  <1>2. QED
    BY <1>1, PagesInvariant, PTL

\* The same loop over the latest numbers, newest first, misses only numbers that
\* a message was stored for since it began.
THEOREM MissesActiveNumbersOnly == Spec => []OnlyActiveNumbersMissed
  <1>1. PagesInv => OnlyActiveNumbersMissed
    BY DEF PagesInv, OnlyActiveNumbersMissed, Guarded, Covered
  <1>2. QED
    BY <1>1, PagesInvariant, PTL
=============================================================================
