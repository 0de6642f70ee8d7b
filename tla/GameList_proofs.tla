--------------------------- MODULE GameList_proofs ---------------------------
(***************************************************************************)
(* Machine-checked proofs about a walk through the pages of GET /game, for *)
(* any number of rows, changes and limits, and any width of the integers.  *)
(* The inductive invariant is GameListInv of module GameList.              *)
(***************************************************************************)
EXTENDS GameList, FiniteSetTheorems, WellFoundedInduction, TLAPS

(***************************************************************************)
(* A set of numbers that is not empty has a least one; with a bound it has *)
(* a greatest one.                                                         *)
(***************************************************************************)
LEMMA LeastNumber ==
  ASSUME NEW S, S \subseteq Nat, S # {}
  PROVE  \E x \in S : \A y \in S : x <= y
<1> DEFINE Below(x) == 0 .. x
           Belows == {Below(x) : x \in S}
<1>1. Belows \subseteq FiniteSubsetsOf(Nat)
  <2>1. ASSUME NEW x \in S
        PROVE  Below(x) \subseteq Nat /\ IsFiniteSet(Below(x))
    BY FS_Interval
  <2>2. QED
    BY <2>1 DEF FiniteSubsetsOf
<1>2. Belows # {}
  OBVIOUS
<1>3. PICK least \in Belows : \A b \in Belows : <<b, least>> \notin StrictSubsetOrdering(Nat)
  <2> HIDE DEF Belows
  <2>1. QED
    BY <1>1, <1>2, WFMin, FS_StrictSubsetOrderingWellFounded
<1>4. PICK x \in S : least = Below(x)
  OBVIOUS
<1>5. ASSUME NEW y \in S, y < x
      PROVE  FALSE
  <2>1. Below(y) \subseteq Below(x) /\ Below(y) # Below(x)
    <3>1. Below(y) \subseteq Below(x)
      BY <1>5
    <3>2. x \in Below(x) /\ x \notin Below(y)
      BY <1>5
    <3>3. QED
      BY <3>1, <3>2
  <2>2. <<Below(y), Below(x)>> \in StrictSubsetOrdering(Nat)
    BY <2>1 DEF StrictSubsetOrdering
  <2>3. QED
    BY <1>3, <1>4, <2>2
<1>6. QED
  BY <1>5

LEMMA GreatestNumber ==
  ASSUME NEW n \in Nat, NEW S, S \subseteq 0 .. n, S # {}
  PROVE  \E x \in S : \A y \in S : y <= x
<1> DEFINE T == {n - x : x \in S}
<1>1. T \subseteq Nat /\ T # {}
  OBVIOUS
<1>2. PICK t \in T : \A u \in T : t <= u
  <2> HIDE DEF T
  <2>1. QED
    BY <1>1, LeastNumber
<1>3. PICK x \in S : t = n - x
  OBVIOUS
<1>4. \A y \in S : n - x <= n - y
  BY <1>2, <1>3
<1>5. QED
  BY <1>4

LEMMA OneMore ==
  ASSUME NEW S, NEW T, IsFiniteSet(T), \A x, y \in S \ T : x = y
  PROVE  IsFiniteSet(S) /\ Cardinality(S) <= Cardinality(T) + 1
<1>1. CASE S \subseteq T
  BY <1>1, FS_Subset, FS_CardinalityType
<1>2. CASE \E x \in S : x \notin T
  <2>1. PICK x \in S : x \notin T
    BY <1>2
  <2>2. S \subseteq T \cup {x}
    BY <2>1
  <2>3. /\ IsFiniteSet(T \cup {x})
        /\ Cardinality(T \cup {x}) = Cardinality(T) + 1
    BY <2>1, FS_AddElement
  <2>4. QED
    BY <2>2, <2>3, FS_Subset
<1>3. QED
  BY <1>1, <1>2
-----------------------------------------------------------------------------
(***************************************************************************)
(* The rank of a row among a set of rows (ORDER BY id DESC).               *)
(***************************************************************************)
Before(V, id) == {other \in V : other > id}
RankIn(V, id) == Cardinality(Before(V, id))

LEMMA RankIs == \A id : Rank(id) = RankIn(visible, id)
BY DEF Rank, RankIn, Before

LEMMA IdsAreFinite ==
  ASSUME NEW V, V \subseteq Id
  PROVE  IsFiniteSet(V) /\ Cardinality(V) \in 0 .. MaxId
<1>1. IsFiniteSet(Id) /\ Cardinality(Id) = MaxId
  <2>1. IsFiniteSet(1 .. MaxId)
        /\ Cardinality(1 .. MaxId) = IF 1 > MaxId THEN 0 ELSE MaxId - 1 + 1
    BY FS_Interval, GameListAssumption
  <2>2. QED
    BY <2>1, GameListAssumption DEF Id
<1>2. IsFiniteSet(V) /\ Cardinality(V) <= MaxId /\ Cardinality(V) \in Nat
  BY <1>1, FS_Subset, FS_CardinalityType
<1>3. QED
  BY <1>2, GameListAssumption

LEMMA RankType ==
  ASSUME NEW V, V \subseteq Id, NEW id \in Id
  PROVE  /\ Before(V, id) \subseteq V /\ IsFiniteSet(Before(V, id))
         /\ RankIn(V, id) \in Nat
         /\ id \in V => RankIn(V, id) < Cardinality(V)
<1>1. Before(V, id) \subseteq V /\ id \notin Before(V, id)
  BY GameListAssumption DEF Before, Id
<1>2. IsFiniteSet(V) /\ Cardinality(V) \in Nat
  BY IdsAreFinite
<1>3. IsFiniteSet(Before(V, id)) /\ Cardinality(Before(V, id)) \in Nat
  BY <1>1, IdsAreFinite
<1>4. ASSUME id \in V
      PROVE  RankIn(V, id) < Cardinality(V)
  <2>1. Cardinality(Before(V, id)) <= Cardinality(V) /\ Before(V, id) # V
    BY <1>1, <1>2, <1>4, FS_Subset
  <2>2. QED
    BY <1>1, <1>2, <1>3, <2>1, FS_Subset DEF RankIn
<1>5. QED
  BY <1>1, <1>3, <1>4 DEF RankIn

\* Ranks fall as ids grow, strictly between two rows of the set.
LEMMA RanksFall ==
  ASSUME NEW V, V \subseteq Id, NEW x \in V, NEW y \in Id, y < x
  PROVE  RankIn(V, x) < RankIn(V, y)
<1>1. x \in Id
  OBVIOUS
<1>2. /\ Before(V, x) \subseteq Before(V, y)
      /\ x \in Before(V, y) /\ x \notin Before(V, x)
  <2>1. Id \subseteq Int
    BY GameListAssumption DEF Id
  <2>2. \A z \in V : z > x => z > y
    BY <1>1, <2>1
  <2>3. x > y /\ ~(x > x)
    BY <1>1, <2>1
  <2>4. Before(V, x) \subseteq Before(V, y)
    BY <2>2 DEF Before
  <2>5. QED
    BY <2>3, <2>4 DEF Before
<1>3. /\ IsFiniteSet(Before(V, x)) /\ Cardinality(Before(V, x)) \in Nat
      /\ IsFiniteSet(Before(V, y)) /\ Cardinality(Before(V, y)) \in Nat
  BY <1>1, RankType DEF RankIn
<1>4. /\ Cardinality(Before(V, x)) <= Cardinality(Before(V, y))
      /\ Cardinality(Before(V, x)) # Cardinality(Before(V, y))
  BY <1>2, <1>3, FS_Subset
<1>5. QED
  BY <1>3, <1>4 DEF RankIn

LEMMA RanksDiffer ==
  ASSUME NEW V, V \subseteq Id, NEW x \in V, NEW y \in V, RankIn(V, x) = RankIn(V, y)
  PROVE  x = y
<1>1. x \in Int /\ y \in Int
  BY GameListAssumption DEF Id
<1>2. x < y => RankIn(V, y) < RankIn(V, x)
  BY RanksFall
<1>3. y < x => RankIn(V, x) < RankIn(V, y)
  BY RanksFall
<1>4. RankIn(V, x) \in Nat
  BY RankType
<1>5. QED
  BY <1>1, <1>2, <1>3, <1>4

\* A rank that is less than the number of rows is that of a row.
LEMMA RanksHaveNoGap ==
  ASSUME NEW V, V \subseteq Id, NEW o \in Nat, o < Cardinality(V)
  PROVE  \E id \in V : RankIn(V, id) = o
<1> DEFINE A == {id \in V : RankIn(V, id) >= o}
           B == {id \in V : RankIn(V, id) < o}
<1>1. /\ A \subseteq V /\ B \subseteq V
      /\ \A id \in V : RankIn(V, id) \in Nat
      /\ V \subseteq 0 .. MaxId /\ V \subseteq Nat
  <2>1. \A id \in V : RankIn(V, id) \in Nat
    BY RankType
  <2>2. V \subseteq 0 .. MaxId /\ V \subseteq Nat
    BY GameListAssumption DEF Id
  <2>3. QED
    BY <2>1, <2>2
<1>2. IsFiniteSet(B) /\ Cardinality(B) \in Nat
  <2>1. B \subseteq Id
    OBVIOUS
  <2> HIDE DEF B
  <2>2. QED
    BY <2>1, IdsAreFinite
<1>3. Cardinality(B) <= o
  <2>1. CASE B = {}
    BY <2>1, FS_EmptySet
  <2>2. CASE B # {}
    <3>1. PICK b \in B : \A x \in B : b <= x
      <4>1. B \subseteq Nat
        BY <1>1
      <4> HIDE DEF B
      <4>2. QED
        BY <2>2, <4>1, LeastNumber
    <3>2. B \ {b} \subseteq Before(V, b)
      <4>1. ASSUME NEW x \in B, x # b
            PROVE  x \in V /\ x > b
        <5>1. x \in Nat /\ b \in Nat /\ b <= x
          BY <1>1, <3>1
        <5>2. QED
          BY <4>1, <5>1
      <4>2. QED
        BY <4>1 DEF Before
    <3>3. Cardinality(B \ {b}) = Cardinality(B) - 1
      <4> HIDE DEF B
      <4>1. QED
        BY <1>2, <3>1, FS_RemoveElement
    <3>4. IsFiniteSet(Before(V, b)) /\ RankIn(V, b) < o /\ RankIn(V, b) \in Nat
      <4>1. b \in Id /\ RankIn(V, b) < o
        OBVIOUS
      <4>2. QED
        BY <4>1, RankType
    <3>5. Cardinality(B \ {b}) <= RankIn(V, b)
      <4> HIDE DEF B
      <4>1. QED
        BY <3>2, <3>4, FS_Subset DEF RankIn
    <3>6. QED
      <4> HIDE DEF B
      <4>1. QED
        BY <1>2, <3>3, <3>4, <3>5
  <2>3. QED
    BY <2>1, <2>2
<1>4. A # {}
  <2>1. SUFFICES ASSUME A = {}
                 PROVE  FALSE
    OBVIOUS
  <2>2. V = B
    <3>1. \A id \in V : RankIn(V, id) < o
      BY <1>1, <2>1
    <3>2. QED
      BY <3>1
  <2>3. QED
    <3> HIDE DEF A, B
    <3>1. QED
      BY <1>2, <1>3, <2>2
<1>5. PICK a \in A : \A x \in A : x <= a
  <2>1. A \subseteq 0 .. MaxId
    BY <1>1
  <2> HIDE DEF A
  <2>2. QED
    BY <1>4, <2>1, GreatestNumber, GameListAssumption
<1>6. Before(V, a) \subseteq B
  <2>1. ASSUME NEW x \in V, x > a
        PROVE  RankIn(V, x) < o
    <3>1. x \in Nat /\ a \in Nat /\ RankIn(V, x) \in Nat
      BY <1>1
    <3>2. x \notin A
      BY <1>5, <2>1, <3>1
    <3>3. QED
      BY <3>1, <3>2
  <2>2. QED
    BY <2>1 DEF Before
<1>7. RankIn(V, a) <= Cardinality(B)
  <2> HIDE DEF B
  <2>1. QED
    BY <1>2, <1>6, FS_Subset DEF RankIn
<1>8. a \in V /\ RankIn(V, a) >= o /\ RankIn(V, a) \in Nat
  BY <1>1
<1>9. QED
  <2> HIDE DEF A, B
  <2>1. QED
    BY <1>2, <1>3, <1>7, <1>8

\* A row that disappears moves those after it up by one.
LEMMA RankAfterRemoval ==
  ASSUME NEW V, V \subseteq Id, NEW x \in V, NEW id \in Id
  PROVE  RankIn(V \ {x}, id) = IF id < x THEN RankIn(V, id) - 1 ELSE RankIn(V, id)
<1>1. Before(V \ {x}, id) = Before(V, id) \ {x} /\ (x \in Before(V, id) <=> id < x)
  BY GameListAssumption DEF Before, Id
<1>2. IsFiniteSet(Before(V, id))
  BY RankType
<1>3. QED
  BY <1>1, <1>2, FS_RemoveElement DEF RankIn

\* One that appears moves those after it down by one.
LEMMA RankAfterAddition ==
  ASSUME NEW V, V \subseteq Id, NEW x \in Id, x \notin V, NEW id \in Id
  PROVE  RankIn(V \cup {x}, id) = IF id < x THEN RankIn(V, id) + 1 ELSE RankIn(V, id)
<1>1. /\ Before(V \cup {x}, id) = IF id < x THEN Before(V, id) \cup {x} ELSE Before(V, id)
      /\ x \notin Before(V, id)
  BY GameListAssumption DEF Before, Id
<1>2. IsFiniteSet(Before(V, id))
  BY RankType
<1>3. QED
  BY <1>1, <1>2, FS_AddElement DEF RankIn
-----------------------------------------------------------------------------
(***************************************************************************)
(* The limits and the offset: neither the 32 bits of page and size nor     *)
(* those of page - 1 overflow within the limits.                           *)
(***************************************************************************)
LEMMA LimitsAre ==
  ASSUME ~NewFails(ConfigMaxP, ConfigMaxS)
  PROVE  MaxP \in 1 .. MaxInt32 /\ MaxS \in 1 .. MaxInt32
BY GameListAssumption DEF NewFails, MaxP, MaxS, OrDefault

LEMMA OffsetIs ==
  ASSUME ~NewFails(ConfigMaxP, ConfigMaxS), NEW p \in 1 .. MaxP + 1, NEW s \in 1 .. MaxS
  PROVE  /\ Offset(p, s) = (p - 1) * s
         /\ (p - 1) * s \in Nat /\ (p - 1) * s <= MaxP * MaxS
<1>1. /\ MaxP \in 1 .. MaxInt32 /\ MaxS \in 1 .. MaxInt32 /\ MaxInt32 \in Nat
      /\ p - 1 \in 0 .. MaxP
  BY LimitsAre, GameListAssumption
<1>2. Int32(p - 1) = p - 1
  <2>1. ASSUME NEW a \in Nat, NEW k \in Nat, a < k
        PROVE  a % k = a
    BY <2>1
  <2>2. /\ (p - 1) + MaxInt32 + 1 \in Nat /\ 2 * (MaxInt32 + 1) \in Nat
        /\ (p - 1) + MaxInt32 + 1 < 2 * (MaxInt32 + 1)
    BY <1>1
  <2>3. ((p - 1) + MaxInt32 + 1) % (2 * (MaxInt32 + 1)) = (p - 1) + MaxInt32 + 1
    BY <2>1, <2>2
  <2>4. QED
    BY <1>1, <2>3 DEF Int32
<1>3. ASSUME NEW a \in Nat, NEW b \in Nat, NEW c \in Nat, NEW d \in Nat, a <= c, b <= d
      PROVE  a * b \in Nat /\ a * b <= c * d
  <2>1. a * b <= c * b
    BY <1>3
  <2>2. c * b <= c * d
    BY <1>3
  <2>3. a * b \in Nat /\ c * b \in Nat /\ c * d \in Nat
    OBVIOUS
  <2>4. QED
    BY <2>1, <2>2, <2>3
<1>4. (p - 1) * s \in Nat /\ (p - 1) * s <= MaxP * MaxS
  <2>1. p - 1 \in Nat /\ s \in Nat /\ MaxP \in Nat /\ MaxS \in Nat /\ p - 1 <= MaxP /\ s <= MaxS
    BY <1>1
  <2>2. QED
    BY <1>3, <2>1
<1>5. QED
  BY <1>2, <1>4 DEF Offset
-----------------------------------------------------------------------------
(***************************************************************************)
(* The rows a walk has missed and those it will repeat, when it is to read *)
(* on from an offset o: how both change with the rows and the offset.      *)
(***************************************************************************)
MissedIn(V, k, s, o) == {id \in k \ s : RankIn(V, id) < o}
RepeatIn(V, s, o) == {id \in s \cap V : RankIn(V, id) >= o}
PageIn(V, o, n) == {id \in V : o <= RankIn(V, id) /\ RankIn(V, id) < o + n}

LEMMA MissedIs == Missed = MissedIn(visible, kept, seen, Start)
BY RankIs DEF Missed, MissedIn

LEMMA ToRepeatIs == ToRepeat = RepeatIn(visible, seen, Start)
BY RankIs DEF ToRepeat, RepeatIn

LEMMA PartsAreFinite ==
  ASSUME NEW V, V \subseteq Id, NEW k, k \subseteq V, NEW s, s \subseteq Id, NEW o, NEW n
  PROVE  /\ IsFiniteSet(MissedIn(V, k, s, o)) /\ Cardinality(MissedIn(V, k, s, o)) \in Nat
         /\ IsFiniteSet(RepeatIn(V, s, o)) /\ Cardinality(RepeatIn(V, s, o)) \in Nat
         /\ IsFiniteSet(PageIn(V, o, n)) /\ Cardinality(PageIn(V, o, n)) \in Nat
<1>1. /\ MissedIn(V, k, s, o) \subseteq Id
      /\ RepeatIn(V, s, o) \subseteq Id
      /\ PageIn(V, o, n) \subseteq Id
  BY DEF MissedIn, RepeatIn, PageIn
<1>2. QED
  BY <1>1, IdsAreFinite

\* Nothing is missed or to be repeated before the first row.
LEMMA AtTheStart ==
  ASSUME NEW V, V \subseteq Id, NEW k, k \subseteq V
  PROVE  /\ Cardinality(MissedIn(V, k, {}, 0)) = 0
         /\ \A o : Cardinality(RepeatIn(V, {}, o)) = 0
<1>1. \A id \in k : RankIn(V, id) \in Nat
  BY RankType
<1>2. MissedIn(V, k, {}, 0) = {} /\ \A o : RepeatIn(V, {}, o) = {}
  BY <1>1 DEF MissedIn, RepeatIn
<1>3. QED
  BY <1>2, FS_EmptySet

LEMMA PageFits ==
  ASSUME NEW V, V \subseteq Id, NEW o \in Nat, NEW n \in Nat
  PROVE  Cardinality(PageIn(V, o, n)) <= n
<1> DEFINE f == [id \in PageIn(V, o, n) |-> RankIn(V, id)]
           R == o .. o + n - 1
<1>1. IsFiniteSet(R) /\ Cardinality(R) = n
  <2>1. IsFiniteSet(R) /\ Cardinality(R) = IF o > o + n - 1 THEN 0 ELSE (o + n - 1) - o + 1
    BY FS_Interval
  <2>2. QED
    BY <2>1
<1>2. \A id \in PageIn(V, o, n) : id \in V /\ RankIn(V, id) \in R
  <2>1. \A id \in V : RankIn(V, id) \in Nat
    BY RankType
  <2>2. QED
    BY <2>1 DEF PageIn
<1>3. f \in Injection(PageIn(V, o, n), R)
  <2>1. \A x, y \in PageIn(V, o, n) : RankIn(V, x) = RankIn(V, y) => x = y
    BY <1>2, RanksDiffer
  <2>2. QED
    BY <1>2, <2>1 DEF Injection, IsInjective
<1>4. QED
  <2> HIDE DEF f, R
  <2>1. QED
    BY <1>1, <1>3, FS_Injection

\* A page that is not empty moves the offset on: it leaves no row of its own unseen, and
\* what it repeats was to be repeated.
LEMMA AfterPage ==
  ASSUME NEW V \in SUBSET Id, NEW k \in SUBSET V, NEW s \in SUBSET Id,
         NEW o \in Nat, NEW n \in Nat
  PROVE  LET items == PageIn(V, o, n)
         IN  /\ Cardinality(MissedIn(V, k, s \cup items, o + n))
                  <= Cardinality(MissedIn(V, k, s, o))
             /\ RepeatIn(V, s \cup items, o + n) \subseteq RepeatIn(V, s, o) \ (s \cap items)
             /\ s \cap items \subseteq RepeatIn(V, s, o)
<1> DEFINE items == PageIn(V, o, n)
<1>1. \A id \in V : RankIn(V, id) \in Nat
  BY RankType
<1>2. MissedIn(V, k, s \cup items, o + n) \subseteq MissedIn(V, k, s, o)
  BY <1>1 DEF MissedIn, PageIn
<1>3. RepeatIn(V, s \cup items, o + n) = RepeatIn(V, s, o) \ (s \cap items)
  <2>1. ASSUME NEW id
        PROVE  id \in RepeatIn(V, s \cup items, o + n) <=> id \in RepeatIn(V, s, o) \ (s \cap items)
    BY <1>1 DEF RepeatIn, PageIn
  <2>2. QED
    BY <2>1
<1>4. s \cap items \subseteq RepeatIn(V, s, o)
  BY <1>1 DEF RepeatIn, PageIn
<1>5. IsFiniteSet(MissedIn(V, k, s, o))
  BY PartsAreFinite
<1>6. Cardinality(MissedIn(V, k, s \cup items, o + n)) <= Cardinality(MissedIn(V, k, s, o))
  BY <1>2, <1>5, FS_Subset
<1>7. QED
  BY <1>3, <1>4, <1>6

\* A row that appears hides none, and makes the walk repeat one row at most: itself, if it
\* was seen before, or the one that it moves over the border of the page.
LEMMA AfterAppearance ==
  ASSUME NEW V, V \subseteq Id, NEW k, k \subseteq V, NEW s, s \subseteq Id,
         NEW o \in Nat, NEW x \in Id, x \notin V
  PROVE  /\ Cardinality(MissedIn(V \cup {x}, k, s, o)) <= Cardinality(MissedIn(V, k, s, o))
         /\ Cardinality(RepeatIn(V \cup {x}, s, o)) <= Cardinality(RepeatIn(V, s, o)) + 1
<1> DEFINE W == V \cup {x}
<1>1. /\ \A id \in Id : RankIn(V, id) \in Nat
      /\ \A id \in Id : RankIn(W, id) = IF id < x THEN RankIn(V, id) + 1 ELSE RankIn(V, id)
  <2>1. \A id \in Id : RankIn(V, id) \in Nat
    BY RankType
  <2>2. \A id \in Id : RankIn(W, id) = IF id < x THEN RankIn(V, id) + 1 ELSE RankIn(V, id)
    BY RankAfterAddition
  <2>3. QED
    BY <2>1, <2>2
<1>2. W \subseteq Id /\ k \subseteq Id /\ Id \subseteq Int
  BY GameListAssumption DEF Id
<1>3. MissedIn(W, k, s, o) \subseteq MissedIn(V, k, s, o)
  <2>1. ASSUME NEW id \in MissedIn(W, k, s, o)
        PROVE  id \in k \ s /\ RankIn(V, id) < o
    <3>1. id \in k \ s /\ RankIn(W, id) < o
      BY DEF MissedIn
    <3>2. id \in Id
      BY <1>2, <3>1
    <3>3. QED
      BY <1>1, <3>1, <3>2
  <2>2. QED
    BY <2>1 DEF MissedIn
<1>4. ASSUME NEW y \in RepeatIn(W, s, o) \ RepeatIn(V, s, o)
      PROVE  /\ y \in W /\ RankIn(W, y) >= o
             /\ y # x => y \in V /\ y < x /\ RankIn(V, y) = o - 1
  <2>1. y \in s /\ y \in W /\ RankIn(W, y) >= o /\ ~(y \in V /\ RankIn(V, y) >= o)
    BY DEF RepeatIn
  <2>2. y \in Id
    BY <1>2, <2>1
  <2>3. QED
    BY <1>1, <2>1, <2>2
<1>5. ASSUME NEW y \in RepeatIn(W, s, o) \ RepeatIn(V, s, o),
             NEW z \in RepeatIn(W, s, o) \ RepeatIn(V, s, o)
      PROVE  y = z
  <2>1. CASE y # x /\ z # x
    BY <1>4, <2>1, RanksDiffer
  <2>2. ASSUME NEW a \in RepeatIn(W, s, o) \ RepeatIn(V, s, o), a # x,
               x \in RepeatIn(W, s, o) \ RepeatIn(V, s, o)
        PROVE  FALSE
    <3>1. a \in W /\ a < x /\ RankIn(V, a) = o - 1 /\ a \in Id
      BY <1>2, <1>4, <2>2
    <3>2. RankIn(W, x) >= o
      BY <1>4, <2>2
    <3>3. RankIn(W, x) < RankIn(W, a)
      BY <1>2, <3>1, RanksFall
    <3>4. RankIn(W, a) = o /\ RankIn(W, x) \in Nat
      <4>1. ~(x < x)
        BY <1>2
      <4>2. RankIn(W, a) = RankIn(V, a) + 1 /\ RankIn(W, x) = RankIn(V, x)
        BY <1>1, <3>1, <4>1
      <4>3. QED
        BY <1>1, <3>1, <4>2
    <3>5. QED
      BY <3>2, <3>3, <3>4
  <2>3. QED
    BY <2>1, <2>2
<1>6. /\ IsFiniteSet(MissedIn(V, k, s, o)) /\ IsFiniteSet(RepeatIn(V, s, o))
  BY PartsAreFinite
<1>7. Cardinality(MissedIn(W, k, s, o)) <= Cardinality(MissedIn(V, k, s, o))
  BY <1>3, <1>6, FS_Subset
<1>8. Cardinality(RepeatIn(W, s, o)) <= Cardinality(RepeatIn(V, s, o)) + 1
  BY <1>5, <1>6, OneMore
<1>9. QED
  BY <1>7, <1>8

\* A row that disappears makes the walk miss one row at most, and repeat none.
LEMMA AfterDisappearance ==
  ASSUME NEW V, V \subseteq Id, NEW k, k \subseteq V, NEW s, s \subseteq Id,
         NEW o \in Nat, NEW x \in V
  PROVE  /\ Cardinality(MissedIn(V \ {x}, k \ {x}, s, o)) <= Cardinality(MissedIn(V, k, s, o)) + 1
         /\ Cardinality(RepeatIn(V \ {x}, s, o)) <= Cardinality(RepeatIn(V, s, o))
<1> DEFINE W == V \ {x}
<1>1. /\ \A id \in Id : RankIn(V, id) \in Nat
      /\ \A id \in Id : RankIn(W, id) = IF id < x THEN RankIn(V, id) - 1 ELSE RankIn(V, id)
  <2>1. \A id \in Id : RankIn(V, id) \in Nat
    BY RankType
  <2>2. \A id \in Id : RankIn(W, id) = IF id < x THEN RankIn(V, id) - 1 ELSE RankIn(V, id)
    BY RankAfterRemoval
  <2>3. QED
    BY <2>1, <2>2
<1>2. k \subseteq Id
  OBVIOUS
<1>3. RepeatIn(W, s, o) \subseteq RepeatIn(V, s, o)
  <2>1. ASSUME NEW id \in RepeatIn(W, s, o)
        PROVE  id \in s \cap V /\ RankIn(V, id) >= o
    <3>1. id \in s \cap V /\ RankIn(W, id) >= o
      BY DEF RepeatIn
    <3>2. QED
      BY <1>1, <3>1
  <2>2. QED
    BY <2>1 DEF RepeatIn
<1>4. ASSUME NEW y \in MissedIn(W, k \ {x}, s, o) \ MissedIn(V, k, s, o)
      PROVE  y \in V /\ RankIn(V, y) = o
  <2>1. y \in k /\ RankIn(W, y) < o /\ ~(RankIn(V, y) < o)
    BY DEF MissedIn
  <2>2. y \in Id
    BY <1>2, <2>1
  <2>3. QED
    BY <1>1, <2>1, <2>2
<1>5. \A y, z \in MissedIn(W, k \ {x}, s, o) \ MissedIn(V, k, s, o) : y = z
  BY <1>4, RanksDiffer
<1>6. IsFiniteSet(MissedIn(V, k, s, o)) /\ IsFiniteSet(RepeatIn(V, s, o))
  BY PartsAreFinite
<1>7. Cardinality(MissedIn(W, k \ {x}, s, o)) <= Cardinality(MissedIn(V, k, s, o)) + 1
  BY <1>5, <1>6, OneMore
<1>8. Cardinality(RepeatIn(W, s, o)) <= Cardinality(RepeatIn(V, s, o))
  BY <1>3, <1>6, FS_Subset
<1>9. QED
  BY <1>7, <1>8
-----------------------------------------------------------------------------
(***************************************************************************)
(* The invariant.                                                          *)
(***************************************************************************)
LEMMA InitEstablishesInv == Init => GameListInv
<1> SUFFICES ASSUME Init
             PROVE  GameListInv
  OBVIOUS
<1>1. ~NewFails(ConfigMaxP, ConfigMaxS) /\ MaxP \in Nat \ {0} /\ MaxS \in Nat \ {0}
  BY LimitsAre, GameListAssumption DEF Init
<1>2. Start = 0
  BY DEF Init, Start
<1>3. 0 \in 0 .. MaxP * MaxS
  BY <1>1
<1>4. TypeOK
  BY <1>1, <1>3, GameListAssumption DEF Init, TypeOK
<1>5. Cardinality(Missed) = 0 /\ Cardinality(ToRepeat) = 0
  BY <1>2, <1>4, AtTheStart, MissedIs, ToRepeatIs DEF Init, TypeOK
<1>6. Cardinality(seen) = 0
  BY FS_EmptySet DEF Init
<1>7. QED
  BY <1>1, <1>2, <1>4, <1>5, <1>6 DEF Init, GameListInv, Complete

\* What the steps are shown from.
LEMMA InvFacts ==
  ASSUME GameListInv
  PROVE  /\ MaxP \in 1 .. MaxInt32 /\ MaxS \in 1 .. MaxInt32 /\ MaxInt32 \in Nat
         /\ visible \subseteq Id /\ kept \subseteq visible /\ seen \subseteq Id
         /\ IsFiniteSet(visible) /\ Cardinality(visible) \in Nat /\ Cardinality(visible) <= MaxId
         /\ IsFiniteSet(seen) /\ Cardinality(seen) \in Nat
         /\ Cardinality(Missed) \in Nat /\ Cardinality(ToRepeat) \in Nat
         /\ page \in 1 .. MaxP + 1 /\ size \in 1 .. MaxS
         /\ returned \in Nat /\ gained \in Nat /\ lost \in Nat
         /\ Start \in Nat /\ Offset(page, size) = Start
<1>1. TypeOK /\ ~NewFails(ConfigMaxP, ConfigMaxS)
  BY DEF GameListInv
<1>2. MaxP \in 1 .. MaxInt32 /\ MaxS \in 1 .. MaxInt32 /\ MaxInt32 \in Nat
  BY <1>1, LimitsAre, GameListAssumption
<1>3. /\ visible \subseteq Id /\ kept \subseteq visible /\ seen \subseteq Id
      /\ page \in 1 .. MaxP + 1 /\ size \in 1 .. MaxS
      /\ returned \in Nat /\ gained \in Nat /\ lost \in Nat
  BY <1>1 DEF TypeOK
<1>4. /\ IsFiniteSet(visible) /\ Cardinality(visible) \in Nat /\ Cardinality(visible) <= MaxId
      /\ IsFiniteSet(seen) /\ Cardinality(seen) \in Nat
  BY <1>3, IdsAreFinite
<1>5. Cardinality(Missed) \in Nat /\ Cardinality(ToRepeat) \in Nat
  BY <1>3, PartsAreFinite, MissedIs, ToRepeatIs
<1>6. Start \in Nat /\ Offset(page, size) = Start
  BY <1>1, <1>3, OffsetIs DEF Start
<1>7. QED
  BY <1>2, <1>3, <1>4, <1>5, <1>6

LEMMA MissedNext == (Missed)' = MissedIn(visible', kept', seen', Start')
BY DEF Missed, MissedIn, Rank, RankIn, Before

LEMMA ToRepeatNext == (ToRepeat)' = RepeatIn(visible', seen', Start')
BY DEF ToRepeat, RepeatIn, Rank, RankIn, Before

LEMMA WalkKeepsInv ==
  ASSUME GameListInv, NEW s \in 1 .. MaxS, Walk(s)
  PROVE  GameListInv'
<1>1. /\ MaxP \in Nat /\ MaxS \in Nat /\ visible \subseteq Id /\ returned \in Nat
      /\ gained \in Nat /\ lost \in Nat /\ Cardinality(seen) \in Nat /\ Start \in Nat
  BY InvFacts
<1>2. /\ page = 1 /\ page' = 1 /\ seen = {} /\ seen' = {} /\ returned' = returned
      /\ visible' = visible /\ kept' = visible /\ lost' = lost /\ gained' = gained
      /\ pc' = "count" /\ size' = s
  BY DEF GameListInv, Walk
<1>3. Start = 0 /\ Start' = 0
  <2>1. Start = (page - 1) * size /\ Start' = (page' - 1) * size'
    BY DEF Start
  <2>2. size \in Int
    BY <1>1 DEF GameListInv, TypeOK
  <2>3. QED
    BY <1>2, <2>1, <2>2
<1>4. TypeOK'
  BY <1>2 DEF GameListInv, TypeOK, Walk
<1>5. Cardinality((Missed)') = 0 /\ Cardinality((ToRepeat)') = 0
  BY <1>1, <1>2, <1>3, AtTheStart, MissedNext, ToRepeatNext
<1>6. returned = 0
  BY <1>1, <1>3 DEF GameListInv
<1>7. QED
  BY <1>1, <1>2, <1>3, <1>4, <1>5, <1>6 DEF GameListInv, Complete

LEMMA CountKeepsInv ==
  ASSUME GameListInv, Count
  PROVE  GameListInv'
<1>1. /\ MaxP \in Nat /\ MaxS \in Nat /\ page \in 1 .. MaxP + 1 /\ size \in 1 .. MaxS
      /\ Offset(page, size) = Start /\ Start \in Nat
      /\ Cardinality(visible) \in Nat /\ Cardinality(visible) <= MaxId
  BY InvFacts
<1>2. UNCHANGED <<visible, page, size, kept, seen, returned, gained, lost>>
  BY DEF Count
<1>3. InRange(page, size) <=> page <= MaxP
  BY <1>1 DEF InRange
<1>4. /\ pc' \in {"select", "done"} /\ total' \in 0 .. MaxId
      /\ pc' = "select" => page <= MaxP
      /\ pc' = "done" /\ page <= MaxP => Cardinality(visible) <= Start
  BY <1>1, <1>3, GameListAssumption DEF Count, EmptyPage, GameListInv, TypeOK
<1>5. TypeOK'
  BY <1>2, <1>4 DEF GameListInv, TypeOK
<1>6. Start' = Start /\ (Missed)' = Missed /\ (ToRepeat)' = ToRepeat
  BY <1>2 DEF Start, Missed, ToRepeat, Rank
<1>7. QED
  BY <1>2, <1>4, <1>5, <1>6 DEF GameListInv, Complete

LEMMA SelectKeepsInv ==
  ASSUME GameListInv, Select
  PROVE  GameListInv'
<1>1. /\ MaxP \in Nat /\ MaxS \in Nat /\ visible \subseteq Id /\ kept \subseteq visible
      /\ seen \subseteq Id
      /\ page \in 1 .. MaxP + 1 /\ size \in 1 .. MaxS
      /\ Offset(page, size) = Start /\ Start \in Nat
      /\ Cardinality(visible) \in Nat /\ Cardinality(seen) \in Nat
      /\ Cardinality(Missed) \in Nat /\ Cardinality(ToRepeat) \in Nat
      /\ returned \in Nat /\ gained \in Nat /\ lost \in Nat
  BY InvFacts
<1>2. PICK items : items = Items(page, size)
  OBVIOUS
<1>3. items = PageIn(visible, Start, size)
  BY <1>1, <1>2, RankIs DEF Items, PageIn
<1>4. /\ seen' = seen \cup items /\ returned' = returned + Cardinality(items)
      /\ items = {} => pc' = "done" /\ page' = page
      /\ items # {} => pc' = "count" /\ page' = page + 1
      /\ UNCHANGED <<visible, size, total, kept, gained, lost>>
      /\ page <= MaxP
  BY <1>2 DEF Select, EmptyPage, GameListInv
<1>5. /\ Cardinality(items) <= size /\ Cardinality(items) \in Nat
      /\ items \subseteq visible
  <2>1. Cardinality(PageIn(visible, Start, size)) <= size
    BY <1>1, PageFits
  <2>2. Cardinality(PageIn(visible, Start, size)) \in Nat
    BY <1>1, PartsAreFinite
  <2>3. QED
    BY <1>3, <2>1, <2>2 DEF PageIn
<1>6. CASE items = {}
  <2>1. Cardinality(items) = 0 /\ seen' = seen /\ returned' = returned
    BY <1>1, <1>4, <1>6, FS_EmptySet
  <2>2. Cardinality(visible) <= Start
    <3>1. SUFFICES ASSUME Start < Cardinality(visible)
                   PROVE  FALSE
      BY <1>1
    <3>2. PICK id \in visible : RankIn(visible, id) = Start
      BY <1>1, <3>1, RanksHaveNoGap
    <3>3. id \in items
      BY <1>1, <1>3, <3>2 DEF PageIn
    <3>4. QED
      BY <1>6, <3>3
  <2>3. TypeOK'
    BY <1>4, <1>6, <2>1 DEF GameListInv, TypeOK
  <2>4. Start' = Start /\ (Missed)' = Missed /\ (ToRepeat)' = ToRepeat
    BY <1>4, <1>6, <2>1 DEF Start, Missed, ToRepeat, Rank
  <2>5. QED
    BY <1>4, <1>6, <2>1, <2>2, <2>3, <2>4 DEF GameListInv, Complete
<1>7. CASE items # {}
  <2>1. /\ pc' = "count" /\ page' = page + 1 /\ size' = size /\ visible' = visible
        /\ kept' = kept /\ gained' = gained /\ lost' = lost /\ total' = total
    BY <1>4, <1>7
  <2>2. Start' = Start + size
    <3>1. Start = (page - 1) * size /\ Start' = (page' - 1) * size'
      BY DEF Start
    <3>2. page \in Int /\ size \in Int
      BY <1>1
    <3>3. ((page + 1) - 1) * size = (page - 1) * size + size
      BY <3>2
    <3>4. QED
      BY <2>1, <3>1, <3>3
  <2>3. returned' <= Start' /\ returned' \in Nat
    <3>1. returned <= Start
      BY DEF GameListInv
    <3>2. QED
      BY <1>1, <1>4, <1>5, <2>2, <3>1
  <2>4. TypeOK'
    <3>1. page' \in 1 .. MaxP + 1 /\ size' \in 1 .. MaxS /\ ~NewFails(ConfigMaxP, ConfigMaxS)
      BY <1>1, <1>4, <2>1 DEF GameListInv
    <3>2. Start' <= MaxP * MaxS /\ Start' \in Nat /\ MaxP * MaxS \in Nat
      <4>1. (page' - 1) * size' \in Nat /\ (page' - 1) * size' <= MaxP * MaxS
        BY <3>1, OffsetIs
      <4>2. MaxP * MaxS \in Nat
        BY <1>1
      <4>3. QED
        BY <4>1, <4>2 DEF Start
    <3>3. returned' \in 0 .. MaxP * MaxS
      BY <2>3, <3>2
    <3>4. seen' \subseteq Id
      BY <1>1, <1>4, <1>5
    <3>5. QED
      BY <2>1, <3>1, <3>3, <3>4 DEF GameListInv, TypeOK
  <2>5. /\ Cardinality((Missed)') <= Cardinality(Missed)
        /\ Cardinality((ToRepeat)')
             <= Cardinality(ToRepeat) + Cardinality(seen') - Cardinality(seen) - Cardinality(items)
    <3>1. (Missed)' = MissedIn(visible, kept, seen \cup items, Start + size)
      BY <1>4, <2>1, <2>2, MissedNext
    <3>2. (ToRepeat)' = RepeatIn(visible, seen \cup items, Start + size)
      BY <1>4, <2>1, <2>2, ToRepeatNext
    <3>3. Missed = MissedIn(visible, kept, seen, Start)
          /\ ToRepeat = RepeatIn(visible, seen, Start)
      BY MissedIs, ToRepeatIs
    <3>4. PICK o \in Nat : o = Start
      BY <1>1
    <3>5. PICK n \in Nat : n = size
      BY <1>1
    <3>6. PICK V \in SUBSET Id, k \in SUBSET Id, s \in SUBSET Id :
            V = visible /\ k = kept /\ s = seen
      BY <1>1
    <3>7. k \in SUBSET V /\ items = PageIn(V, o, n) /\ items \in SUBSET V /\ items \in SUBSET Id
      BY <1>1, <1>3, <1>5, <3>4, <3>5, <3>6
    <3>8. /\ Cardinality(MissedIn(V, k, s \cup items, o + n)) <= Cardinality(MissedIn(V, k, s, o))
          /\ RepeatIn(V, s \cup items, o + n) \subseteq RepeatIn(V, s, o) \ (s \cap items)
          /\ s \cap items \subseteq RepeatIn(V, s, o)
      <4>1. Cardinality(MissedIn(V, k, s \cup items, o + n)) <= Cardinality(MissedIn(V, k, s, o))
        BY <3>7, AfterPage
      <4>2. RepeatIn(V, s \cup items, o + n) \subseteq RepeatIn(V, s, o) \ (s \cap items)
        BY <3>7, AfterPage
      <4>3. s \cap items \subseteq RepeatIn(V, s, o)
        BY <3>7, AfterPage
      <4>4. QED
        BY <4>1, <4>2, <4>3
    <3>9. /\ Cardinality((Missed)') <= Cardinality(Missed)
          /\ (ToRepeat)' \subseteq ToRepeat \ (s \cap items)
          /\ ToRepeat \cap (s \cap items) = s \cap items
      BY <3>1, <3>2, <3>3, <3>4, <3>5, <3>6, <3>8
    <3>10. /\ IsFiniteSet(ToRepeat) /\ IsFiniteSet(s) /\ IsFiniteSet(items)
           /\ Cardinality(s \cap items) \in Nat
      <4>1. ToRepeat \subseteq Id /\ s \cap items \subseteq Id
        BY <3>6 DEF ToRepeat
      <4>2. QED
        BY <3>7, <4>1, IdsAreFinite
    <3>11. Cardinality((ToRepeat)') <= Cardinality(ToRepeat) - Cardinality(s \cap items)
      <4>1. Cardinality(ToRepeat \ (s \cap items))
              = Cardinality(ToRepeat) - Cardinality(ToRepeat \cap (s \cap items))
        BY <3>10, FS_Difference
      <4>2. Cardinality((ToRepeat)') <= Cardinality(ToRepeat \ (s \cap items))
        BY <3>9, <3>10, FS_Difference, FS_Subset
      <4>3. QED
        BY <3>9, <4>1, <4>2
    <3>12. Cardinality(seen') = Cardinality(s) + Cardinality(items) - Cardinality(s \cap items)
      BY <1>4, <3>6, <3>10, FS_Union
    <3>13. QED
      BY <1>1, <1>5, <3>6, <3>9, <3>10, <3>11, <3>12
  <2>6. /\ Cardinality((Missed)') \in Nat /\ Cardinality((ToRepeat)') \in Nat
        /\ Cardinality(seen') \in Nat
    <3>1. visible' \subseteq Id /\ kept' \subseteq visible' /\ seen' \subseteq Id
      BY <2>4 DEF TypeOK
    <3>2. QED
      BY <3>1, MissedNext, ToRepeatNext, PartsAreFinite, IdsAreFinite
  <2>7. Cardinality(visible) > Start
    <3>1. PICK id \in items : TRUE
      BY <1>7
    <3>2. id \in visible /\ Start <= RankIn(visible, id)
      BY <1>3, <3>1 DEF PageIn
    <3>3. RankIn(visible, id) < Cardinality(visible) /\ RankIn(visible, id) \in Nat
      BY <1>1, <3>2, RankType
    <3>4. QED
      BY <1>1, <3>2, <3>3
  <2>8. Cardinality(visible') + lost' > (page' - 2) * size'
    <3>1. (page' - 2) * size' = Start
      BY <1>1, <2>1 DEF Start
    <3>2. QED
      BY <1>1, <2>1, <2>7, <3>1
  <2>9. Cardinality((Missed)') <= lost'
    BY <1>1, <2>1, <2>5, <2>6 DEF GameListInv
  <2>10. returned' + Cardinality((ToRepeat)') <= Cardinality(seen') + gained'
    <3>1. returned + Cardinality(ToRepeat) <= Cardinality(seen) + gained
      BY DEF GameListInv
    <3>2. QED
      BY <1>1, <1>4, <1>5, <2>1, <2>5, <2>6, <3>1
  <2>11. QED
    BY <2>1, <2>3, <2>4, <2>8, <2>9, <2>10 DEF GameListInv, Complete
<1>8. QED
  BY <1>6, <1>7

LEMMA AppearKeepsInv ==
  ASSUME GameListInv, NEW x \in Id, Appear(x)
  PROVE  GameListInv'
<1>1. /\ visible \subseteq Id /\ kept \subseteq visible /\ seen \subseteq Id
      /\ Start \in Nat /\ page \in Int /\ size \in Int
      /\ IsFiniteSet(visible) /\ Cardinality(visible) \in Nat /\ Cardinality(seen) \in Nat
      /\ Cardinality(Missed) \in Nat /\ Cardinality(ToRepeat) \in Nat
      /\ returned \in Nat /\ gained \in Nat /\ lost \in Nat
  BY InvFacts
<1>2. /\ x \notin visible /\ visible' = visible \cup {x} /\ gained' = gained + 1
      /\ gained + lost < MaxChanges /\ pc \in {"count", "select"}
      /\ UNCHANGED <<pc, page, size, total, kept, seen, returned, lost>>
  BY DEF Appear, Walking
<1>3. TypeOK'
  BY <1>1, <1>2, GameListAssumption DEF GameListInv, TypeOK
<1>4. Start' = Start
  BY <1>2 DEF Start
<1>5. /\ Cardinality((Missed)') <= Cardinality(Missed)
      /\ Cardinality((ToRepeat)') <= Cardinality(ToRepeat) + 1
  <2>1. PICK o \in Nat : o = Start
    BY <1>1
  <2>2. /\ Cardinality(MissedIn(visible \cup {x}, kept, seen, o))
             <= Cardinality(MissedIn(visible, kept, seen, o))
        /\ Cardinality(RepeatIn(visible \cup {x}, seen, o))
             <= Cardinality(RepeatIn(visible, seen, o)) + 1
    BY <1>1, <1>2, <2>1, AfterAppearance
  <2>3. QED
    BY <1>2, <1>4, <2>1, <2>2, MissedIs, ToRepeatIs, MissedNext, ToRepeatNext
<1>6. Cardinality((Missed)') \in Nat /\ Cardinality((ToRepeat)') \in Nat
  <2>1. visible' \subseteq Id /\ kept' \subseteq visible' /\ seen' \subseteq Id
    BY <1>3 DEF TypeOK
  <2>2. QED
    BY <2>1, MissedNext, ToRepeatNext, PartsAreFinite
<1>7. Cardinality(visible') = Cardinality(visible) + 1
  BY <1>1, <1>2, FS_AddElement
<1>8. Cardinality((Missed)') <= lost'
  BY <1>1, <1>2, <1>5, <1>6 DEF GameListInv
<1>9. returned' + Cardinality((ToRepeat)') <= Cardinality(seen') + gained'
  BY <1>1, <1>2, <1>5, <1>6 DEF GameListInv
<1>10. page' > 1 => Cardinality(visible') + lost' > (page' - 2) * size'
  <2>1. (page - 2) * size \in Int
    BY <1>1
  <2>2. page > 1 => Cardinality(visible) + lost > (page - 2) * size
    BY DEF GameListInv
  <2>3. QED
    BY <1>1, <1>2, <1>7, <2>1, <2>2
<1>11. QED
  BY <1>2, <1>3, <1>4, <1>8, <1>9, <1>10 DEF GameListInv, Complete

LEMMA DisappearKeepsInv ==
  ASSUME GameListInv, NEW x \in Id, Disappear(x)
  PROVE  GameListInv'
<1>1. /\ visible \subseteq Id /\ kept \subseteq visible /\ seen \subseteq Id
      /\ Start \in Nat /\ page \in Int /\ size \in Int
      /\ IsFiniteSet(visible) /\ Cardinality(visible) \in Nat /\ Cardinality(seen) \in Nat
      /\ Cardinality(Missed) \in Nat /\ Cardinality(ToRepeat) \in Nat
      /\ returned \in Nat /\ gained \in Nat /\ lost \in Nat
  BY InvFacts
<1>2. /\ x \in visible /\ visible' = visible \ {x} /\ kept' = kept \ {x} /\ lost' = lost + 1
      /\ gained + lost < MaxChanges /\ pc \in {"count", "select"}
      /\ UNCHANGED <<pc, page, size, total, seen, returned, gained>>
  BY DEF Disappear, Walking
<1>3. TypeOK'
  BY <1>1, <1>2, GameListAssumption DEF GameListInv, TypeOK
<1>4. Start' = Start
  BY <1>2 DEF Start
<1>5. /\ Cardinality((Missed)') <= Cardinality(Missed) + 1
      /\ Cardinality((ToRepeat)') <= Cardinality(ToRepeat)
  <2>1. PICK o \in Nat : o = Start
    BY <1>1
  <2>2. /\ Cardinality(MissedIn(visible \ {x}, kept \ {x}, seen, o))
             <= Cardinality(MissedIn(visible, kept, seen, o)) + 1
        /\ Cardinality(RepeatIn(visible \ {x}, seen, o))
             <= Cardinality(RepeatIn(visible, seen, o))
    <3>1. PICK V \in SUBSET Id : V = visible
      BY <1>1
    <3>2. PICK k \in SUBSET V : k = kept
      BY <1>1, <3>1
    <3>3. PICK s \in SUBSET Id : s = seen
      BY <1>1
    <3>4. V \subseteq Id /\ k \subseteq V /\ s \subseteq Id /\ x \in V
      BY <1>2, <3>1
    <3>5. /\ Cardinality(MissedIn(V \ {x}, k \ {x}, s, o)) <= Cardinality(MissedIn(V, k, s, o)) + 1
          /\ Cardinality(RepeatIn(V \ {x}, s, o)) <= Cardinality(RepeatIn(V, s, o))
      BY <3>4, AfterDisappearance
    <3>6. QED
      BY <3>1, <3>2, <3>3, <3>5
  <2>3. QED
    BY <1>2, <1>4, <2>1, <2>2, MissedIs, ToRepeatIs, MissedNext, ToRepeatNext
<1>6. Cardinality((Missed)') \in Nat /\ Cardinality((ToRepeat)') \in Nat
  <2>1. visible' \subseteq Id /\ kept' \subseteq visible' /\ seen' \subseteq Id
    BY <1>3 DEF TypeOK
  <2>2. QED
    BY <2>1, MissedNext, ToRepeatNext, PartsAreFinite
<1>7. Cardinality(visible') = Cardinality(visible) - 1
  BY <1>1, <1>2, FS_RemoveElement
<1>8. Cardinality((Missed)') <= lost'
  BY <1>1, <1>2, <1>5, <1>6 DEF GameListInv
<1>9. returned' + Cardinality((ToRepeat)') <= Cardinality(seen') + gained'
  BY <1>1, <1>2, <1>5, <1>6 DEF GameListInv
<1>10. page' > 1 => Cardinality(visible') + lost' > (page' - 2) * size'
  <2>1. (page - 2) * size \in Int
    BY <1>1
  <2>2. page > 1 => Cardinality(visible) + lost > (page - 2) * size
    BY DEF GameListInv
  <2>3. QED
    BY <1>1, <1>2, <1>7, <2>1, <2>2
<1>11. QED
  BY <1>2, <1>3, <1>4, <1>8, <1>9, <1>10 DEF GameListInv, Complete

LEMMA NextKeepsInv == GameListInv /\ [Next]_vars => GameListInv'
<1> SUFFICES ASSUME GameListInv, [Next]_vars
             PROVE  GameListInv'
  OBVIOUS
<1>1. CASE UNCHANGED vars
  BY <1>1 DEF GameListInv, vars, TypeOK, Complete, Start, Missed, ToRepeat, Rank
<1>2. CASE \E s \in 1 .. MaxS : Walk(s)
  BY <1>2, WalkKeepsInv
<1>3. CASE Count
  BY <1>3, CountKeepsInv
<1>4. CASE Select
  BY <1>4, SelectKeepsInv
<1>5. CASE Finished
  BY <1>1, <1>5 DEF Finished
<1>6. CASE \E id \in Id : Appear(id) \/ Disappear(id)
  BY <1>6, AppearKeepsInv, DisappearKeepsInv
<1>7. QED
  BY <1>1, <1>2, <1>3, <1>4, <1>5, <1>6 DEF Next

(***************************************************************************)
(* The counts of GameListInv hold in every state of a walk: rows come and  *)
(* go one at a time, and a page moves by its size (List, game.go:184-219). *)
(***************************************************************************)
THEOREM GameListInvariant == Spec => []GameListInv
<1>1. QED
  BY InitEstablishesInv, NextKeepsInv, PTL DEF Spec

(***************************************************************************)
(* Types: in particular no page is larger than its size, and no number of  *)
(* a walk leaves its range.                                                *)
(***************************************************************************)
THEOREM WalkTypes == Spec => []TypeOK
<1>1. GameListInv => TypeOK
  BY DEF GameListInv
<1>2. QED
  BY <1>1, GameListInvariant, PTL

(***************************************************************************)
(* WalkErrsOnlyByChanges: a walk to the first empty page misses at most as *)
(* many rows as have disappeared meanwhile, and returns at most as many    *)
(* twice as have appeared (List, game.go:184-219).                         *)
(***************************************************************************)
THEOREM WalksErrOnlyByChanges == Spec => []WalkErrsOnlyByChanges
<1>1. GameListInv => WalkErrsOnlyByChanges
  <2> SUFFICES ASSUME GameListInv
               PROVE  WalkErrsOnlyByChanges
    OBVIOUS
  <2>1. /\ visible \subseteq Id /\ kept \subseteq visible /\ Start \in Nat
        /\ Cardinality(visible) \in Nat /\ Cardinality(seen) \in Nat
        /\ Cardinality(ToRepeat) \in Nat /\ returned \in Nat /\ gained \in Nat
    BY InvFacts
  <2>2. ASSUME Complete
        PROVE  Cardinality(kept \ seen) <= lost
    <3>1. \A id \in kept : Rank(id) < Start
      <4>1. ASSUME NEW id \in kept
            PROVE  Rank(id) < Start
        <5>1. id \in visible /\ id \in Id
          BY <2>1
        <5>2. RankIn(visible, id) < Cardinality(visible) /\ RankIn(visible, id) \in Nat
          BY <2>1, <5>1, RankType
        <5>3. Cardinality(visible) <= Start
          BY <2>2 DEF GameListInv
        <5>4. QED
          BY <2>1, <5>2, <5>3, RankIs
      <4>2. QED
        BY <4>1
    <3>2. Missed = kept \ seen
      BY <3>1 DEF Missed
    <3>3. QED
      BY <3>2 DEF GameListInv
  <2>3. returned <= Cardinality(seen) + gained
    BY <2>1 DEF GameListInv
  <2>4. QED
    BY <2>2, <2>3 DEF WalkErrsOnlyByChanges
<1>2. QED
  BY <1>1, GameListInvariant, PTL

(***************************************************************************)
(* LimitCutsOnlyLongWalks: the limit on the page number ends a walk only   *)
(* when there may be more rows than MaxP pages hold, counting those that   *)
(* have disappeared (pagination.go:31-40).                                 *)
(***************************************************************************)
THEOREM LimitsCutOnlyLongWalks == Spec => []LimitCutsOnlyLongWalks
<1>1. GameListInv => LimitCutsOnlyLongWalks
  <2> SUFFICES ASSUME GameListInv, pc = "done", page > MaxP
               PROVE  Cardinality(visible) + lost > (MaxP - 1) * size
    BY DEF LimitCutsOnlyLongWalks
  <2>1. MaxP \in Nat \ {0} /\ page \in 1 .. MaxP + 1
    BY InvFacts
  <2>2. page = MaxP + 1 /\ page > 1
    BY <2>1
  <2>3. page - 2 = MaxP - 1
    BY <2>1, <2>2
  <2>4. Cardinality(visible) + lost > (page - 2) * size
    BY <2>2 DEF GameListInv
  <2>5. QED
    BY <2>3, <2>4
<1>2. QED
  BY <1>1, GameListInvariant, PTL
=============================================================================
