-------------------------- MODULE Evidence_proofs --------------------------
(***************************************************************************)
(* What the system concludes from what it recorded, for all of its inputs: *)
(* the ladder of levels it trades to, the verdict on a candidate signal,   *)
(* the journal of what it did and why, and what a week of logs is read as. *)
(***************************************************************************)
EXTENDS TargetLadder, Validation, LiveJournal, WeekReport, SetSums_proofs, SequenceTheorems, NaturalsInduction

-----------------------------------------------------------------------------
(* A first part of the numbers from 1 is an interval.                      *)
LEMMA FirstPart ==
  ASSUME NEW n \in Nat, NEW S \in SUBSET (1..n),
         \A i \in S, j \in 1..n : j <= i => j \in S
  PROVE  S = 1..Cardinality(S)
<1> DEFINE Out == {k \in 1..n + 1 : k \notin S}
<1>1. PICK m \in Out : \A k \in Out : m <= k
  <2>1. Out \in SUBSET Nat /\ n + 1 \in Out
    OBVIOUS
  <2> QED
    BY <2>1, LeastNumber
<1>2. S = 1..m - 1
  <2>1. ASSUME NEW i \in S PROVE i < m
    <3>1. CASE i >= m
      <4>1. m \in 1..n /\ m \notin S
        BY <1>1, <3>1
      <4> QED
        BY <4>1, <2>1, <3>1
    <3> QED
      BY <1>1, <3>1
  <2>2. ASSUME NEW i \in 1..m - 1 PROVE i \in S
    BY <1>1, <2>2
  <2>3. \A i \in S : i \in 1..m - 1
    BY <1>1, <2>1
  <2> QED
    BY <2>2, <2>3
<1>3. Cardinality(1..m - 1) = m - 1
  BY <1>1, FS_Interval
<1> QED
  BY <1>2, <1>3

-----------------------------------------------------------------------------
(* A strict total order on a finite set, given by its pairs, gives every   *)
(* member a place: as many come before it as its place says.               *)
OrderedBy(B, R) ==
  /\ \A a \in B : <<a, a>> \notin R
  /\ \A a, b, c \in B : <<a, b>> \in R /\ <<b, c>> \in R => <<a, c>> \in R
  /\ \A a, b \in B : a = b \/ <<a, b>> \in R \/ <<b, a>> \in R

PlacesBefore(B, R, c) == Cardinality({b \in B : <<b, c>> \in R})

LEMMA FewerBefore ==
  ASSUME NEW B, IsFiniteSet(B), NEW R, OrderedBy(B, R)
  PROVE  /\ \A c \in B : PlacesBefore(B, R, c) \in 0..Cardinality(B) - 1
         /\ \A a, c \in B : <<a, c>> \in R => PlacesBefore(B, R, a) < PlacesBefore(B, R, c)
<1> DEFINE F(c) == {b \in B : <<b, c>> \in R}
<1>1. Cardinality(B) \in Nat /\ \A c \in B : IsFiniteSet(F(c)) /\ Cardinality(F(c)) \in Nat
  BY FS_Subset, FS_CardinalityType
<1>2. ASSUME NEW c \in B PROVE Cardinality(F(c)) < Cardinality(B)
  <2>1. F(c) \in SUBSET B /\ F(c) # B
    BY DEF OrderedBy
  <2> HIDE DEF F
  <2> QED
    BY <1>1, <2>1, FS_Subset
<1>3. ASSUME NEW a \in B, NEW c \in B, <<a, c>> \in R
      PROVE  Cardinality(F(a)) < Cardinality(F(c))
  <2>1. F(a) \in SUBSET F(c) /\ F(a) # F(c)
    BY <1>3 DEF OrderedBy
  <2> HIDE DEF F
  <2> QED
    BY <1>1, <2>1, FS_Subset
<1>4. \A c \in B : PlacesBefore(B, R, c) = Cardinality(F(c))
  BY DEF PlacesBefore
<1> HIDE DEF F
<1> QED
  BY <1>1, <1>2, <1>3, <1>4

LEMMA PlacesDiffer ==
  ASSUME NEW B, IsFiniteSet(B), NEW R, OrderedBy(B, R), NEW a \in B, NEW c \in B
  PROVE  /\ PlacesBefore(B, R, a) = PlacesBefore(B, R, c) => a = c
         /\ PlacesBefore(B, R, a) < PlacesBefore(B, R, c) => <<a, c>> \in R
<1>1. /\ PlacesBefore(B, R, a) \in Int
      /\ PlacesBefore(B, R, c) \in Int
  BY FewerBefore, FS_CardinalityType
<1>2. a = c \/ <<a, c>> \in R \/ <<c, a>> \in R
  BY DEF OrderedBy
<1>3. <<a, c>> \in R => PlacesBefore(B, R, a) < PlacesBefore(B, R, c)
  BY FewerBefore
<1>4. <<c, a>> \in R => PlacesBefore(B, R, c) < PlacesBefore(B, R, a)
  BY FewerBefore
<1> QED
  BY <1>1, <1>2, <1>3, <1>4

(* And every place is somebody's.                                          *)
LEMMA PlacesTaken ==
  ASSUME NEW B, IsFiniteSet(B), NEW R, OrderedBy(B, R), NEW i \in 1..Cardinality(B)
  PROVE  \E c \in B : PlacesBefore(B, R, c) = i - 1
<1> DEFINE f == [c \in B |-> PlacesBefore(B, R, c)]
           n == Cardinality(B)
           Places == 0..n - 1
<1>1. n \in Nat
  BY FS_CardinalityType
<1>2. f \in Injection(B, Places)
  <2>1. \A a, c \in B : f[a] = f[c] => a = c
    BY PlacesDiffer
  <2>2. f \in [B -> Places]
    BY FewerBefore
  <2> HIDE DEF f, Places
  <2> QED
    BY <2>1, <2>2 DEF Injection, IsInjective
<1>3. IsFiniteSet(Places) /\ Cardinality(Places) = n
  <2> HIDE DEF n
  <2> QED
    BY <1>1, FS_Interval
<1> HIDE DEF f, Places
<1>4. f \in Surjection(B, Places)
  BY <1>2, <1>3, FS_Injection
<1>5. i - 1 \in Places
  BY <1>1 DEF Places
<1> QED
  BY <1>4, <1>5 DEF f, Surjection

(* A sequence with everybody in place is in order and leaves nobody out.   *)
InPlace(s, B, R) ==
  \A i \in 1..Cardinality(B) : s[i] \in B /\ PlacesBefore(B, R, s[i]) = i - 1

LEMMA PlacedInOrder ==
  ASSUME NEW B, IsFiniteSet(B), NEW R, OrderedBy(B, R), NEW s, InPlace(s, B, R)
  PROVE  /\ \A i, j \in 1..Cardinality(B) : i < j => <<s[i], s[j]>> \in R
         /\ \A c \in B : \E i \in 1..Cardinality(B) : s[i] = c
<1>1. Cardinality(B) \in Nat
  BY FS_CardinalityType
<1>2. ASSUME NEW i \in 1..Cardinality(B), NEW j \in 1..Cardinality(B), i < j
      PROVE  <<s[i], s[j]>> \in R
  <2>1. PlacesBefore(B, R, s[i]) < PlacesBefore(B, R, s[j]) /\ s[i] \in B /\ s[j] \in B
    BY <1>1, <1>2 DEF InPlace
  <2> QED
    BY <2>1, PlacesDiffer
<1>3. ASSUME NEW c \in B PROVE \E i \in 1..Cardinality(B) : s[i] = c
  <2> DEFINE i == PlacesBefore(B, R, c) + 1
  <2>1. PlacesBefore(B, R, c) \in 0..Cardinality(B) - 1
    BY FewerBefore
  <2>2. i \in 1..Cardinality(B) /\ i - 1 = PlacesBefore(B, R, c)
    BY <1>1, <2>1
  <2> HIDE DEF i
  <2>3. s[i] \in B /\ PlacesBefore(B, R, s[i]) = PlacesBefore(B, R, c)
    BY <2>2 DEF InPlace
  <2> QED
    BY <2>2, <2>3, PlacesDiffer
<1> QED
  BY <1>2, <1>3

-----------------------------------------------------------------------------
(* The ladder's candidates: the levels beyond the target, nearest first.   *)
Level == [price : Prices, source : Range(Sources)]

LadderTypes ==
  /\ trade.target \in Int /\ trade.long \in BOOLEAN
  /\ IF trade.long THEN trade.target >= 0 ELSE trade.target <= 0
  /\ levels \in SUBSET Level /\ IsFiniteSet(levels)

Beyond == {l \in levels : BeyondTP(l.price)}

NearerOf == {ab \in Beyond \X Beyond : Before(ab[1], ab[2])}

LEMMA RankOfSource ==
  ASSUME NEW s \in Range(Sources)
  PROVE  Rank(s) \in Nat /\ Sources[Rank(s)] = s
<1>1. \E i \in DOMAIN Sources : Sources[i] = s
  BY DEF Range
<1>2. Rank(s) \in DOMAIN Sources /\ Sources[Rank(s)] = s
  BY <1>1 DEF Rank
<1> QED
  BY <1>2, LadderAssumption

LEMMA BeyondTypes ==
  ASSUME LadderTypes
  PROVE  /\ IsFiniteSet(Beyond)
         /\ \A l \in Beyond : Dist(l.price) \in Nat /\ Rank(l.source) \in Nat
         /\ \A a, b \in Beyond : Dist(a.price) = Dist(b.price) /\ Rank(a.source) = Rank(b.source) => a = b
<1>1. IsFiniteSet(Beyond)
  BY FS_Subset DEF Beyond, LadderTypes
<1>2. \A l \in Beyond : l \in Level /\ l.price \in Int /\ l.source \in Range(Sources)
  BY LadderAssumption DEF Beyond, LadderTypes, Level
<1>3. \A l \in Beyond : Dist(l.price) \in Nat
  BY <1>2 DEF Dist, EntryPrice
<1>4. \A a, b \in Beyond : Dist(a.price) = Dist(b.price) => a.price = b.price
  BY <1>2 DEF Dist, EntryPrice, Beyond, BeyondTP, LadderTypes
<1>5. \A a, b \in Beyond : Rank(a.source) = Rank(b.source) => a.source = b.source
  BY <1>2, RankOfSource
<1>6. \A a, b \in Level : a.price = b.price /\ a.source = b.source => a = b
  BY DEF Level
<1> QED
  BY <1>1, <1>2, <1>3, <1>4, <1>5, <1>6, RankOfSource

LEMMA NearerIsOrder ==
  ASSUME LadderTypes
  PROVE  OrderedBy(Beyond, NearerOf)
<1>1. \A a, b \in Beyond : <<a, b>> \in NearerOf <=> Before(a, b)
  BY DEF NearerOf
<1>2. \A a \in Beyond : ~Before(a, a)
  BY BeyondTypes DEF Before
<1>3. \A a, b, c \in Beyond : Before(a, b) /\ Before(b, c) => Before(a, c)
  BY BeyondTypes DEF Before
<1>4. \A a, b \in Beyond : a = b \/ Before(a, b) \/ Before(b, a)
  BY BeyondTypes DEF Before
<1> HIDE DEF Beyond
<1> QED
  BY <1>1, <1>2, <1>3, <1>4 DEF OrderedBy

LEMMA CandidatesInPlace ==
  ASSUME LadderTypes
  PROVE  /\ InPlace(Candidates, Beyond, NearerOf)
         /\ Candidates \in Seq(Beyond) /\ Len(Candidates) = Cardinality(Beyond)
<1>1. Candidates = [i \in 1..Cardinality(Beyond) |->
                      CHOOSE c \in Beyond : Cardinality({b \in Beyond : Before(b, c)}) = i - 1]
  BY DEF Candidates, Beyond
<1>2. ASSUME NEW c \in Beyond
      PROVE  PlacesBefore(Beyond, NearerOf, c) = Cardinality({b \in Beyond : Before(b, c)})
  <2>1. {b \in Beyond : <<b, c>> \in NearerOf} = {b \in Beyond : Before(b, c)}
    BY DEF NearerOf
  <2> QED
    BY <2>1 DEF PlacesBefore
<1>3. ASSUME NEW i \in 1..Cardinality(Beyond)
      PROVE  \E c \in Beyond : Cardinality({b \in Beyond : Before(b, c)}) = i - 1
  <2>1. PICK c \in Beyond : PlacesBefore(Beyond, NearerOf, c) = i - 1
    BY NearerIsOrder, BeyondTypes, PlacesTaken
  <2> QED
    BY <1>2, <2>1
<1>4. ASSUME NEW i \in 1..Cardinality(Beyond)
      PROVE  Candidates[i] \in Beyond /\ PlacesBefore(Beyond, NearerOf, Candidates[i]) = i - 1
  <2>1. Candidates[i] = CHOOSE c \in Beyond : Cardinality({b \in Beyond : Before(b, c)}) = i - 1
    BY <1>1
  <2>2. Candidates[i] \in Beyond /\ Cardinality({b \in Beyond : Before(b, Candidates[i])}) = i - 1
    BY <1>3, <2>1
  <2> QED
    BY <1>2, <2>2
<1>5. Cardinality(Beyond) \in Nat
  BY BeyondTypes, FS_CardinalityType
<1>6. Candidates \in [1..Cardinality(Beyond) -> Beyond]
  BY <1>1, <1>4
<1> QED
  BY <1>4, <1>5, <1>6, LenProperties DEF InPlace

(* The ladder after every number of candidates.                            *)
ClimbsOver(g, cs, n) ==
  g = [k \in 0..n |-> IF k = 0 THEN <<>> ELSE Climbed(g[k - 1], cs[k])]

LEMMA ClimbExists ==
  ASSUME NEW cs
  PROVE  \A n \in Nat : \E g : ClimbsOver(g, cs, n)
<1> DEFINE G == {n \in Nat : \E g : ClimbsOver(g, cs, n)}
<1>1. 0 \in G
  <2> DEFINE g == [k \in 0..0 |-> <<>>]
  <2>1. \A k \in 0..0 : g[k] = IF k = 0 THEN <<>> ELSE Climbed(g[k - 1], cs[k])
    OBVIOUS
  <2>2. ClimbsOver(g, cs, 0)
    BY <2>1 DEF ClimbsOver
  <2> QED
    BY <2>2
<1>2. ASSUME NEW n \in Nat, n \in G PROVE n + 1 \in G
  <2>1. PICK g : ClimbsOver(g, cs, n)
    BY <1>2
  <2> DEFINE last == Climbed(g[n], cs[n + 1])
             h == [k \in 0..n + 1 |-> IF k = n + 1 THEN last ELSE g[k]]
  <2>2. \A k \in 0..n : g[k] = IF k = 0 THEN <<>> ELSE Climbed(g[k - 1], cs[k])
    BY <2>1 DEF ClimbsOver
  <2>3. /\ h[n + 1] = last
        /\ \A k \in 0..n : h[k] = g[k]
    OBVIOUS
  <2>4. ASSUME NEW k \in 0..n + 1
        PROVE  h[k] = IF k = 0 THEN <<>> ELSE Climbed(h[k - 1], cs[k])
    <3>1. CASE k = n + 1
      <4>1. k # 0 /\ k - 1 = n /\ n \in 0..n
        BY <3>1
      <4>2. h[k - 1] = g[n]
        BY <2>3, <4>1
      <4> HIDE DEF h
      <4> QED
        BY <2>3, <3>1, <4>1, <4>2
    <3>2. CASE k # n + 1
      <4>1. k \in 0..n /\ (k # 0 => k - 1 \in 0..n)
        BY <3>2
      <4> HIDE DEF h
      <4> QED
        BY <2>2, <2>3, <4>1
    <3> QED
      BY <3>1, <3>2
  <2>5. h = [k \in 0..n + 1 |-> h[k]]
    OBVIOUS
  <2> HIDE DEF h
  <2>6. ClimbsOver(h, cs, n + 1)
    BY <2>4, <2>5 DEF ClimbsOver
  <2> QED
    BY <2>6
<1> HIDE DEF G
<1>3. \A n \in Nat : n \in G
  BY <1>1, <1>2, ByNumbers
<1> QED
  BY <1>3 DEF G

LEMMA LadderClimbs ==
  ASSUME NEW cs, Len(cs) \in Nat
  PROVE  \E g : ClimbsOver(g, cs, Len(cs)) /\ LadderOf(cs) = g[Len(cs)]
<1> DEFINE g == CHOOSE g : ClimbsOver(g, cs, Len(cs))
<1>1. ClimbsOver(g, cs, Len(cs))
  BY ClimbExists
<1>2. LadderOf(cs) = g[Len(cs)]
  BY DEF LadderOf, ClimbsOver
<1> QED
  BY <1>1, <1>2

(* What a ladder r of the first k candidates is.                           *)
DistOf(l) == Dist(l.price)

RungsAmong(r, cs, k) == \A i \in 1..Len(r) : \E j \in 1..k : r[i] = cs[j]

SpacedOut(r) == \A i, j \in 1..Len(r) : i < j => DistOf(r[j]) - DistOf(r[i]) >= Dedupe

Covers(r, l) ==
  \/ \E i \in 1..Len(r) : Near(l, r[i])
  \/ Len(r) = MaxRungs /\ DistOf(r[Len(r)]) < DistOf(l)

GoodLadder(r, cs, k) ==
  /\ r \in Seq(Level) /\ Len(r) <= MaxRungs
  /\ RungsAmong(r, cs, k) /\ SpacedOut(r)
  /\ \A j \in 1..k : Covers(r, cs[j])

NearestFirst(cs) ==
  /\ cs \in Seq(Level)
  /\ \A i \in 1..Len(cs) : DistOf(cs[i]) \in Nat
  /\ \A i, j \in 1..Len(cs) : i < j => DistOf(cs[i]) <= DistOf(cs[j])

LEMMA NearIff ==
  ASSUME NEW a, NEW b, DistOf(a) \in Nat, DistOf(b) \in Nat
  PROVE  Near(a, b) <=> DistOf(a) - DistOf(b) < Dedupe /\ DistOf(b) - DistOf(a) < Dedupe
<1> DEFINE x == Dist(a.price)  y == Dist(b.price)
<1>1. x \in Nat /\ y \in Nat /\ Dedupe \in Nat
  BY LadderAssumption DEF DistOf
<1>2. Near(a, b) <=> x - y \in -Dedupe + 1..Dedupe - 1
  BY DEF Near
<1> HIDE DEF x, y
<1>3. Near(a, b) <=> x - y < Dedupe /\ y - x < Dedupe
  BY <1>1, <1>2
<1> QED
  BY <1>3 DEF x, y, DistOf

LEMMA ClimbKeepsGood ==
  ASSUME NEW cs, NearestFirst(cs), NEW k \in 0..Len(cs) - 1, NEW r, GoodLadder(r, cs, k)
  PROVE  GoodLadder(Climbed(r, cs[k + 1]), cs, k + 1)
<1> DEFINE c == cs[k + 1]
<1>1. /\ Len(cs) \in Nat /\ k + 1 \in 1..Len(cs) /\ c \in Level /\ DistOf(c) \in Nat
      /\ r \in Seq(Level) /\ Len(r) \in Nat /\ DOMAIN r = 1..Len(r)
      /\ MaxRungs \in Nat /\ MaxRungs > 0 /\ Dedupe \in Nat /\ Dedupe > 0 /\ Len(r) <= MaxRungs
  BY LadderAssumption DEF NearestFirst, GoodLadder
<1> DEFINE n == Len(r)
<1>0. n \in Nat /\ MaxRungs \in Nat /\ MaxRungs > 0 /\ n <= MaxRungs
  BY <1>1
<1>2. ASSUME NEW i \in 1..Len(r)
      PROVE  DistOf(r[i]) \in Nat /\ DistOf(r[i]) <= DistOf(c)
  <2>1. PICK j \in 1..k : r[i] = cs[j]
    BY DEF GoodLadder, RungsAmong
  <2>2. j \in 1..Len(cs) /\ j < k + 1
    BY <1>1
  <2> QED
    BY <1>1, <2>1, <2>2 DEF NearestFirst
<1>3. \A j \in 1..k + 1 : j \in 1..k \/ j = k + 1
  OBVIOUS
<1> HIDE DEF c
<1>7. Covers(r, c) => GoodLadder(r, cs, k + 1)
  <2>1. ASSUME Covers(r, c), NEW j \in 1..k + 1 PROVE Covers(r, cs[j])
    BY <1>3, <2>1 DEF GoodLadder, c
  <2>2. RungsAmong(r, cs, k + 1)
    <3>1. \A j \in 1..k : j \in 1..k + 1
      OBVIOUS
    <3> QED
      BY <3>1 DEF GoodLadder, RungsAmong
  <2> QED
    BY <2>1, <2>2 DEF GoodLadder
<1>4. CASE \E i \in 1..Len(r) : Near(c, r[i])
  <2>1. Climbed(r, c) = r
    BY <1>1, <1>4 DEF Climbed
  <2>2. Covers(r, c)
    BY <1>4 DEF Covers
  <2> QED
    BY <1>7, <2>1, <2>2 DEF c
<1>5. CASE Len(r) >= MaxRungs /\ ~\E i \in 1..Len(r) : Near(c, r[i])
  <2>1. Climbed(r, c) = r
    BY <1>5 DEF Climbed
  <2>0. n >= MaxRungs
    BY <1>5
  <2>2. Len(r) = MaxRungs /\ Len(r) \in 1..Len(r)
    <3> HIDE DEF n
    <3>1. n = MaxRungs /\ n \in 1..n
      BY <1>0, <2>0
    <3> QED
      BY <3>1 DEF n
  <2>3. DistOf(r[Len(r)]) < DistOf(c)
    BY <1>1, <1>2, <1>5, <2>2, NearIff
  <2>4. Covers(r, c)
    BY <2>2, <2>3 DEF Covers
  <2> QED
    BY <1>7, <2>1, <2>4 DEF c
<1>6. CASE Len(r) < MaxRungs /\ ~\E i \in 1..Len(r) : Near(c, r[i])
  <2> DEFINE s == Append(r, c)
  <2>1. Climbed(r, c) = s
    <3>1. ~(Len(r) >= MaxRungs) /\ ~\E i \in DOMAIN r : Near(c, r[i])
      BY <1>1, <1>6
    <3> QED
      BY <3>1, Zenon DEF Climbed
  <2>2. /\ s \in Seq(Level) /\ Len(s) = Len(r) + 1
        /\ \A i \in 1..Len(r) : s[i] = r[i]
        /\ s[Len(r) + 1] = c
    BY <1>1
  <2> HIDE DEF s
  <2>3. Len(s) <= MaxRungs
    BY <1>1, <1>6, <2>2
  <2>4. ASSUME NEW i \in 1..Len(s) PROVE i \in 1..Len(r) \/ i = Len(r) + 1
    BY <1>1, <2>2
  <2>5. ASSUME NEW i \in 1..Len(s) PROVE \E j \in 1..k + 1 : s[i] = cs[j]
    <3>1. CASE i \in 1..Len(r)
      <4>1. PICK j \in 1..k : r[i] = cs[j]
        BY <3>1 DEF GoodLadder, RungsAmong
      <4>2. j \in 1..k + 1
        OBVIOUS
      <4> QED
        BY <2>2, <3>1, <4>1, <4>2
    <3>2. CASE i = Len(r) + 1
      <4>1. k + 1 \in 1..k + 1
        OBVIOUS
      <4> QED
        BY <2>2, <3>2, <4>1 DEF c
    <3> QED
      BY <2>4, <3>1, <3>2
  <2>6. ASSUME NEW i \in 1..Len(s), NEW j \in 1..Len(s), i < j
        PROVE  DistOf(s[j]) - DistOf(s[i]) >= Dedupe
    <3>1. i \in 1..Len(r)
      BY <1>1, <2>2, <2>6
    <3>2. CASE j \in 1..Len(r)
      BY <2>2, <2>6, <3>1, <3>2 DEF GoodLadder, SpacedOut
    <3>3. CASE j = Len(r) + 1
      <4>1. ~Near(c, r[i]) /\ DistOf(r[i]) \in Nat /\ DistOf(r[i]) <= DistOf(c)
        BY <1>2, <1>6, <3>1
      <4>2. DistOf(c) - DistOf(r[i]) >= Dedupe
        BY <1>1, <4>1, NearIff
      <4> QED
        BY <2>2, <3>1, <3>3, <4>2
    <3> QED
      BY <2>4, <3>2, <3>3
  <2>7. ASSUME NEW j \in 1..k + 1 PROVE \E i \in 1..Len(s) : Near(cs[j], s[i])
    <3>1. CASE j = k + 1
      <4>1. Near(c, c) /\ Len(r) + 1 \in 1..Len(s)
        BY <1>1, <2>2, NearIff
      <4> QED
        BY <2>2, <3>1, <4>1 DEF c
    <3>2. CASE j \in 1..k
      <4>1. Len(r) # MaxRungs
        <5>1. n < MaxRungs
          BY <1>6
        <5> HIDE DEF n
        <5>2. n # MaxRungs
          BY <1>0, <5>1
        <5> QED
          BY <5>2 DEF n
      <4>2. PICK i \in 1..Len(r) : Near(cs[j], r[i])
        BY <3>2, <4>1 DEF Covers, GoodLadder
      <4>3. i \in 1..Len(s) /\ s[i] = r[i]
        BY <1>1, <2>2
      <4> QED
        BY <4>2, <4>3
    <3> QED
      BY <1>3, <3>1, <3>2
  <2>8. GoodLadder(s, cs, k + 1)
    BY <2>2, <2>3, <2>5, <2>6, <2>7 DEF GoodLadder, RungsAmong, SpacedOut, Covers
  <2> QED
    BY <2>1, <2>8 DEF c
<1> QED
  BY <1>1, <1>4, <1>5, <1>6

LEMMA LadderGood ==
  ASSUME NEW cs, NearestFirst(cs)
  PROVE  GoodLadder(LadderOf(cs), cs, Len(cs))
<1>1. Len(cs) \in Nat
  BY DEF NearestFirst
<1>2. PICK g : ClimbsOver(g, cs, Len(cs)) /\ LadderOf(cs) = g[Len(cs)]
  BY <1>1, LadderClimbs
<1>3. \A k \in 0..Len(cs) : g[k] = IF k = 0 THEN <<>> ELSE Climbed(g[k - 1], cs[k])
  BY <1>2 DEF ClimbsOver
<1> DEFINE G == {k \in Nat : k <= Len(cs) => GoodLadder(g[k], cs, k)}
<1>4. 0 \in G
  <2>1. g[0] = <<>> /\ MaxRungs \in Nat
    BY <1>1, <1>3, LadderAssumption
  <2>2. GoodLadder(<<>>, cs, 0)
    BY <2>1 DEF GoodLadder, RungsAmong, SpacedOut
  <2> QED
    BY <2>1, <2>2
<1>5. ASSUME NEW k \in Nat, k \in G PROVE k + 1 \in G
  <2> SUFFICES ASSUME k + 1 <= Len(cs) PROVE GoodLadder(g[k + 1], cs, k + 1)
    OBVIOUS
  <2>1. k \in 0..Len(cs) - 1 /\ k + 1 \in 0..Len(cs) /\ k + 1 # 0 /\ (k + 1) - 1 = k
    BY <1>1
  <2>2. GoodLadder(g[k], cs, k)
    BY <1>1, <1>5, <2>1
  <2>3. g[k + 1] = Climbed(g[k], cs[k + 1])
    BY <1>3, <2>1
  <2> QED
    BY <2>1, <2>2, <2>3, ClimbKeepsGood
<1> HIDE DEF G
<1>6. \A k \in Nat : k \in G
  BY <1>4, <1>5, ByNumbers
<1> QED
  BY <1>1, <1>2, <1>6 DEF G

LEMMA CandidatesNearestFirst ==
  ASSUME LadderTypes
  PROVE  NearestFirst(Candidates)
<1>1. /\ Candidates \in Seq(Beyond) /\ Len(Candidates) = Cardinality(Beyond)
      /\ \A i, j \in 1..Cardinality(Beyond) : i < j => <<Candidates[i], Candidates[j]>> \in NearerOf
  BY CandidatesInPlace, NearerIsOrder, BeyondTypes, PlacedInOrder
<1>2. Beyond \subseteq Level
  BY DEF Beyond, LadderTypes
<1>3. Candidates \in Seq(Level)
  BY <1>1, <1>2
<1>4. \A i \in 1..Len(Candidates) : Candidates[i] \in Beyond
  BY <1>1
<1>5. \A i \in 1..Len(Candidates) : DistOf(Candidates[i]) \in Nat
  BY <1>4, BeyondTypes DEF DistOf
<1>6. ASSUME NEW i \in 1..Len(Candidates), NEW j \in 1..Len(Candidates), i < j
      PROVE  DistOf(Candidates[i]) <= DistOf(Candidates[j])
  <2>1. Before(Candidates[i], Candidates[j])
    BY <1>1, <1>6 DEF NearerOf
  <2> QED
    BY <1>5, <2>1 DEF Before, DistOf
<1> QED
  BY <1>3, <1>5, <1>6 DEF NearestFirst

(* LadderFaithful follows from the types alone, whatever was found.        *)
LEMMA FaithfulLadder ==
  ASSUME LadderTypes
  PROVE  LadderFaithful
<1> DEFINE r == Ladder
           n == Len(Ladder)
<1>1. GoodLadder(r, Candidates, Len(Candidates))
  BY CandidatesNearestFirst, LadderGood DEF Ladder
<1>2. /\ Candidates \in Seq(Beyond)
      /\ \A c \in Beyond : \E j \in 1..Len(Candidates) : Candidates[j] = c
  BY CandidatesInPlace, NearerIsOrder, BeyondTypes, PlacedInOrder
<1>3. /\ r \in Seq(Level) /\ n \in Nat /\ DOMAIN r = 1..n /\ n <= MaxRungs
      /\ Dedupe \in Nat /\ Dedupe > 0 /\ MaxRungs \in Nat /\ MaxRungs > 0
  BY <1>1, LadderAssumption DEF GoodLadder
<1>4. ASSUME NEW i \in 1..n PROVE r[i] \in Beyond /\ BeyondTP(r[i].price) /\ DistOf(r[i]) \in Nat
  <2>1. PICK j \in 1..Len(Candidates) : r[i] = Candidates[j]
    BY <1>1 DEF GoodLadder, RungsAmong
  <2>2. r[i] \in Beyond
    BY <1>2, <2>1
  <2>3. DistOf(r[i]) \in Nat
    BY <2>2, BeyondTypes DEF DistOf
  <2> QED
    BY <2>2, <2>3 DEF Beyond
<1> HIDE DEF r, n
<1>5. ASSUME NEW i \in 1..n, i > 1 PROVE Dist(r[i].price) - Dist(r[i - 1].price) >= Dedupe
  <2>1. i - 1 \in 1..n /\ i - 1 < i
    BY <1>3, <1>5
  <2> QED
    BY <1>1, <2>1 DEF GoodLadder, SpacedOut, DistOf, n, r
<1>6. ASSUME NEW l \in levels, BeyondTP(l.price)
      PROVE  \/ \E i \in 1..n : Near(l, r[i])
             \/ n = MaxRungs /\ Dist(r[n].price) < Dist(l.price)
  <2>1. PICK j \in 1..Len(Candidates) : Candidates[j] = l
    BY <1>2, <1>6 DEF Beyond
  <2>2. Covers(r, l)
    BY <1>1, <2>1 DEF GoodLadder
  <2> QED
    BY <2>2 DEF Covers, DistOf, n, r
<1>7. Last(r) = r[n]
  BY DEF Last, n, r
<1>8. ASSUME NEW mfe \in {Dist(p) : p \in Prices}
      PROVE  Reached(mfe) = 1..Cardinality(Reached(mfe))
  <2> DEFINE S == {i \in 1..n : mfe >= DistOf(r[i])}
  <2>1. mfe \in Nat
    BY <1>8, LadderAssumption DEF Dist, EntryPrice
  <2>2. ASSUME NEW i \in S, NEW j \in 1..n, j <= i PROVE j \in S
    <3>1. CASE j = i
      BY <3>1
    <3>2. CASE j < i
      <4>1. DistOf(r[i]) - DistOf(r[j]) >= Dedupe
        BY <1>1, <3>2 DEF GoodLadder, SpacedOut, n, r
      <4>2. DistOf(r[i]) \in Nat /\ DistOf(r[j]) \in Nat
        BY <1>4
      <4>3. mfe >= DistOf(r[i])
        BY <2>2
      <4>4. mfe >= DistOf(r[j])
        BY <1>3, <2>1, <4>1, <4>2, <4>3
      <4> QED
        BY <4>4
    <3> QED
      BY <1>3, <2>2, <3>1, <3>2
  <2>3. Reached(mfe) = S
    BY <1>3 DEF Reached, DistOf, r
  <2>4. S \in SUBSET (1..n)
    OBVIOUS
  <2> HIDE DEF S
  <2>5. S = 1..Cardinality(S)
    BY <1>3, <2>2, <2>4, FirstPart
  <2> QED
    BY <2>3, <2>5
<1> QED
  BY <1>3, <1>4, <1>5, <1>6, <1>7, <1>8, Zenon DEF LadderFaithful, r, n

(* Whatever levels the detectors find, in whatever order, the ladder is    *)
(* the one promised: beyond the target, spaced, complete up to its cap,    *)
(* and reached from the entry outwards.                                    *)
THEOREM LadderIsFaithful == LadderSpec => []LadderFaithful
<1>1. LadderInit => LadderTypes
  BY LadderAssumption, FS_EmptySet DEF LadderInit, LadderTypes
<1>2. LadderTypes /\ [Found]_ladderVars => LadderTypes'
  <2> SUFFICES ASSUME LadderTypes, [Found]_ladderVars PROVE LadderTypes'
    OBVIOUS
  <2>1. CASE Found
    <3>1. PICK price \in Prices, source \in Range(Sources) :
            levels' = levels \cup {[price |-> price, source |-> source]}
      BY <2>1 DEF Found
    <3> DEFINE l == [price |-> price, source |-> source]
    <3>2. l \in Level
      BY DEF Level
    <3> HIDE DEF l
    <3>3. levels' = levels \cup {l}
      BY <3>1 DEF l
    <3>4. IsFiniteSet(levels \cup {l})
      BY FS_AddElement DEF LadderTypes
    <3>5. levels' \in SUBSET Level /\ IsFiniteSet(levels')
      BY <3>2, <3>3, <3>4 DEF LadderTypes
    <3> QED
      BY <2>1, <3>5 DEF Found, LadderTypes
  <2>2. CASE UNCHANGED ladderVars
    BY <2>2 DEF ladderVars, LadderTypes
  <2> QED
    BY <2>1, <2>2
<1>3. LadderTypes => LadderFaithful
  BY FaithfulLadder
<1> QED
  BY <1>1, <1>2, <1>3, PTL DEF LadderSpec

-----------------------------------------------------------------------------
(* There are finitely many resamples of finitely many trades.              *)
LEMMA FunctionsFinite ==
  ASSUME NEW T, IsFiniteSet(T)
  PROVE  \A n \in Nat : IsFiniteSet([1..n -> T])
<1> DEFINE G == {n \in Nat : IsFiniteSet([1..n -> T])}
<1>1. 0 \in G
  <2> DEFINE e == [i \in 1..0 |-> i]
  <2>1. \A f \in [1..0 -> T] : f = e
    OBVIOUS
  <2>2. [1..0 -> T] \in SUBSET {e}
    BY <2>1
  <2> HIDE DEF e
  <2>3. IsFiniteSet([1..0 -> T])
    BY <2>2, FS_Singleton, FS_Subset
  <2> QED
    BY <2>3
<1>2. ASSUME NEW n \in Nat, n \in G PROVE n + 1 \in G
  <2> DEFINE A == [1..n -> T]
             B == [1..n + 1 -> T]
             longer(g, x) == [i \in 1..n + 1 |-> IF i = n + 1 THEN x ELSE g[i]]
             f == [gx \in A \X T |-> longer(gx[1], gx[2])]
  <2>1. IsFiniteSet(A \X T)
    BY <1>2, FS_Product
  <2>2. f \in [A \X T -> B]
    <3>1. \A i \in 1..n + 1 : i = n + 1 \/ i \in 1..n
      OBVIOUS
    <3>2. \A g \in A, x \in T : longer(g, x) \in B
      BY <3>1
    <3> HIDE DEF A, B, longer
    <3> QED
      BY <3>2
  <2>3. ASSUME NEW h \in B PROVE \E gx \in A \X T : f[gx] = h
    <3> DEFINE g == [i \in 1..n |-> h[i]]
    <3>1. g \in A /\ h[n + 1] \in T
      OBVIOUS
    <3>2. longer(g, h[n + 1]) = h
      <4>1. \A i \in 1..n + 1 : longer(g, h[n + 1])[i] = h[i]
        OBVIOUS
      <4> QED
        BY <4>1
    <3>3. f[<<g, h[n + 1]>>] = longer(g, h[n + 1])
      <4> HIDE DEF A, B, longer, g
      <4> QED
        BY <3>1
    <3> HIDE DEF A, B, longer, f, g
    <3> QED
      BY <3>1, <3>2, <3>3
  <2> HIDE DEF A, B, f, longer
  <2>4. f \in Surjection(A \X T, B)
    BY <2>2, <2>3 DEF Surjection
  <2>5. IsFiniteSet(B)
    BY <2>1, <2>4, FS_Surjection
  <2> QED
    BY <2>5 DEF B
<1> HIDE DEF G
<1>3. \A n \in Nat : n \in G
  BY <1>1, <1>2, ByNumbers
<1> QED
  BY <1>3 DEF G

LEMMA PValueType ==
  ASSUME NEW trades, IsFiniteSet(trades)
  PROVE  PValue(trades) \in Nat
<1> DEFINE n == Cardinality(trades)
           resamples == [1..n -> trades]
           losing == {f \in resamples : MapThenSumSet(LAMBDA i : f[i].pnl, 1..n) <= 0}
           a == Cardinality(losing)
           b == Cardinality(resamples)
<1>1. n \in Nat
  BY FS_CardinalityType
<1>2. CASE n < 2
  BY <1>2 DEF PValue
<1>3. CASE ~(n < 2)
  <2>1. IsFiniteSet(resamples) /\ losing \in SUBSET resamples
    <3> HIDE DEF n
    <3>1. IsFiniteSet(resamples)
      BY <1>1, FunctionsFinite
    <3> QED
      BY <3>1
  <2>2. resamples # {}
    <3>1. PICK x \in trades : TRUE
      BY <1>3, FS_EmptySet
    <3>2. [i \in 1..n |-> x] \in resamples
      BY <3>1
    <3> QED
      BY <3>2
  <2>3. PValue(trades) = (100 * a) \div b
    BY <1>3 DEF PValue
  <2> HIDE DEF resamples, losing
  <2>4. a \in Nat /\ b \in Nat /\ b # 0
    BY <2>1, <2>2, FS_Subset, FS_CardinalityType, FS_EmptySet
  <2> HIDE DEF a, b
  <2> QED
    BY <2>3, <2>4
<1> QED
  BY <1>2, <1>3

-----------------------------------------------------------------------------
(* The p-values are ranked in order.                                       *)
PValues(p) == IsFiniteSet(DOMAIN p) /\ \A c \in DOMAIN p : p[c] \in Nat

Place(p, c) == CHOOSE i \in DOMAIN SetToSeq(DOMAIN p) : SetToSeq(DOMAIN p)[i] = c

SmallerIn(p, c, d) == p[c] < p[d] \/ (p[c] = p[d] /\ Place(p, c) < Place(p, d))

SmallerOf(p) == {cd \in (DOMAIN p) \X (DOMAIN p) : SmallerIn(p, cd[1], cd[2])}

LEMMA InSmaller ==
  ASSUME NEW p, NEW c \in DOMAIN p, NEW d \in DOMAIN p
  PROVE  <<c, d>> \in SmallerOf(p) <=> SmallerIn(p, c, d)
BY DEF SmallerOf

LEMMA PlaceInList ==
  ASSUME NEW p, PValues(p), NEW c \in DOMAIN p
  PROVE  Place(p, c) \in Nat /\ SetToSeq(DOMAIN p)[Place(p, c)] = c
<1> DEFINE D == DOMAIN p
           m == Cardinality(D)
           s == SetToSeq(D)
<1>1. IsFiniteSet(D) /\ m \in Nat /\ ExistsBijection(1..m, D)
  BY FS_CardinalityType DEF PValues
<1>2. s \in [1..m -> D] /\ IsInjective(s)
  <2>1. \E f \in [1..m -> D] : IsInjective(f)
    BY <1>1 DEF ExistsBijection, Bijection, Injection
  <2>2. s = CHOOSE f \in [1..m -> D] : IsInjective(f)
    BY DEF SetToSeq
  <2> HIDE DEF s, D, m
  <2> QED
    BY <2>1, <2>2
<1> HIDE DEF D, m, s
<1>3. s \in Injection(1..m, D)
  BY <1>2 DEF Injection
<1>4. Cardinality(1..m) = m
  BY <1>1, FS_Interval
<1>5. s \in Surjection(1..m, D)
  BY <1>1, <1>3, <1>4, FS_Injection DEF m
<1>6. \E i \in DOMAIN s : s[i] = c
  BY <1>2, <1>5 DEF Surjection, D
<1>7. Place(p, c) \in DOMAIN s /\ s[Place(p, c)] = c
  BY <1>6 DEF Place, s, D
<1>8. DOMAIN s = 1..m
  BY <1>2
<1> QED
  BY <1>1, <1>7, <1>8 DEF s, D

LEMMA SmallerIsOrder ==
  ASSUME NEW p, PValues(p)
  PROVE  OrderedBy(DOMAIN p, SmallerOf(p))
<1>1. \A c, d \in DOMAIN p : <<c, d>> \in SmallerOf(p) <=> SmallerIn(p, c, d)
  BY InSmaller
<1>2. \A c \in DOMAIN p : p[c] \in Nat /\ Place(p, c) \in Nat
  BY PlaceInList DEF PValues
<1>3. \A c \in DOMAIN p : ~SmallerIn(p, c, c)
  BY <1>2 DEF SmallerIn
<1>4. \A c, d, e \in DOMAIN p : SmallerIn(p, c, d) /\ SmallerIn(p, d, e) => SmallerIn(p, c, e)
  BY <1>2 DEF SmallerIn
<1>5. \A c, d \in DOMAIN p : Place(p, c) = Place(p, d) => c = d
  BY PlaceInList
<1>6. \A c, d \in DOMAIN p : c = d \/ SmallerIn(p, c, d) \/ SmallerIn(p, d, c)
  BY <1>2, <1>5 DEF SmallerIn
<1> QED
  BY <1>1, <1>3, <1>4, <1>6 DEF OrderedBy

LEMMA RankedInPlace ==
  ASSUME NEW p, PValues(p)
  PROVE  /\ InPlace(Ranked(p), DOMAIN p, SmallerOf(p))
         /\ Ranked(p) \in [1..Cardinality(DOMAIN p) -> DOMAIN p]
<1> DEFINE D == DOMAIN p
<1>1. Ranked(p) = [rank \in 1..Cardinality(D) |->
                     CHOOSE c \in D : Cardinality({d \in D : SmallerIn(p, d, c)}) = rank - 1]
  BY DEF Ranked, SmallerIn, Place
<1>2. ASSUME NEW c \in D
      PROVE  PlacesBefore(D, SmallerOf(p), c) = Cardinality({d \in D : SmallerIn(p, d, c)})
  <2>1. {d \in D : <<d, c>> \in SmallerOf(p)} = {d \in D : SmallerIn(p, d, c)}
    BY InSmaller
  <2> QED
    BY <2>1 DEF PlacesBefore
<1>3. ASSUME NEW i \in 1..Cardinality(D)
      PROVE  Ranked(p)[i] \in D /\ PlacesBefore(D, SmallerOf(p), Ranked(p)[i]) = i - 1
  <2>1. \E c \in D : PlacesBefore(D, SmallerOf(p), c) = i - 1
    BY SmallerIsOrder, PlacesTaken DEF PValues
  <2>2. \E c \in D : Cardinality({d \in D : SmallerIn(p, d, c)}) = i - 1
    BY <1>2, <2>1
  <2>3. Ranked(p)[i] = CHOOSE c \in D : Cardinality({d \in D : SmallerIn(p, d, c)}) = i - 1
    BY <1>1
  <2> HIDE DEF D
  <2>4. Ranked(p)[i] \in D /\ Cardinality({d \in D : SmallerIn(p, d, Ranked(p)[i])}) = i - 1
    BY <2>2, <2>3
  <2> QED
    BY <1>2, <2>4
<1> HIDE DEF D
<1>4. Ranked(p) \in [1..Cardinality(D) -> D]
  BY <1>1, <1>3
<1> QED
  BY <1>3, <1>4 DEF InPlace, D

(* What the ranking is good for: increasing, one to one, complete.         *)
LEMMA RankedOrder ==
  ASSUME NEW p, PValues(p)
  PROVE  /\ \A i, j \in 1..Cardinality(DOMAIN p) : i <= j => p[Ranked(p)[i]] <= p[Ranked(p)[j]]
         /\ \A i, j \in 1..Cardinality(DOMAIN p) : Ranked(p)[i] = Ranked(p)[j] => i = j
         /\ \A c \in DOMAIN p : \E i \in 1..Cardinality(DOMAIN p) : Ranked(p)[i] = c
         /\ \A i \in 1..Cardinality(DOMAIN p) : Ranked(p)[i] \in DOMAIN p
<1> DEFINE m == Cardinality(DOMAIN p)
           s == Ranked(p)
<1>1. /\ \A i, j \in 1..m : i < j => <<s[i], s[j]>> \in SmallerOf(p)
      /\ \A c \in DOMAIN p : \E i \in 1..m : s[i] = c
  BY RankedInPlace, SmallerIsOrder, PlacedInOrder DEF PValues
<1>2. \A i \in 1..m : s[i] \in DOMAIN p /\ p[s[i]] \in Nat
  BY RankedInPlace DEF PValues
<1>3. m \in Nat
  BY FS_CardinalityType DEF PValues
<1>4. \A c \in DOMAIN p : <<c, c>> \notin SmallerOf(p)
  BY SmallerIsOrder DEF OrderedBy
<1> HIDE DEF m, s
<1>5. ASSUME NEW i \in 1..m, NEW j \in 1..m, i < j PROVE p[s[i]] <= p[s[j]] /\ s[i] # s[j]
  <2>1. <<s[i], s[j]>> \in SmallerOf(p)
    BY <1>1, <1>5
  <2>2. SmallerIn(p, s[i], s[j])
    BY <1>2, <2>1, InSmaller
  <2>3. p[s[i]] <= p[s[j]]
    BY <1>2, <2>2 DEF SmallerIn
  <2> QED
    BY <1>2, <1>4, <2>1, <2>3
<1>6. \A i, j \in 1..m : i <= j => p[s[i]] <= p[s[j]]
  <2> SUFFICES ASSUME NEW i \in 1..m, NEW j \in 1..m, i <= j PROVE p[s[i]] <= p[s[j]]
    OBVIOUS
  <2>1. CASE i = j
    BY <1>2, <2>1
  <2>2. CASE i < j
    BY <1>5, <2>2
  <2> QED
    BY <1>3, <2>1, <2>2
<1>7. \A i, j \in 1..m : s[i] = s[j] => i = j
  <2> SUFFICES ASSUME NEW i \in 1..m, NEW j \in 1..m, i # j PROVE s[i] # s[j]
    OBVIOUS
  <2>1. CASE i < j
    BY <1>5, <2>1
  <2>2. CASE j < i
    BY <1>5, <2>2
  <2> QED
    BY <1>3, <2>1, <2>2
<1> QED
  BY <1>1, <1>2, <1>6, <1>7 DEF m, s

(* Benjamini and Hochberg: what the q-values reject is what the step-up    *)
(* procedure rejects.  From a q-value: all that rank up to the one that    *)
(* gives it are as small.                                                  *)
LEMMA TimesGrows ==
  ASSUME NEW a \in Nat, NEW b \in Nat, NEW c \in Nat, a <= b
  PROVE  a * c \in Nat /\ b * c \in Nat /\ a * c <= b * c
<1>1. PICK d \in Nat : b = a + d
  <2>1. b - a \in Nat /\ b = a + (b - a)
    OBVIOUS
  <2> QED
    BY <2>1
<1>2. b * c = a * c + d * c /\ a * c \in Nat /\ d * c \in Nat
  BY <1>1
<1> DEFINE x == a * c
           y == d * c
           z == b * c
<1>3. x \in Nat /\ y \in Nat /\ z = x + y
  BY <1>2
<1> HIDE DEF x, y, z
<1>4. z \in Nat /\ x <= z
  BY <1>3
<1> QED
  BY <1>3, <1>4 DEF x, z

LEMMA RejectsIff ==
  ASSUME NEW p, PValues(p), NEW c
  PROVE  c \in Rejects(p) <=>
           \E rank, r \in 1..Cardinality(DOMAIN p) :
             /\ c = Ranked(p)[rank] /\ rank <= r
             /\ p[Ranked(p)[r]] * Cardinality(DOMAIN p) <= FDR * r
<1> DEFINE m == Cardinality(DOMAIN p)
           s == Ranked(p)
           ps == [r \in 1..m |-> p[s[r]]]
<1>1. m \in Nat
  BY FS_CardinalityType DEF PValues
<1>2. s \in [1..m -> DOMAIN p] /\ DOMAIN s = 1..m
  BY RankedInPlace
<1>3. Len(ps) = m /\ DOMAIN ps = 1..m
  BY <1>1
<1>4. Rejects(p) = {s[rank] : rank \in {r \in DOMAIN ps : QAtMost(ps, r)}}
  BY <1>2 DEF Rejects
<1>5. \A rank \in 1..m : QAtMost(ps, rank) <=> \E r \in rank..m : ps[r] * m <= FDR * r
  BY <1>3 DEF QAtMost, RawAtMost
<1>6. \A r \in 1..m : ps[r] = p[s[r]]
  OBVIOUS
<1> HIDE DEF m, s, ps
<1>7. c \in Rejects(p) <=> \E rank \in 1..m : c = s[rank] /\ QAtMost(ps, rank)
  BY <1>3, <1>4
<1>8. ASSUME NEW rank \in 1..m
      PROVE  QAtMost(ps, rank) <=> \E r \in 1..m : rank <= r /\ p[s[r]] * m <= FDR * r
  <2>1. ASSUME NEW r \in rank..m PROVE r \in 1..m /\ rank <= r
    BY <1>1
  <2>2. ASSUME NEW r \in 1..m, rank <= r PROVE r \in rank..m
    BY <1>1, <2>2
  <2> QED
    BY <1>5, <1>6, <2>1, <2>2
<1> QED
  BY <1>7, <1>8 DEF m, s

LEMMA RejectedSteppedUp ==
  ASSUME NEW p, PValues(p)
  PROVE  Rejects(p) \subseteq StepUp(p)
<1> DEFINE m == Cardinality(DOMAIN p)
           s == Ranked(p)
           small(k) == {d \in DOMAIN p : p[d] * m <= k * FDR}
<1>0. m \in Nat /\ FDR \in Nat
  BY FS_CardinalityType, ValidationAssumption DEF PValues
<1>1. /\ \A i, j \in 1..m : i <= j => p[s[i]] <= p[s[j]]
      /\ \A i, j \in 1..m : s[i] = s[j] => i = j
      /\ \A i \in 1..m : s[i] \in DOMAIN p /\ p[s[i]] \in Nat
  BY RankedOrder DEF PValues
<1>2. \A c : c \in StepUp(p) <=> c \in DOMAIN p /\ \E k \in 1..m :
                                   p[c] * m <= k * FDR /\ Cardinality(small(k)) >= k
  BY DEF StepUp
<1> SUFFICES ASSUME NEW c \in Rejects(p) PROVE c \in StepUp(p)
  OBVIOUS
<1>3. PICK rank \in 1..m, r \in 1..m : c = s[rank] /\ rank <= r /\ p[s[r]] * m <= FDR * r
  BY RejectsIff
<1> HIDE DEF m, s
<1>4. FDR * r = r * FDR /\ r * FDR \in Nat
  BY <1>0
<1>5. ASSUME NEW i \in 1..m, i <= r PROVE p[s[i]] * m <= r * FDR
  <2>1. p[s[i]] \in Nat /\ p[s[r]] \in Nat /\ p[s[i]] <= p[s[r]]
    BY <1>1, <1>5
  <2>2. p[s[i]] * m \in Nat /\ p[s[r]] * m \in Nat /\ p[s[i]] * m <= p[s[r]] * m
    BY <1>0, <2>1, TimesGrows
  <2> DEFINE x == p[s[i]] * m
             y == p[s[r]] * m
             z == r * FDR
  <2>3. x \in Nat /\ y \in Nat /\ z \in Nat /\ x <= y /\ y <= z
    BY <1>3, <1>4, <2>2
  <2> HIDE DEF x, y, z
  <2>4. x <= z
    BY <2>3
  <2> QED
    BY <2>4 DEF x, z
<1>6. Cardinality(small(r)) >= r
  <2> DEFINE f == [i \in 1..r |-> s[i]]
  <2>1. \A i \in 1..r : i \in 1..m /\ i <= r
    BY <1>0
  <2>2. \A i \in 1..r : s[i] \in small(r)
    BY <1>1, <1>5, <2>1
  <2>3. IsFiniteSet(small(r))
    BY FS_Subset DEF PValues
  <2>4. \A i, j \in 1..r : f[i] = f[j] => i = j
    BY <1>1, <2>1
  <2> HIDE DEF small
  <2>5. f \in [1..r -> small(r)]
    BY <2>2
  <2> HIDE DEF f
  <2>6. f \in Injection(1..r, small(r))
    BY <2>4, <2>5 DEF Injection, IsInjective
  <2>7. Cardinality(1..r) = r
    BY <1>0, FS_Interval
  <2>8. Cardinality(1..r) <= Cardinality(small(r))
    BY <2>3, <2>6, FS_Injection
  <2>9. Cardinality(small(r)) \in Nat
    BY <2>3, FS_CardinalityType
  <2> QED
    BY <2>7, <2>8, <2>9
<1>7. c \in DOMAIN p /\ p[c] * m <= r * FDR
  BY <1>1, <1>3, <1>5
<1> HIDE DEF small
<1> QED
  BY <1>2, <1>6, <1>7

(* And from a rank of the step-up procedure: the cells as small as its     *)
(* bound are the first in the ranking, and the last of them gives all of   *)
(* these a q-value that is low enough.                                     *)
LEMMA SteppedUpRejected ==
  ASSUME NEW p, PValues(p)
  PROVE  StepUp(p) \subseteq Rejects(p)
<1> DEFINE m == Cardinality(DOMAIN p)
           s == Ranked(p)
           small(k) == {d \in DOMAIN p : p[d] * m <= k * FDR}
<1>0. m \in Nat /\ FDR \in Nat
  BY FS_CardinalityType, ValidationAssumption DEF PValues
<1>1. /\ \A i, j \in 1..m : i <= j => p[s[i]] <= p[s[j]]
      /\ \A c \in DOMAIN p : \E i \in 1..m : s[i] = c
      /\ \A i \in 1..m : s[i] \in DOMAIN p /\ p[s[i]] \in Nat
  BY RankedOrder DEF PValues
<1> SUFFICES ASSUME NEW c \in StepUp(p) PROVE c \in Rejects(p)
  OBVIOUS
<1>2. PICK k \in 1..m : p[c] * m <= k * FDR /\ Cardinality(small(k)) >= k
  BY DEF StepUp
<1>3. c \in small(k)
  BY <1>2 DEF StepUp
<1>4. IsFiniteSet(small(k)) /\ Cardinality(small(k)) \in Nat
  BY FS_Subset, FS_CardinalityType DEF PValues
<1>5. \A d : d \in small(k) <=> d \in DOMAIN p /\ p[d] * m <= k * FDR
  OBVIOUS
<1> HIDE DEF m, s, small
<1> DEFINE first == {i \in 1..m : s[i] \in small(k)}
           r == Cardinality(first)
<1>6. ASSUME NEW i \in first, NEW j \in 1..m, j <= i PROVE j \in first
  <2>1. p[s[j]] \in Nat /\ p[s[i]] \in Nat /\ p[s[j]] <= p[s[i]]
    BY <1>1, <1>6
  <2>2. p[s[j]] * m \in Nat /\ p[s[i]] * m \in Nat /\ p[s[j]] * m <= p[s[i]] * m
    BY <1>0, <2>1, TimesGrows
  <2> DEFINE x == p[s[j]] * m
             y == p[s[i]] * m
             z == k * FDR
  <2>3. x \in Nat /\ y \in Nat /\ z \in Nat /\ x <= y /\ y <= z
    BY <1>0, <1>5, <1>6, <2>2
  <2> HIDE DEF x, y, z
  <2>4. x <= z
    BY <2>3
  <2>5. s[j] \in small(k)
    BY <1>1, <1>5, <2>4 DEF x, z
  <2> QED
    BY <2>5
<1>7. first \in SUBSET (1..m)
  OBVIOUS
<1>8. first = 1..r
  <2> HIDE DEF first
  <2> QED
    BY <1>0, <1>6, <1>7, FirstPart
<1>9. IsFiniteSet(first) /\ r \in Nat
  <2>1. IsFiniteSet(1..m)
    BY <1>0, FS_Interval
  <2> HIDE DEF first
  <2>2. IsFiniteSet(first)
    BY <1>7, <2>1, FS_Subset
  <2> QED
    BY <2>2, FS_CardinalityType
<1>10. Cardinality(small(k)) <= r
  <2> DEFINE f == [i \in first |-> s[i]]
  <2>1. f \in [first -> small(k)]
    OBVIOUS
  <2>2. \A d \in small(k) : \E i \in first : f[i] = d
    BY <1>1, <1>5
  <2> HIDE DEF f, first
  <2>3. f \in Surjection(first, small(k))
    BY <2>1, <2>2 DEF Surjection
  <2> QED
    BY <1>9, <2>3, FS_Surjection
<1>11. PICK rank \in first : s[rank] = c
  BY <1>1, <1>3, <1>5
<1>12. rank \in 1..m /\ rank <= r /\ r \in first /\ r \in 1..m /\ s[r] \in small(k)
  <2>1. rank \in 1..r
    BY <1>8
  <2>2. r \in 1..r /\ rank <= r
    <3> HIDE DEF r
    <3> QED
      BY <1>9, <2>1
  <2>3. r \in first
    BY <1>8, <2>2
  <2> QED
    BY <2>2, <2>3
<1> HIDE DEF first, r
<1>13. p[s[r]] * m <= FDR * r
  <2>1. k <= r
    BY <1>2, <1>4, <1>9, <1>10
  <2>2. k * FDR \in Nat /\ r * FDR \in Nat /\ k * FDR <= r * FDR
    BY <1>0, <1>9, <2>1, TimesGrows
  <2>3. p[s[r]] * m <= k * FDR /\ p[s[r]] \in Nat
    BY <1>1, <1>5, <1>12
  <2>4. p[s[r]] * m \in Nat
    BY <1>0, <2>3
  <2>5. r * FDR = FDR * r
    BY <1>0, <1>9
  <2> DEFINE x == p[s[r]] * m
             y == k * FDR
             z == r * FDR
  <2>6. x \in Nat /\ y \in Nat /\ z \in Nat /\ x <= y /\ y <= z
    BY <2>2, <2>3, <2>4
  <2> HIDE DEF x, y, z
  <2>7. x <= z
    BY <2>6
  <2> QED
    BY <2>5, <2>7 DEF x, z
<1> QED
  BY <1>11, <1>12, <1>13, RejectsIff DEF m, s

LEMMA RejectsAreStepUp ==
  ASSUME NEW p, PValues(p)
  PROVE  Rejects(p) = StepUp(p)
BY RejectedSteppedUp, SteppedUpRejected

-----------------------------------------------------------------------------
(* The p-values of slices of what was made are p-values.                   *)
Made(m) == m \in [Groups -> SUBSET History]

LEMMA SlicesFinite ==
  ASSUME NEW m, Made(m), NEW c \in Cells, NEW from, NEW to
  PROVE  IsFiniteSet(Slice(m[c[1]], from, to, c[2]))
<1>1. c[1] \in Groups
  BY DEF Cells
<1>2. Slice(m[c[1]], from, to, c[2]) \in SUBSET History
  BY <1>1 DEF Made, Slice
<1> QED
  BY <1>2, FS_Subset, ValidationAssumption

LEMMA CellsFinite == IsFiniteSet(Cells)
BY ValidationAssumption, FS_Product DEF Cells

LEMMA GridPValues ==
  ASSUME NEW m, Made(m)
  PROVE  PValues([c \in Cells |-> PValue(Slice(m[c[1]], 1, Years, c[2]))])
<1>1. \A c \in Cells : PValue(Slice(m[c[1]], 1, Years, c[2])) \in Nat
  BY SlicesFinite, PValueType
<1> QED
  BY <1>1, CellsFinite DEF PValues

LEMMA WindowPValues ==
  ASSUME NEW m, Made(m), NEW w
  PROVE  PValues([d \in Cells |-> PValue(IS(m, w, d))])
<1>1. \A d \in Cells : PValue(IS(m, w, d)) \in Nat
  BY SlicesFinite, PValueType DEF IS
<1> QED
  BY <1>1, CellsFinite DEF PValues

(* A robust cell passes in half of the years, and gains in these.          *)
LEMMA RobustGains ==
  ASSUME NEW m, NEW c \in Robust(m)
  PROVE  2 * Cardinality({w \in WindowStarts : Gain(OOS(m, w, c)) > 0}) >= Cardinality(WindowStarts)
<1> DEFINE Passed == {w \in WindowStarts : PassesOOS(m, w, c)}
           Gained == {w \in WindowStarts : Gain(OOS(m, w, c)) > 0}
<1>1. 2 * Cardinality(Passed) >= Cardinality(WindowStarts)
  BY DEF Robust
<1>2. Passed \in SUBSET Gained
  BY DEF PassesOOS
<1>3. IsFiniteSet(WindowStarts)
  <2>1. Years - ISYears \in Int
    BY ValidationAssumption
  <2> QED
    BY <2>1, FS_Interval DEF WindowStarts
<1>4. Gained \in SUBSET WindowStarts
  OBVIOUS
<1> HIDE DEF Passed, Gained
<1>5. IsFiniteSet(Gained)
  BY <1>3, <1>4, FS_Subset
<1>6. Cardinality(Passed) <= Cardinality(Gained) /\ IsFiniteSet(Passed)
  BY <1>2, <1>5, FS_Subset
<1>7. /\ Cardinality(Passed) \in Nat /\ Cardinality(Gained) \in Nat
      /\ Cardinality(WindowStarts) \in Nat
  BY <1>3, <1>5, <1>6, FS_CardinalityType
<1>8. 2 * Cardinality(Gained) >= Cardinality(WindowStarts)
  BY <1>1, <1>6, <1>7
<1> QED
  BY <1>8 DEF Gained

LEMMA RobustSelected ==
  ASSUME NEW m, Made(m), NEW c \in Robust(m), NEW w \in WindowStarts
  PROVE  /\ c \in StepUp([d \in Cells |-> PValue(IS(m, w, d))])
         /\ Gain(IS(m, w, c)) > 0
         /\ IS(m, w, c) \cap OOS(m, w, c) = {}
<1>1. SurvivesBH(m, w, c)
  BY DEF Robust
<1>2. c \in StepUp([d \in Cells |-> PValue(IS(m, w, d))])
  BY <1>1, WindowPValues, RejectsAreStepUp DEF SurvivesBH
<1>3. IS(m, w, c) \cap OOS(m, w, c) = {}
  <2>1. w \in Int /\ ISYears \in Int
    BY ValidationAssumption DEF WindowStarts
  <2>2. \A t \in IS(m, w, c) : t.year \in w..w + ISYears - 1
    BY DEF IS, Slice
  <2>3. \A t \in OOS(m, w, c) : t.year \in w + ISYears..w + ISYears
    BY DEF OOS, Slice
  <2>4. \A t : ~(t.year \in w..w + ISYears - 1 /\ t.year \in w + ISYears..w + ISYears)
    BY <2>1
  <2> QED
    BY <2>2, <2>3, <2>4
<1> QED
  BY <1>1, <1>2, <1>3 DEF SurvivesBH

(* A cache that is current holds what is made now, and a verdict that is   *)
(* said to be current was reached from that.                               *)
CurrentInv ==
  /\ Made(made) /\ current \in BOOLEAN
  /\ current /\ saved # Absent => saved = made
  /\ verdict # Absent /\ verdict.current =>
       verdict.cells = IF verdict.by = "grid" THEN GridSurvivors(made) ELSE Robust(made)

LEMMA CurrentIsHonest ==
  ASSUME CurrentInv
  PROVE  VerdictHonest
<1>1. Made(made)
  BY DEF CurrentInv
<1> SUFFICES ASSUME verdict # Absent, verdict.current
    PROVE  IF verdict.by = "grid"
           THEN verdict.cells = StepUp([c \in Cells |-> PValue(Slice(made[c[1]], 1, Years, c[2]))])
           ELSE \A c \in verdict.cells :
                  /\ \A w \in WindowStarts :
                       /\ c \in StepUp([d \in Cells |-> PValue(IS(made, w, d))])
                       /\ Gain(IS(made, w, c)) > 0
                       /\ IS(made, w, c) \cap OOS(made, w, c) = {}
                  /\ 2 * Cardinality({w \in WindowStarts : Gain(OOS(made, w, c)) > 0})
                       >= Cardinality(WindowStarts)
  BY DEF VerdictHonest
<1>2. CASE verdict.by = "grid"
  <2>1. verdict.cells = GridSurvivors(made)
    BY <1>2 DEF CurrentInv
  <2>2. verdict.cells = StepUp([c \in Cells |-> PValue(Slice(made[c[1]], 1, Years, c[2]))])
    BY <1>1, <2>1, GridPValues, RejectsAreStepUp DEF GridSurvivors
  <2> QED
    BY <1>2, <2>2
<1>3. CASE verdict.by # "grid"
  <2>1. verdict.cells = Robust(made)
    BY <1>3 DEF CurrentInv
  <2>2. ASSUME NEW c \in Robust(made)
        PROVE  /\ \A w \in WindowStarts :
                    /\ c \in StepUp([d \in Cells |-> PValue(IS(made, w, d))])
                    /\ Gain(IS(made, w, c)) > 0
                    /\ IS(made, w, c) \cap OOS(made, w, c) = {}
               /\ 2 * Cardinality({w \in WindowStarts : Gain(OOS(made, w, c)) > 0})
                    >= Cardinality(WindowStarts)
    BY <1>1, <2>2, RobustSelected, RobustGains
  <2> QED
    BY <1>3, <2>1, <2>2
<1> QED
  BY <1>2, <1>3

(* Whatever is traded, in however many windows, for every rate and number  *)
(* of cells: a survivor of the grid is one of the step-up procedure, and a *)
(* robust cell was selected among all, by trades that confirm nothing, in  *)
(* every window.                                                           *)
THEOREM VerdictsAreHonest == ValidSpec => []VerdictHonest
<1>1. ValidInit => CurrentInv
  BY DEF ValidInit, CurrentInv, Made
<1>2. CurrentInv /\ [ValidNext]_validVars => CurrentInv'
  <2> SUFFICES ASSUME CurrentInv, [ValidNext]_validVars PROVE CurrentInv'
    OBVIOUS
  <2>1. CASE Changes
    BY <2>1 DEF Changes, CurrentInv, Made
  <2>2. CASE CacheLost
    BY <2>2 DEF CacheLost, CurrentInv, Made, GridSurvivors
  <2>3. CASE WalkForward
    <3> DEFINE v == [by |-> "walk_forward", cells |-> Robust(saved'), current |-> current']
    <3>1. /\ verdict' = v /\ made' = made
          /\ saved' = IF saved = Absent THEN made ELSE saved
          /\ current' = (current \/ saved = Absent)
      BY <2>3 DEF WalkForward
    <3>2. current' => saved' = made
      BY <3>1 DEF CurrentInv
    <3>3. v.by = "walk_forward" /\ v.current = current' /\ v.cells = Robust(saved')
      OBVIOUS
    <3>4. Made(made)' /\ current' \in BOOLEAN
      BY <3>1 DEF CurrentInv, Made
    <3> HIDE DEF v
    <3>5. verdict'.current => verdict'.cells = Robust(made') /\ verdict'.by # "grid"
      BY <3>1, <3>2, <3>3
    <3> QED
      BY <3>1, <3>2, <3>4, <3>5 DEF CurrentInv
  <2>4. CASE Ablation
    <3> DEFINE v == [by |-> "grid", cells |-> GridSurvivors(made), current |-> TRUE]
    <3>1. verdict' = v /\ UNCHANGED <<made, saved, current>>
      BY <2>4 DEF Ablation
    <3>2. v.by = "grid" /\ v.cells = GridSurvivors(made)
      OBVIOUS
    <3> HIDE DEF v
    <3> QED
      BY <3>1, <3>2 DEF CurrentInv, Made
  <2>5. CASE UNCHANGED validVars
    BY <2>5 DEF validVars, CurrentInv, Made, GridSurvivors
  <2> QED
    BY <2>1, <2>2, <2>3, <2>4, <2>5 DEF ValidNext
<1>3. CurrentInv => VerdictHonest
  BY CurrentIsHonest
<1> QED
  BY <1>1, <1>2, <1>3, PTL DEF ValidSpec

-----------------------------------------------------------------------------
(* What is picked from a sequence, place after place.                      *)
PickNext(l, s, k, J) == IF k \in J THEN Append(l, s[k]) ELSE l

PicksUp(g, s, J, n) ==
  g = [k \in 0..n |-> IF k = 0 THEN <<>> ELSE PickNext(g[k - 1], s, k, J)]

LEMMA PickExists ==
  ASSUME NEW s, NEW J
  PROVE  \A n \in Nat : \E g : PicksUp(g, s, J, n)
<1> DEFINE G == {n \in Nat : \E g : PicksUp(g, s, J, n)}
<1>1. 0 \in G
  <2> DEFINE g == [k \in 0..0 |-> <<>>]
  <2>1. \A k \in 0..0 : g[k] = IF k = 0 THEN <<>> ELSE PickNext(g[k - 1], s, k, J)
    OBVIOUS
  <2>2. PicksUp(g, s, J, 0)
    BY <2>1 DEF PicksUp
  <2> QED
    BY <2>2
<1>2. ASSUME NEW n \in Nat, n \in G PROVE n + 1 \in G
  <2>1. PICK g : PicksUp(g, s, J, n)
    BY <1>2
  <2> DEFINE last == PickNext(g[n], s, n + 1, J)
             h == [k \in 0..n + 1 |-> IF k = n + 1 THEN last ELSE g[k]]
  <2>2. \A k \in 0..n : g[k] = IF k = 0 THEN <<>> ELSE PickNext(g[k - 1], s, k, J)
    BY <2>1 DEF PicksUp
  <2>3. /\ h[n + 1] = last
        /\ \A k \in 0..n : h[k] = g[k]
    OBVIOUS
  <2>4. ASSUME NEW k \in 0..n + 1
        PROVE  h[k] = IF k = 0 THEN <<>> ELSE PickNext(h[k - 1], s, k, J)
    <3>1. CASE k = n + 1
      <4>1. k # 0 /\ k - 1 = n /\ n \in 0..n
        BY <3>1
      <4>2. h[k - 1] = g[n]
        BY <2>3, <4>1
      <4> HIDE DEF h
      <4> QED
        BY <2>3, <3>1, <4>1, <4>2
    <3>2. CASE k # n + 1
      <4>1. k \in 0..n /\ (k # 0 => k - 1 \in 0..n)
        BY <3>2
      <4> HIDE DEF h
      <4> QED
        BY <2>2, <2>3, <4>1
    <3> QED
      BY <3>1, <3>2
  <2>5. h = [k \in 0..n + 1 |-> h[k]]
    OBVIOUS
  <2> HIDE DEF h
  <2>6. PicksUp(h, s, J, n + 1)
    BY <2>4, <2>5 DEF PicksUp
  <2> QED
    BY <2>6
<1> HIDE DEF G
<1>3. \A n \in Nat : n \in G
  BY <1>1, <1>2, ByNumbers
<1> QED
  BY <1>3 DEF G

LEMMA PickedPicks ==
  ASSUME NEW s, NEW J, Len(s) \in Nat
  PROVE  \E g : PicksUp(g, s, J, Len(s)) /\ Picked(s, J) = g[Len(s)]
<1> DEFINE g == CHOOSE g : PicksUp(g, s, J, Len(s))
<1>1. PicksUp(g, s, J, Len(s))
  BY PickExists
<1>2. Picked(s, J) = g[Len(s)]
  BY DEF Picked, PicksUp, PickNext
<1> QED
  BY <1>1, <1>2

LEMMA PickedAt ==
  ASSUME NEW g, NEW s, NEW J, NEW n \in Nat, PicksUp(g, s, J, n), NEW k \in 0..n
  PROVE  /\ k = 0 => g[k] = <<>>
         /\ k # 0 /\ k \in J => g[k] = Append(g[k - 1], s[k])
         /\ k # 0 /\ k \notin J => g[k] = g[k - 1]
<1>1. g[k] = IF k = 0 THEN <<>> ELSE PickNext(g[k - 1], s, k, J)
  BY DEF PicksUp
<1> QED
  BY <1>1 DEF PickNext

(* Nothing is added where there is nothing to pick.                        *)
LEMMA PickSkips ==
  ASSUME NEW g, NEW s, NEW J, NEW n \in Nat, PicksUp(g, s, J, n),
         NEW a \in 0..n, NEW b \in a..n, \A j \in a + 1..b : j \notin J
  PROVE  g[b] = g[a]
<1> DEFINE G == {d \in Nat : a + d <= b => g[a + d] = g[a]}
<1>1. 0 \in G
  OBVIOUS
<1>2. ASSUME NEW d \in Nat, d \in G PROVE d + 1 \in G
  <2> SUFFICES ASSUME a + (d + 1) <= b PROVE g[a + (d + 1)] = g[a]
    OBVIOUS
  <2> DEFINE k == a + (d + 1)
  <2>1. k \in 0..n /\ k # 0 /\ k \in a + 1..b /\ k - 1 = a + d /\ a + d <= b
    OBVIOUS
  <2>2. g[a + d] = g[a] /\ k \notin J
    BY <1>2, <2>1
  <2> HIDE DEF k
  <2>3. g[k] = g[k - 1]
    BY <2>1, <2>2, PickedAt
  <2>4. g[k] = g[a]
    BY <2>1, <2>2, <2>3
  <2> QED
    BY <2>4 DEF k
<1> HIDE DEF G
<1>3. \A d \in Nat : d \in G
  BY <1>1, <1>2, ByNumbers
<1>4. b - a \in Nat /\ a + (b - a) = b
  OBVIOUS
<1>5. a + (b - a) <= b => g[a + (b - a)] = g[a]
  BY <1>3, <1>4 DEF G
<1> QED
  BY <1>4, <1>5

LEMMA PickedNone ==
  ASSUME NEW s, NEW J, Len(s) \in Nat, \A j \in 1..Len(s) : j \notin J
  PROVE  Picked(s, J) = <<>>
<1>1. PICK g : PicksUp(g, s, J, Len(s)) /\ Picked(s, J) = g[Len(s)]
  BY PickedPicks
<1>2. 0 \in 0..Len(s) /\ Len(s) \in 0..Len(s)
  OBVIOUS
<1>3. g[Len(s)] = g[0]
  BY <1>1, <1>2, PickSkips
<1>4. g[0] = <<>>
  BY <1>1, <1>2, PickedAt
<1> QED
  BY <1>1, <1>3, <1>4

LEMMA PickedType ==
  ASSUME NEW S, NEW s \in Seq(S), NEW J
  PROVE  Picked(s, J) \in Seq(S)
<1>0. Len(s) \in Nat
  OBVIOUS
<1>1. PICK g : PicksUp(g, s, J, Len(s)) /\ Picked(s, J) = g[Len(s)]
  BY <1>0, PickedPicks
<1> DEFINE G == {k \in Nat : k <= Len(s) => g[k] \in Seq(S)}
<1>2. 0 \in G
  <2>1. 0 \in 0..Len(s)
    BY <1>0
  <2>2. g[0] = <<>>
    BY <1>0, <1>1, <2>1, PickedAt
  <2>3. g[0] \in Seq(S)
    BY <2>2, EmptySeq
  <2> QED
    BY <2>3
<1>3. ASSUME NEW k \in Nat, k \in G PROVE k + 1 \in G
  <2> SUFFICES ASSUME k + 1 <= Len(s) PROVE g[k + 1] \in Seq(S)
    OBVIOUS
  <2>1. k + 1 \in 0..Len(s) /\ k + 1 # 0 /\ (k + 1) - 1 = k /\ k + 1 \in 1..Len(s) /\ k <= Len(s)
    BY <1>0
  <2>2. g[k] \in Seq(S) /\ s[k + 1] \in S
    BY <1>3, <2>1
  <2>3. g[k + 1] = Append(g[k], s[k + 1]) \/ g[k + 1] = g[k]
    BY <1>0, <1>1, <2>1, PickedAt
  <2>4. Append(g[k], s[k + 1]) \in Seq(S)
    <3> DEFINE l == g[k]
               x == s[k + 1]
    <3>1. l \in Seq(S) /\ x \in S
      BY <2>2
    <3> HIDE DEF l, x
    <3>2. Append(l, x) \in Seq(S)
      BY <3>1
    <3> QED
      BY <3>2 DEF l, x
  <2> QED
    BY <2>2, <2>3, <2>4
<1> HIDE DEF G
<1>4. \A k \in Nat : k \in G
  BY <1>2, <1>3, ByNumbers
<1> QED
  BY <1>0, <1>1, <1>4 DEF G

(* A longer sequence begins with what was picked from the shorter one.     *)
Begins(s, u) == /\ Len(s) \in Nat /\ Len(u) \in Nat /\ Len(s) <= Len(u)
                /\ \A j \in 1..Len(s) : u[j] = s[j]

LEMMA PicksAgree ==
  ASSUME NEW s, NEW u, Begins(s, u), NEW J, NEW K,
         \A j \in 1..Len(s) : j \in J <=> j \in K,
         NEW g, NEW h, PicksUp(g, s, J, Len(s)), PicksUp(h, u, K, Len(u))
  PROVE  h[Len(s)] = g[Len(s)]
<1> DEFINE n == Len(s)
           G == {k \in Nat : k <= n => h[k] = g[k]}
<1>0. n \in Nat /\ Len(u) \in Nat /\ n <= Len(u)
  BY DEF Begins
<1>1. 0 \in G
  <2>1. 0 \in 0..n /\ 0 \in 0..Len(u)
    BY <1>0
  <2>2. h[0] = <<>> /\ g[0] = <<>>
    BY <1>0, <2>1, PickedAt
  <2> QED
    BY <2>2
<1>2. ASSUME NEW k \in Nat, k \in G PROVE k + 1 \in G
  <2> SUFFICES ASSUME k + 1 <= n PROVE h[k + 1] = g[k + 1]
    OBVIOUS
  <2>1. /\ k + 1 \in 0..n /\ k + 1 \in 0..Len(u) /\ k + 1 # 0
        /\ (k + 1) - 1 = k /\ k + 1 \in 1..n /\ k <= n
    BY <1>0
  <2>2. h[k] = g[k] /\ u[k + 1] = s[k + 1] /\ (k + 1 \in J <=> k + 1 \in K)
    BY <1>2, <2>1 DEF Begins
  <2> DEFINE i == k + 1
  <2>3. i \in 0..n /\ i \in 0..Len(u) /\ i # 0 /\ i - 1 = k
    BY <2>1
  <2> HIDE DEF i, n
  <2>4. CASE i \in J
    <3>1. g[i] = Append(g[i - 1], s[i]) /\ h[i] = Append(h[i - 1], u[i])
      BY <1>0, <2>2, <2>3, <2>4, PickedAt DEF n, i
    <3> QED
      BY <2>2, <2>3, <3>1 DEF i
  <2>5. CASE i \notin J
    <3>1. g[i] = g[i - 1] /\ h[i] = h[i - 1]
      BY <1>0, <2>2, <2>3, <2>5, PickedAt DEF n, i
    <3> QED
      BY <2>2, <2>3, <3>1 DEF i
  <2> QED
    BY <2>4, <2>5 DEF i
<1> HIDE DEF G
<1>3. \A k \in Nat : k \in G
  BY <1>1, <1>2, ByNumbers
<1> QED
  BY <1>0, <1>3 DEF G

LEMMA PickedSame ==
  ASSUME NEW s, NEW u, Begins(s, u), NEW J, NEW K,
         \A j \in 1..Len(s) : j \in J <=> j \in K,
         \A j \in Len(s) + 1..Len(u) : j \notin K
  PROVE  Picked(u, K) = Picked(s, J)
<1>0. Len(s) \in Nat /\ Len(u) \in Nat /\ Len(s) <= Len(u)
  BY DEF Begins
<1>1. PICK g : PicksUp(g, s, J, Len(s)) /\ Picked(s, J) = g[Len(s)]
  BY <1>0, PickedPicks
<1>2. PICK h : PicksUp(h, u, K, Len(u)) /\ Picked(u, K) = h[Len(u)]
  BY <1>0, PickedPicks
<1>3. h[Len(s)] = g[Len(s)]
  BY <1>1, <1>2, PicksAgree
<1>4. Len(s) \in 0..Len(u) /\ Len(u) \in Len(s)..Len(u)
  BY <1>0
<1>5. h[Len(u)] = h[Len(s)]
  BY <1>0, <1>2, <1>4, PickSkips
<1> QED
  BY <1>1, <1>2, <1>3, <1>5

LEMMA PickedOneMore ==
  ASSUME NEW s, NEW u, Begins(s, u), NEW J, NEW K,
         \A j \in 1..Len(s) : j \in J <=> j \in K,
         NEW e \in Len(s) + 1..Len(u),
         \A j \in Len(s) + 1..Len(u) : j \in K <=> j = e
  PROVE  Picked(u, K) = Append(Picked(s, J), u[e])
<1>0. Len(s) \in Nat /\ Len(u) \in Nat /\ Len(s) <= Len(u)
  BY DEF Begins
<1>1. PICK g : PicksUp(g, s, J, Len(s)) /\ Picked(s, J) = g[Len(s)]
  BY <1>0, PickedPicks
<1>2. PICK h : PicksUp(h, u, K, Len(u)) /\ Picked(u, K) = h[Len(u)]
  BY <1>0, PickedPicks
<1>3. h[Len(s)] = g[Len(s)]
  BY <1>1, <1>2, PicksAgree
<1> DEFINE n == Len(s)
           m == Len(u)
<1>4. n \in Nat /\ m \in Nat /\ e \in n + 1..m
  BY <1>0
<1> HIDE DEF n, m
<1>5. /\ n \in 0..m /\ e - 1 \in n..m /\ e \in 0..m /\ m \in e..m /\ e # 0
      /\ \A j \in n + 1..e - 1 : j \in n + 1..m /\ j # e
      /\ \A j \in e + 1..m : j \in n + 1..m /\ j # e
  BY <1>4
<1>6. \A j \in n + 1..m : j \in K <=> j = e
  BY DEF n, m
<1>7. h[e - 1] = h[n]
  BY <1>2, <1>4, <1>5, <1>6, PickSkips DEF m
<1>8. h[m] = h[e]
  BY <1>2, <1>4, <1>5, <1>6, PickSkips DEF m
<1>9. h[e] = Append(h[e - 1], u[e])
  BY <1>2, <1>4, <1>5, <1>6, PickedAt DEF m
<1> QED
  BY <1>1, <1>2, <1>3, <1>7, <1>8, <1>9 DEF n, m
-----------------------------------------------------------------------------
(* The journal.  What is in memory is what this run has put into the       *)
(* structured file, and a trade is open in it when this run logged its     *)
(* entry.                                                                  *)
SeenRecords == {SeenAs(t, known) : t \in Trades, known \in BOOLEAN}

Memory ==
  [open : SUBSET Trades, trades : [Days -> Seq(SeenRecords)], all : Seq(SeenRecords),
   declines : [Days -> Seq([source : Perspectives])], rolled : SUBSET Days]

JournalTypes ==
  /\ day \in Days /\ run \in Nat \ {0} /\ mem \in Memory
  /\ \E S : log \in Seq(S)
  /\ \A i \in 1..Len(log) : log[i].run \in 1..run /\ log[i].day \in Days

RollupAt(i) ==
  log[i].body = Rollup(SeenOf(Of(i, "trade_exit", {log[i].day})),
                       BodyOf(Of(i, "declined", {log[i].day})),
                       SeenOf(Of(i, "trade_exit", Days)))

EnteredBefore(i, t, r) ==
  \E j \in 1..i - 1 : /\ log[j].kind = "trade_entry" /\ log[j].file = "jsonl"
                      /\ log[j].body.trade = t /\ log[j].run = r

ExitAt(i) ==
  log[i].body.attribution =
    Attribution(IF EnteredBefore(i, log[i].body.trade, log[i].run)
                THEN log[i].body.trade.conviction ELSE Unknown, log[i].body.trade.r)

MemoryTrue ==
  /\ \A d \in Days :
       /\ mem.trades[d] = SeenOf(Picked(log, LinesOf("jsonl", "trade_exit", {d}, run)))
       /\ mem.declines[d] = BodyOf(Picked(log, LinesOf("jsonl", "declined", {d}, run)))
  /\ mem.all = SeenOf(Picked(log, LinesOf("jsonl", "trade_exit", Days, run)))

OpenTrue ==
  \A t \in Trades : ~Exited(t) => (t \in mem.open <=> EnteredBefore(Len(log) + 1, t, run))

RolledTrue ==
  \A i \in 1..Len(log) :
    log[i].file = "jsonl" /\ log[i].kind = "daily_rollup" /\ log[i].run = run =>
      log[i].day \in mem.rolled

CountsTrue ==
  \A d \in Days :
    /\ Cardinality(LinesOf("md", "declined", {d}, run)) <= Len(mem.declines[d])
    /\ Cardinality(LinesOf("md", "trade_exit", {d}, run))
         = Cardinality(LinesOf("jsonl", "trade_exit", {d}, run))

JournalInv ==
  /\ JournalTypes /\ JournalTrue
  /\ MemoryTrue /\ OpenTrue /\ RolledTrue /\ CountsTrue

-----------------------------------------------------------------------------
(* What a step does to the files: after a header, or none, come the first  *)
(* of the operation's lines, or all of them.                               *)
Grows(d, lines, base) ==
  /\ base \in Nat /\ Len(log) <= base
  /\ Begins(log, log') /\ Len(log') <= base + Len(lines)
  /\ \E S : log' \in Seq(S)
  /\ \A i \in Len(log) + 1..Len(log') :
       i <= base => /\ log'[i].kind \in {"header", "day_start"}
                    /\ log'[i].run = run /\ log'[i].day = d
  /\ \A i \in base + 1..Len(log') : log'[i] = lines[i - base]

(* The lines of an operation on day d.                                     *)
Written(d, lines) ==
  /\ Len(lines) \in Nat
  /\ \A k \in 1..Len(lines) : /\ lines[k].kind \notin {"header", "day_start"}
                              /\ lines[k].run = run /\ lines[k].day = d

LEMMA Lengthened ==
  ASSUME NEW S, NEW s \in Seq(S), NEW all \in Seq(S), NEW cut \in 0..Len(all)
  PROVE  LET u == s \o SubSeq(all, 1, cut)
         IN  /\ u \in Seq(S) /\ Len(u) = Len(s) + cut
             /\ \A i \in 1..Len(s) : u[i] = s[i]
             /\ \A i \in Len(s) + 1..Len(u) : u[i] = all[i - Len(s)]
<1> DEFINE part == SubSeq(all, 1, cut)
<1>1. part \in Seq(S) /\ Len(part) = cut /\ \A k \in 1..cut : part[k] = all[k]
  OBVIOUS
<1> HIDE DEF part
<1> DEFINE u == s \o part
<1>2. /\ u \in Seq(S) /\ Len(u) = Len(s) + cut
      /\ \A i \in 1..Len(s) : u[i] = s[i]
      /\ \A i \in Len(s) + 1..Len(u) : u[i] = part[i - Len(s)]
  BY <1>1
<1>3. Len(s) \in Nat /\ cut \in Nat
  OBVIOUS
<1> HIDE DEF u
<1>4. \A i \in Len(s) + 1..Len(u) : i - Len(s) \in 1..cut
  BY <1>2, <1>3
<1>5. /\ u \in Seq(S) /\ Len(u) = Len(s) + cut
      /\ \A i \in 1..Len(s) : u[i] = s[i]
      /\ \A i \in Len(s) + 1..Len(u) : u[i] = all[i - Len(s)]
  BY <1>1, <1>2, <1>4
<1> QED
  BY <1>5 DEF u, part

LEMMA HeaderShape ==
  ASSUME NEW d
  PROVE  /\ Len(Header(d)) \in Nat
         /\ \A k \in 1..Len(Header(d)) :
              /\ Header(d)[k].kind \in {"header", "day_start"}
              /\ Header(d)[k].run = run /\ Header(d)[k].day = d
         /\ \E H : Header(d) \in Seq(H)
         /\ \/ Len(Header(d)) = 0 /\ \E i \in DOMAIN log : log[i].file = "md" /\ log[i].day = d
            \/ /\ Len(Header(d)) = 2
               /\ ~\E i \in DOMAIN log : log[i].file = "md" /\ log[i].day = d
               /\ Header(d)[1].file = "md" /\ Header(d)[1].kind = "header"
               /\ Header(d)[2].file = "jsonl"
<1> DEFINE x == LogLine("md", "header", d, {})
           y == LogLine("jsonl", "day_start", d, {})
<1>1. /\ x.kind = "header" /\ x.run = run /\ x.day = d /\ x.file = "md"
      /\ y.kind = "day_start" /\ y.run = run /\ y.day = d /\ y.file = "jsonl"
  BY DEF LogLine
<1> HIDE DEF x, y
<1>2. /\ <<x, y>> \in Seq({x, y}) /\ Len(<<x, y>>) = 2
      /\ <<x, y>>[1] = x /\ <<x, y>>[2] = y
  OBVIOUS
<1>3. HeaderLines(d) = <<x, y>>
  BY DEF HeaderLines, x, y
<1>4. CASE \E i \in DOMAIN log : log[i].file = "md" /\ log[i].day = d
  <2>1. Header(d) = <<>>
    BY <1>4 DEF Header
  <2>2. Len(<<>>) = 0 /\ <<>> \in Seq({})
    BY EmptySeq
  <2>3. \A k \in 1..0 : FALSE
    OBVIOUS
  <2> QED
    BY <1>4, <2>1, <2>2, <2>3
<1>5. CASE ~\E i \in DOMAIN log : log[i].file = "md" /\ log[i].day = d
  <2>1. Header(d) = <<x, y>>
    BY <1>3, <1>5 DEF Header
  <2>2. \A k \in 1..2 : k = 1 \/ k = 2
    OBVIOUS
  <2>3. \A k \in 1..Len(Header(d)) : Header(d)[k] = x \/ Header(d)[k] = y
    BY <1>2, <2>1, <2>2
  <2>4. Len(Header(d)) = 2 /\ Header(d)[1] = x /\ Header(d)[2] = y /\ Header(d) \in Seq({x, y})
    BY <1>2, <2>1
  <2> HIDE <2>1, <1>2
  <2> QED
    BY <1>1, <1>5, <2>3, <2>4
<1> QED
  BY <1>4, <1>5

(* Every write leaves the readable file of each day with its one header.   *)
LEMMA HeaderKept ==
  ASSUME NEW d, NEW lines, NEW base, Written(d, lines), OneHeader, \E S : log \in Seq(S),
         Grows(d, lines, base), base = Len(log) + Len(Header(d)),
         \A i \in Len(log) + 1..Len(log') : i <= base => log'[i] = Header(d)[i - Len(log)]
  PROVE  OneHeader'
<1> DEFINE n == Len(log)
           m == Len(log')
           h == Len(Header(d))
<1>0. /\ n \in Nat /\ m \in Nat /\ h \in Nat /\ n <= m /\ base = n + h
      /\ DOMAIN log = 1..n /\ DOMAIN log' = 1..m
  BY HeaderShape DEF Grows, Begins
<1>1. \A i \in 1..n : log'[i] = log[i]
  BY DEF Grows, Begins
<1>2. \A i \in n + 1..m : i <= base => log'[i] = Header(d)[i - n]
  OBVIOUS
<1>3. \A i \in base + 1..m : log'[i] = lines[i - base]
  BY DEF Grows
<1>4. \A i \in base + 1..m : i - base \in 1..Len(lines)
  <2>1. Len(lines) \in Nat /\ m <= base + Len(lines) /\ base \in Nat
    BY DEF Written, Grows
  <2> HIDE DEF m
  <2> QED
    BY <1>0, <2>1
<1> HIDE DEF n, m, h
<1>5. SUFFICES ASSUME NEW i \in 1..m, log'[i].file = "md"
               PROVE  (log'[i].kind = "header") =
                        ~\E j \in 1..i - 1 : log'[j].file = "md" /\ log'[j].day = log'[i].day
  BY <1>0 DEF OneHeader
<1>6. CASE i <= n
  <2>1. i \in 1..n /\ log'[i] = log[i] /\ \A j \in 1..i - 1 : j \in 1..n /\ log'[j] = log[j]
    BY <1>0, <1>1, <1>6
  <2>2. (log[i].kind = "header") =
          ~\E j \in 1..i - 1 : log[j].file = "md" /\ log[j].day = log[i].day
    BY <1>0, <1>5, <2>1 DEF OneHeader
  <2> QED
    BY <2>1, <2>2
<1>7. CASE i > base
  <2>1. i \in base + 1..m /\ n < i
    BY <1>0, <1>7
  <2>2. log'[i].kind # "header" /\ log'[i].day = d
    BY <1>3, <1>4, <2>1 DEF Written
  <2>3. \E j \in 1..i - 1 : log'[j].file = "md" /\ log'[j].day = d
    <3>1. CASE h = 0
      <4>1. PICK j \in 1..n : log[j].file = "md" /\ log[j].day = d
        BY <1>0, <3>1, HeaderShape DEF h
      <4>2. j \in 1..i - 1 /\ log'[j] = log[j]
        BY <1>0, <1>1, <2>1
      <4> QED
        BY <4>1, <4>2
    <3>2. CASE h # 0
      <4>1. h = 2 /\ Header(d)[1].file = "md" /\ Header(d)[1].day = d
        BY <3>2, HeaderShape DEF h
      <4>2. n + 1 \in 1..i - 1 /\ n + 1 \in n + 1..m /\ n + 1 <= base /\ (n + 1) - n = 1
        BY <1>0, <2>1, <4>1
      <4>3. log'[n + 1] = Header(d)[1]
        BY <1>2, <4>2
      <4> QED
        BY <4>1, <4>2, <4>3
    <3> QED
      BY <3>1, <3>2
  <2> QED
    BY <2>2, <2>3
<1>8. CASE n < i /\ i <= base
  <2>1. i \in n + 1..m /\ log'[i] = Header(d)[i - n] /\ i - n \in 1..h /\ h # 0
    BY <1>0, <1>2, <1>8
  <2>2. /\ h = 2 /\ ~\E j \in 1..n : log[j].file = "md" /\ log[j].day = d
        /\ Header(d)[1].kind = "header" /\ Header(d)[1].day = d /\ Header(d)[2].file = "jsonl"
    BY <1>0, <2>1, HeaderShape DEF h
  <2>3. i - n = 1 \/ i - n = 2
    BY <2>1, <2>2
  <2>4. i - n = 1
    BY <1>5, <2>1, <2>2, <2>3
  <2>5. \A j \in 1..i - 1 : j \in 1..n /\ log'[j] = log[j]
    BY <1>0, <1>1, <2>4
  <2> QED
    BY <2>1, <2>2, <2>4, <2>5
<1> QED
  BY <1>0, <1>6, <1>7, <1>8

Survived(lines, base, remembered) ==
  mem' = remembered /\ run' = run /\ Len(log') = base + Len(lines)

Died == mem' = Fresh /\ run' = run + 1

LEMMA WritesGrow ==
  ASSUME NEW d, NEW X, NEW lines \in Seq(X), NEW remembered, Written(d, lines),
         \E S : log \in Seq(S), OneHeader, Writes(d, lines, remembered)
  PROVE  \E base : /\ Grows(d, lines, base)
                   /\ Survived(lines, base, remembered) \/ Died
                   /\ OneHeader' /\ day' = day
<1>1. PICK S : log \in Seq(S)
  OBVIOUS
<1>2. PICK H : Header(d) \in Seq(H)
  BY HeaderShape
<1> DEFINE T == S \cup H \cup X
           head == Header(d)
           all == head \o lines
           h == Len(head)
           n == Len(log)
           base == n + h
<1>3. log \in Seq(T) /\ head \in Seq(T) /\ lines \in Seq(T)
  <2>1. S \subseteq T /\ H \subseteq T /\ X \subseteq T
    OBVIOUS
  <2> HIDE DEF T
  <2>2. \A s \in Seq(S) : s \in Seq(T)
    BY <2>1
  <2>3. \A s \in Seq(H) : s \in Seq(T)
    BY <2>1
  <2>4. \A s \in Seq(X) : s \in Seq(T)
    BY <2>1
  <2> QED
    BY <1>1, <1>2, <2>2, <2>3, <2>4
<1> HIDE DEF T, head
<1>4. /\ all \in Seq(T) /\ Len(all) = h + Len(lines)
      /\ h \in Nat /\ Len(lines) \in Nat /\ n \in Nat
      /\ \A k \in 1..h : all[k] = head[k]
      /\ \A k \in h + 1..Len(all) : all[k] = lines[k - h]
  BY <1>3
<1>5. SubSeq(all, 1, Len(all)) = all
  <2> HIDE DEF all
  <2> QED
    BY <1>4
<1>6. PICK cut \in 0..Len(all) :
        /\ log' = log \o SubSeq(all, 1, cut)
        /\ \/ cut = Len(all) /\ mem' = remembered /\ run' = run
           \/ Died
  <2>1. Len(all) \in 0..Len(all)
    BY <1>4
  <2>2. /\ \/ log' = log \o all /\ mem' = remembered /\ UNCHANGED run
           \/ /\ run < MaxRuns /\ run' = run + 1 /\ mem' = Fresh
              /\ \E cut \in 0..Len(all) : log' = log \o SubSeq(all, 1, cut)
    BY DEF Writes, all, head
  <2> HIDE DEF all
  <2> QED
    BY <1>5, <2>1, <2>2 DEF Died
<1> HIDE DEF all
<1>7. /\ log' \in Seq(T) /\ Len(log') = n + cut
      /\ \A i \in 1..n : log'[i] = log[i]
      /\ \A i \in n + 1..Len(log') : log'[i] = all[i - n]
  <2>1. log \in Seq(T) /\ all \in Seq(T) /\ cut \in 0..Len(all)
    BY <1>3, <1>4, <1>6
  <2> DEFINE u == log \o SubSeq(all, 1, cut)
  <2>2. /\ u \in Seq(T) /\ Len(u) = Len(log) + cut
        /\ \A i \in 1..Len(log) : u[i] = log[i]
        /\ \A i \in Len(log) + 1..Len(u) : u[i] = all[i - Len(log)]
    BY <2>1, Lengthened
  <2>3. log' = u
    BY <1>6
  <2> HIDE DEF u
  <2> QED
    BY <2>2, <2>3
<1> DEFINE m == Len(log')
<1>8. m = n + cut /\ m \in Nat /\ cut \in 0..h + Len(lines)
  BY <1>4, <1>6, <1>7
<1> DEFINE q == Len(lines)
<1> HIDE DEF m, n, h, q
<1>9. /\ h \in Nat /\ q \in Nat /\ n \in Nat /\ cut \in 0..h + q /\ m = n + cut
  BY <1>4, <1>8 DEF q
<1>10. /\ base \in Nat /\ n <= base /\ n <= m /\ m <= base + q
       /\ (cut = h + q => m = base + q)
       /\ \A i \in n + 1..m : i <= base => i - n \in 1..h
       /\ \A i \in base + 1..m :
            i \in n + 1..m /\ i - n \in h + 1..h + q /\ (i - n) - h = i - base
  BY <1>9
<1>11. \A i \in n + 1..m : i <= base => log'[i] = head[i - n]
  BY <1>4, <1>7, <1>10 DEF m
<1>12. \A i \in base + 1..m : log'[i] = lines[i - base]
  BY <1>4, <1>7, <1>10 DEF m, q
<1>13. \A k \in 1..h : /\ head[k].kind \in {"header", "day_start"}
                       /\ head[k].run = run /\ head[k].day = d
  BY HeaderShape DEF head, h
<1>14. Grows(d, lines, base)
  <2>1. base \in Nat /\ Len(log) <= base /\ Len(log') <= base + Len(lines)
    BY <1>10 DEF n, m, q
  <2>2. Begins(log, log')
    BY <1>7, <1>8, <1>9, <1>10 DEF Begins, n, m
  <2>3. \E S_1 : log' \in Seq(S_1)
    BY <1>7
  <2>4. \A i \in Len(log) + 1..Len(log') :
          i <= base => /\ log'[i].kind \in {"header", "day_start"}
                       /\ log'[i].run = run /\ log'[i].day = d
    BY <1>10, <1>11, <1>13 DEF n, m
  <2>5. \A i \in base + 1..Len(log') : log'[i] = lines[i - base]
    BY <1>12 DEF m
  <2> HIDE DEF base
  <2> QED
    BY <2>1, <2>2, <2>3, <2>4, <2>5 DEF Grows
<1>15. OneHeader'
  <2>1. base = Len(log) + Len(Header(d))
    BY DEF n, h, head
  <2>2. \A i \in Len(log) + 1..Len(log') : i <= base => log'[i] = Header(d)[i - Len(log)]
    BY <1>11 DEF n, m, head
  <2> HIDE DEF base
  <2> QED
    BY <1>14, <2>1, <2>2, HeaderKept
<1>16. Survived(lines, base, remembered) \/ Died
  <2>1. Len(all) = h + q
    BY <1>4 DEF q
  <2>2. CASE cut = Len(all) /\ mem' = remembered /\ run' = run
    <3>1. m = base + q
      BY <1>10, <2>1, <2>2
    <3> QED
      BY <2>2, <3>1 DEF Survived, m, q
  <2> QED
    BY <1>6, <2>2
<1>17. day' = day
  BY DEF Writes
<1> HIDE DEF base
<1> QED
  BY <1>14, <1>15, <1>16, <1>17

-----------------------------------------------------------------------------
(* Which of the new lines are found by what is asked of the files.         *)
Matches(line, file, kind, D, r) ==
  line.file = file /\ line.kind = kind /\ line.day \in D /\ line.run = r

LEMMA LinesGrow ==
  ASSUME NEW d, NEW lines, NEW base, Written(d, lines), Grows(d, lines, base),
         \E S : log \in Seq(S), NEW file, NEW kind, kind \notin {"header", "day_start"},
         NEW D, NEW r
  PROVE  /\ LinesOf(file, kind, D, r) \subseteq 1..Len(log)
         /\ \A i : i \in LinesOf(file, kind, D, r)' <=>
                    \/ i \in LinesOf(file, kind, D, r)
                    \/ i \in base + 1..Len(log') /\ Matches(lines[i - base], file, kind, D, r)
<1> DEFINE n == Len(log)
           m == Len(log')
<1>1. /\ n \in Nat /\ m \in Nat /\ n <= m /\ base \in Nat /\ n <= base
      /\ DOMAIN log = 1..n /\ DOMAIN log' = 1..m
  BY DEF Grows, Begins
<1>2. \A i \in 1..n : log'[i] = log[i]
  BY DEF Grows, Begins
<1>3. \A i \in n + 1..m : i <= base => log'[i].kind \in {"header", "day_start"}
  BY DEF Grows
<1>4. \A i \in base + 1..m : log'[i] = lines[i - base]
  BY DEF Grows
<1> HIDE DEF n, m
<1>5. LinesOf(file, kind, D, r) = {i \in 1..n : Matches(log[i], file, kind, D, r)}
  BY <1>1 DEF LinesOf, Matches
<1>6. LinesOf(file, kind, D, r)' = {i \in 1..m : Matches(log'[i], file, kind, D, r)}
  BY <1>1 DEF LinesOf, Matches
<1>7. ASSUME NEW i \in 1..m
      PROVE  Matches(log'[i], file, kind, D, r) <=>
               \/ i \in 1..n /\ Matches(log[i], file, kind, D, r)
               \/ i \in base + 1..m /\ Matches(lines[i - base], file, kind, D, r)
  <2>1. CASE i <= n
    <3>1. i \in 1..n /\ i \notin base + 1..m
      BY <1>1, <2>1
    <3> QED
      BY <1>2, <3>1
  <2>2. CASE n < i /\ i <= base
    <3>1. i \in n + 1..m /\ i \notin 1..n /\ i \notin base + 1..m
      BY <1>1, <2>2
    <3>2. log'[i].kind # kind
      BY <1>3, <2>2, <3>1
    <3> QED
      BY <3>1, <3>2 DEF Matches
  <2>3. CASE base < i
    <3>1. i \in base + 1..m /\ i \notin 1..n
      BY <1>1, <2>3
    <3> QED
      BY <1>4, <3>1
  <2> QED
    BY <1>1, <2>1, <2>2, <2>3
<1>8. \A i \in 1..n : i \in 1..m
  BY <1>1
<1>9. \A i \in base + 1..m : i \in 1..m
  BY <1>1
<1>10. LinesOf(file, kind, D, r)' =
         {i \in 1..n : Matches(log[i], file, kind, D, r)} \cup
           {i \in base + 1..m : Matches(lines[i - base], file, kind, D, r)}
  BY <1>6, <1>7, <1>8, <1>9
<1> QED
  BY <1>5, <1>10 DEF n, m

LEMMA Unmatched ==
  ASSUME NEW d, NEW lines, NEW base, Written(d, lines), Grows(d, lines, base),
         \E S : log \in Seq(S), NEW file, NEW kind, kind \notin {"header", "day_start"},
         NEW D, NEW r,
         \A k \in 1..Len(lines) : ~Matches(lines[k], file, kind, D, r)
  PROVE  /\ LinesOf(file, kind, D, r)' = LinesOf(file, kind, D, r)
         /\ Picked(log', LinesOf(file, kind, D, r)') = Picked(log, LinesOf(file, kind, D, r))
<1> DEFINE L == LinesOf(file, kind, D, r)
<1>1. /\ L \subseteq 1..Len(log)
      /\ \A i : i \in L' <=>
           \/ i \in L
           \/ i \in base + 1..Len(log') /\ Matches(lines[i - base], file, kind, D, r)
  BY LinesGrow
<1>2. /\ Len(lines) \in Nat /\ base \in Nat /\ Len(log) \in Nat /\ Len(log') \in Nat
      /\ Len(log') <= base + Len(lines) /\ Begins(log, log')
  BY DEF Grows, Begins, Written
<1>3. \A i \in base + 1..Len(log') : i - base \in 1..Len(lines)
  BY <1>2
<1>4. L' = L
  <2>1. \A i : i \in L' <=> i \in L
    BY <1>1, <1>3
  <2> HIDE DEF L
  <2> QED
    BY <2>1
<1>5. \A j \in Len(log) + 1..Len(log') : j \notin L
  BY <1>1, <1>2
<1> HIDE DEF L
<1>6. Picked(log', L') = Picked(log, L)
  BY <1>2, <1>4, <1>5, PickedSame
<1> QED
  BY <1>4, <1>6 DEF L

OnlyLine(lines, k, file, kind, D, r) ==
  /\ k \in 1..Len(lines) /\ Matches(lines[k], file, kind, D, r)
  /\ \A j \in 1..Len(lines) : j # k => ~Matches(lines[j], file, kind, D, r)

Finds(d, lines, base, k, file, kind, D, r) ==
  /\ Written(d, lines) /\ Grows(d, lines, base) /\ \E S : log \in Seq(S)
  /\ kind \notin {"header", "day_start"} /\ OnlyLine(lines, k, file, kind, D, r)

LEMMA Matched ==
  ASSUME NEW d, NEW lines, NEW base, NEW file, NEW kind, NEW D, NEW r, NEW k \in Nat,
         Finds(d, lines, base, k, file, kind, D, r), NEW e \in Nat, e = base + k
  PROVE  /\ Len(log') < e => LinesOf(file, kind, D, r)' = LinesOf(file, kind, D, r)
         /\ Len(log') >= e =>
              /\ LinesOf(file, kind, D, r)' = LinesOf(file, kind, D, r) \cup {e}
              /\ e \notin LinesOf(file, kind, D, r)
              /\ Picked(log', LinesOf(file, kind, D, r)') =
                   Append(Picked(log, LinesOf(file, kind, D, r)), lines[k])
<1> DEFINE L == LinesOf(file, kind, D, r)
           n == Len(log)
           m == Len(log')
           q == Len(lines)
<1>9. /\ Written(d, lines) /\ Grows(d, lines, base) /\ \E S : log \in Seq(S)
      /\ kind \notin {"header", "day_start"} /\ OnlyLine(lines, k, file, kind, D, r)
  BY DEF Finds
<1>0. /\ k \in 1..q /\ Matches(lines[k], file, kind, D, r)
      /\ \A j \in 1..q : j # k => ~Matches(lines[j], file, kind, D, r)
  BY <1>9 DEF OnlyLine
<1>1. /\ L \subseteq 1..n
      /\ \A i : i \in L' <=>
           \/ i \in L
           \/ i \in base + 1..m /\ Matches(lines[i - base], file, kind, D, r)
  BY <1>9, LinesGrow
<1>2. q \in Nat /\ base \in Nat /\ n \in Nat /\ m \in Nat /\ m <= base + q /\ n <= base
  BY <1>9 DEF Grows, Begins, Written
<1>3. Begins(log, log') /\ \A i \in base + 1..m : log'[i] = lines[i - base]
  BY <1>9 DEF Grows
<1> HIDE DEF L, n, m, q
<1>4. \A i \in base + 1..m : i - base \in 1..q /\ (i - base = k <=> i = e)
  BY <1>0, <1>2
<1>5. \A i \in base + 1..m : Matches(lines[i - base], file, kind, D, r) <=> i = e
  BY <1>0, <1>4
<1>6. \A i : i \in L' <=> i \in L \/ (i \in base + 1..m /\ i = e)
  BY <1>1, <1>5
<1>7. CASE m < e
  <2>1. e \notin base + 1..m /\ ~(m >= e)
    BY <1>0, <1>2, <1>7
  <2>2. L' = L
    BY <1>6, <2>1
  <2> QED
    BY <2>1, <2>2 DEF L, m
<1>8. CASE m >= e
  <2>1. e \in base + 1..m /\ e - base = k /\ e \in n + 1..m /\ ~(m < e)
    BY <1>0, <1>2, <1>8
  <2>2. /\ log'[e] = lines[k]
        /\ e \notin 1..n /\ \A j \in n + 1..m : j \notin 1..n
        /\ \A j \in 1..n : j # e
    BY <1>2, <1>3, <2>1
  <2>3. L' = L \cup {e}
    <3>1. \A i : i \in L' <=> i \in L \cup {e}
      BY <1>6, <2>1
    <3> QED
      BY <3>1
  <2>4. /\ \A j \in 1..n : j \in L <=> j \in L'
        /\ \A j \in n + 1..m : j \in L' <=> j = e
    BY <1>1, <2>2, <2>3
  <2>5. Picked(log', L') = Append(Picked(log, L), log'[e])
    <3> DEFINE K == L'
               u == log'
    <3>1. PICK x \in Len(log) + 1..Len(u) : x = e
      BY <2>1 DEF n, m
    <3>2. /\ Begins(log, u)
          /\ \A j \in 1..Len(log) : j \in L <=> j \in K
          /\ \A j \in Len(log) + 1..Len(u) : j \in K <=> j = x
      BY <1>3, <2>4, <3>1 DEF n, m
    <3> HIDE DEF K, u
    <3>3. Picked(u, K) = Append(Picked(log, L), u[x])
      BY ONLY <3>2, PickedOneMore
    <3> QED
      BY <3>1, <3>3 DEF K, u
  <2>6. Picked(log', L') = Append(Picked(log, L), lines[k])
    BY <2>2, <2>5
  <2>7. e \notin L
    BY <1>1, <2>2
  <2> QED
    BY <2>1, <2>3, <2>6, <2>7 DEF L, m
<1> QED
  BY <1>2, <1>0, <1>7, <1>8

LEMMA FewLines ==
  ASSUME \E S : log \in Seq(S), NEW file, NEW kind, NEW D, NEW r
  PROVE  /\ IsFiniteSet(LinesOf(file, kind, D, r))
         /\ Cardinality(LinesOf(file, kind, D, r)) \in Nat
<1>1. DOMAIN log = 1..Len(log) /\ Len(log) \in Nat
  OBVIOUS
<1>2. LinesOf(file, kind, D, r) \subseteq 1..Len(log)
  BY <1>1 DEF LinesOf
<1>3. IsFiniteSet(1..Len(log))
  BY <1>1, FS_Interval
<1> QED
  BY <1>2, <1>3, FS_Subset, FS_CardinalityType

-----------------------------------------------------------------------------
(* What was true of the lines of a file stays so.                          *)
LEMMA OfKept ==
  ASSUME NEW d, NEW lines, NEW base, Grows(d, lines, base), \E S : log \in Seq(S),
         NEW i \in 1..Len(log), NEW kind, NEW D
  PROVE  Of(i, kind, D)' = Of(i, kind, D)
<1> DEFINE J == {j \in LinesOf("jsonl", kind, D, log[i].run) : j < i}
<1>0. /\ Begins(log, log') /\ Len(log) \in Nat /\ Len(log') \in Nat /\ Len(log) <= Len(log')
      /\ \A j \in 1..Len(log) : log'[j] = log[j]
      /\ DOMAIN log = 1..Len(log) /\ DOMAIN log' = 1..Len(log')
  BY DEF Grows, Begins
<1>1. \A j \in 1..Len(log) : j \in 1..Len(log')
  BY <1>0
<1>2. \A j \in J : j \in 1..Len(log)
  BY <1>0 DEF LinesOf
<1>3. \A j \in J' : j \in 1..Len(log') /\ j < i
  BY <1>0 DEF LinesOf
<1>4. \A j \in 1..Len(log) : j \in J <=> j \in J'
  <2> SUFFICES ASSUME NEW j \in 1..Len(log) PROVE j \in J <=> j \in J'
    OBVIOUS
  <2>1. log'[j] = log[j] /\ log'[i] = log[i] /\ j \in DOMAIN log /\ j \in DOMAIN log'
    BY <1>0, <1>1
  <2> QED
    BY <2>1 DEF LinesOf
<1>5. \A j \in Len(log) + 1..Len(log') : ~(j < i)
  BY <1>0
<1>6. \A j \in Len(log) + 1..Len(log') : j \notin J'
  BY <1>3, <1>5
<1> HIDE DEF J
<1>7. Picked(log', J') = Picked(log, J)
  BY <1>0, <1>4, <1>6, PickedSame
<1>8. Of(i, kind, D) = Picked(log, J) /\ Of(i, kind, D)' = Picked(log', J')
  BY DEF Of, J
<1> QED
  BY <1>7, <1>8

LEMMA OldLines ==
  ASSUME NEW d, NEW lines, NEW base, Grows(d, lines, base), \E S : log \in Seq(S),
         NEW i \in 1..Len(log)
  PROVE  log'[i] = log[i] /\ (RollupAt(i)' <=> RollupAt(i)) /\ (ExitAt(i)' <=> ExitAt(i))
<1>1. log'[i] = log[i] /\ \A j \in 1..Len(log) : log'[j] = log[j]
  BY DEF Grows, Begins
<1>2. \A j \in 1..i - 1 : j \in 1..Len(log)
  OBVIOUS
<1>3. EnteredBefore(i, log[i].body.trade, log[i].run)' <=> EnteredBefore(i, log[i].body.trade, log[i].run)
  BY <1>1, <1>2 DEF EnteredBefore
<1>4. ExitAt(i)' <=> ExitAt(i)
  BY <1>1, <1>3 DEF ExitAt
<1>5. /\ Of(i, "trade_exit", {log[i].day})' = Of(i, "trade_exit", {log[i].day})
      /\ Of(i, "declined", {log[i].day})' = Of(i, "declined", {log[i].day})
      /\ Of(i, "trade_exit", Days)' = Of(i, "trade_exit", Days)
  <2> DEFINE D == {log[i].day}
  <2>1. D' = D
    BY <1>1
  <2> HIDE DEF D
  <2>2. Of(i, "trade_exit", D)' = Of(i, "trade_exit", D)
    BY <2>1, OfKept
  <2>3. Of(i, "declined", D)' = Of(i, "declined", D)
    BY <2>1, OfKept
  <2>4. Of(i, "trade_exit", Days)' = Of(i, "trade_exit", Days)
    BY OfKept
  <2> QED
    BY <2>2, <2>3, <2>4 DEF D
<1>6. RollupAt(i)' <=> RollupAt(i)
  BY <1>1, <1>5 DEF RollupAt, SeenOf, BodyOf
<1> QED
  BY <1>1, <1>4, <1>6

(* So what is asked of every line is asked of the new ones.                *)
LEMMA NewLines ==
  ASSUME NEW d, NEW lines, NEW base, Written(d, lines), Grows(d, lines, base), \E S : log \in Seq(S)
  PROVE  /\ RollupsRecomputable /\ (\A i \in base + 1..Len(log') :
                log'[i].kind = "daily_rollup" /\ log'[i].file = "jsonl" => RollupAt(i)')
              => RollupsRecomputable'
         /\ ExitsAttributed /\ (\A i \in base + 1..Len(log') :
                log'[i].kind = "trade_exit" => ExitAt(i)')
              => ExitsAttributed'
<1>0. /\ Len(log) \in Nat /\ Len(log') \in Nat /\ base \in Nat /\ Len(log) <= base
      /\ DOMAIN log = 1..Len(log) /\ DOMAIN log' = 1..Len(log')
  BY DEF Grows, Begins
<1>1. ASSUME NEW i \in 1..Len(log'), i \notin 1..Len(log), i \notin base + 1..Len(log')
      PROVE  log'[i].kind \in {"header", "day_start"}
  <2>1. i \in Len(log) + 1..Len(log') /\ i <= base
    BY <1>0, <1>1
  <2> QED
    BY <2>1 DEF Grows
<1>2. ASSUME RollupsRecomputable,
             \A i \in base + 1..Len(log') :
                log'[i].kind = "daily_rollup" /\ log'[i].file = "jsonl" => RollupAt(i)'
      PROVE  RollupsRecomputable'
  <2> SUFFICES ASSUME NEW i \in 1..Len(log'),
                      log'[i].kind = "daily_rollup", log'[i].file = "jsonl"
               PROVE  RollupAt(i)'
    BY <1>0 DEF RollupsRecomputable, RollupAt
  <2>1. CASE i \in 1..Len(log)
    <3>1. log'[i] = log[i] /\ (RollupAt(i)' <=> RollupAt(i))
      BY <2>1, OldLines
    <3>2. RollupAt(i)
      BY <1>0, <1>2, <2>1, <3>1 DEF RollupsRecomputable, RollupAt
    <3> QED
      BY <3>1, <3>2
  <2> QED
    BY <1>1, <1>2, <2>1
<1>3. ASSUME ExitsAttributed,
             \A i \in base + 1..Len(log') : log'[i].kind = "trade_exit" => ExitAt(i)'
      PROVE  ExitsAttributed'
  <2> SUFFICES ASSUME NEW i \in 1..Len(log'), log'[i].kind = "trade_exit"
               PROVE  ExitAt(i)'
    BY <1>0 DEF ExitsAttributed, ExitAt, EnteredBefore
  <2>1. CASE i \in 1..Len(log)
    <3>1. log'[i] = log[i] /\ (ExitAt(i)' <=> ExitAt(i))
      BY <2>1, OldLines
    <3>2. ExitAt(i)
      BY <1>0, <1>3, <2>1, <3>1 DEF ExitsAttributed, ExitAt, EnteredBefore
    <3> QED
      BY <3>1, <3>2
  <2> QED
    BY <1>1, <1>3, <2>1
<1> QED
  BY <1>2, <1>3

LEMMA LogTyped ==
  ASSUME NEW d \in Days, NEW lines, NEW base, Written(d, lines), Grows(d, lines, base),
         JournalTypes
  PROVE  \A i \in 1..Len(log') : log'[i].run \in 1..run /\ log'[i].day \in Days
<1> SUFFICES ASSUME NEW i \in 1..Len(log')
             PROVE  log'[i].run \in 1..run /\ log'[i].day \in Days
  OBVIOUS
<1>1. /\ Len(log) \in Nat /\ Len(log') \in Nat /\ base \in Nat /\ Len(log) <= base
      /\ Len(log') <= base + Len(lines) /\ Len(lines) \in Nat
  BY DEF Grows, Begins, Written
<1>2. CASE i \in 1..Len(log)
  BY <1>2 DEF Grows, Begins, JournalTypes
<1>3. run \in 1..run
  <2>1. run # 0 
    BY DEF JournalTypes
  <2> QED
    BY <2>1 DEF JournalTypes
<1>4. CASE i \in Len(log) + 1..Len(log') /\ i <= base
  BY <1>3, <1>4 DEF Grows
<1>5. CASE i \in base + 1..Len(log')
  <2>1. i - base \in 1..Len(lines)
    BY <1>1, <1>5
  <2>2. log'[i] = lines[i - base]
    BY <1>5 DEF Grows
  <2> QED
    BY <1>3, <2>1, <2>2 DEF Written
<1> QED
  BY <1>1, <1>2, <1>4, <1>5

LEMMA EnteredGrows ==
  ASSUME NEW d, NEW lines, NEW base, Written(d, lines), Grows(d, lines, base), NEW t, NEW r
  PROVE  EnteredBefore(Len(log) + 1, t, r)' <=>
           \/ EnteredBefore(Len(log) + 1, t, r)
           \/ \E k \in 1..Len(lines) :
                /\ base + k <= Len(log')
                /\ lines[k].kind = "trade_entry" /\ lines[k].file = "jsonl"
                /\ lines[k].body.trade = t /\ lines[k].run = r
<1> DEFINE n == Len(log)
           m == Len(log')
           q == Len(lines)
           Entry(line) == /\ line.kind = "trade_entry" /\ line.file = "jsonl"
                          /\ line.body.trade = t /\ line.run = r
<1>1. /\ n \in Nat /\ m \in Nat /\ n <= m /\ base \in Nat /\ n <= base /\ q \in Nat
      /\ m <= base + q
  BY DEF Grows, Begins, Written
<1>2. /\ \A i \in 1..n : log'[i] = log[i]
      /\ \A i \in n + 1..m : i <= base => log'[i].kind \in {"header", "day_start"}
      /\ \A i \in base + 1..m : log'[i] = lines[i - base]
  BY DEF Grows, Begins
<1>3. EnteredBefore(Len(log) + 1, t, r) <=> \E i \in 1..n : Entry(log[i])
  <2>1. (Len(log) + 1) - 1 = n
    BY <1>1
  <2> QED
    BY <2>1 DEF EnteredBefore
<1>4. EnteredBefore(Len(log) + 1, t, r)' <=> \E i \in 1..m : Entry(log'[i])
  <2>1. (Len(log') + 1) - 1 = m
    BY <1>1
  <2> QED
    BY <2>1 DEF EnteredBefore
<1> HIDE DEF n, m, q
<1>5. ASSUME NEW i \in 1..m, Entry(log'[i])
      PROVE  (\E j \in 1..n : Entry(log[j])) \/ \E k \in 1..q : base + k <= m /\ Entry(lines[k])
  <2>1. CASE i <= n
    <3>1. i \in 1..n
      BY <1>1, <2>1
    <3> QED
      BY <1>2, <1>5, <3>1
  <2>2. CASE n < i /\ i <= base
    <3>1. i \in n + 1..m
      BY <1>1, <2>2
    <3> QED
      BY <1>2, <1>5, <2>2, <3>1
  <2>3. CASE base < i
    <3>1. i \in base + 1..m /\ i - base \in 1..q /\ base + (i - base) <= m
      BY <1>1, <2>3
    <3>2. Entry(lines[i - base])
      BY <1>2, <1>5, <3>1
    <3> QED
      BY <3>1, <3>2
  <2> QED
    BY <1>1, <2>1, <2>2, <2>3
<1>6. ASSUME NEW j \in 1..n, Entry(log[j]) PROVE \E i \in 1..m : Entry(log'[i])
  <2>1. j \in 1..m
    BY <1>1
  <2> QED
    BY <1>2, <1>6, <2>1
<1>7. ASSUME NEW k \in 1..q, base + k <= m, Entry(lines[k]) PROVE \E i \in 1..m : Entry(log'[i])
  <2> DEFINE i == base + k
  <2>1. i \in base + 1..m /\ i \in 1..m /\ i - base = k
    BY <1>1, <1>7
  <2> HIDE DEF i
  <2>2. log'[i] = lines[k]
    BY <1>2, <2>1
  <2> QED
    BY <1>7, <2>1, <2>2
<1>8. (\E i \in 1..m : Entry(log'[i])) <=>
        (\E j \in 1..n : Entry(log[j])) \/ (\E k \in 1..q : base + k <= m /\ Entry(lines[k]))
  BY <1>5, <1>6, <1>7
<1> QED
  BY <1>3, <1>4, <1>8 DEF q, m

(* A process that starts has nothing in the files and nothing in memory.   *)
MemoryFits == MemoryTrue /\ OpenTrue /\ RolledTrue /\ CountsTrue

LEMMA Afresh ==
  ASSUME NEW d \in Days, NEW lines, NEW base, Written(d, lines), Grows(d, lines, base),
         JournalTypes, Died
  PROVE  /\ MemoryFits'
         /\ \A file, kind, D : LinesOf(file, kind, D, run)' = {}
<1>1. \A i \in 1..Len(log') : log'[i].run # run'
  <2>1. \A i \in 1..Len(log') : log'[i].run \in 1..run
    BY LogTyped
  <2>2. run \in Nat /\ run' = run + 1
    BY DEF JournalTypes, Died
  <2> QED
    BY <2>1, <2>2
<1>2. DOMAIN log' = 1..Len(log') /\ Len(log') \in Nat
  BY DEF Grows, Begins
<1>3. ASSUME NEW file, NEW kind, NEW D PROVE LinesOf(file, kind, D, run)' = {}
  BY <1>1, <1>2 DEF LinesOf
<1>4. ASSUME NEW file, NEW kind, NEW D
      PROVE  /\ Picked(log', LinesOf(file, kind, D, run)') = <<>>
             /\ Cardinality(LinesOf(file, kind, D, run)') = 0
  <2>1. LinesOf(file, kind, D, run)' = {}
    BY <1>3
  <2>2. Picked(log', {}) = <<>>
    BY <1>2, PickedNone
  <2> QED
    BY <2>1, <2>2, FS_EmptySet
<1>5. SeenOf(<<>>) = <<>> /\ BodyOf(<<>>) = <<>>
  BY DEF SeenOf, BodyOf
<1>6. /\ mem'.open = {} /\ mem'.all = <<>> /\ mem'.rolled = {}
      /\ \A e \in Days : mem'.trades[e] = <<>> /\ mem'.declines[e] = <<>>
  BY DEF Died, Fresh
<1>7. MemoryTrue'
  <2>1. ASSUME NEW e \in Days
        PROVE  /\ (mem.trades[e] = SeenOf(Picked(log, LinesOf("jsonl", "trade_exit", {e}, run))))'
               /\ (mem.declines[e] = BodyOf(Picked(log, LinesOf("jsonl", "declined", {e}, run))))'
    BY <1>4, <1>5, <1>6
  <2>2. (mem.all = SeenOf(Picked(log, LinesOf("jsonl", "trade_exit", Days, run))))'
    BY <1>4, <1>5, <1>6
  <2> QED
    BY <2>1, <2>2 DEF MemoryTrue
<1>8. OpenTrue'
  <2>1. \A i \in 1..(Len(log') + 1) - 1 : i \in 1..Len(log')
    BY <1>2
  <2>2. \A t \in Trades : ~EnteredBefore(Len(log) + 1, t, run)'
    BY <1>1, <2>1 DEF EnteredBefore
  <2> QED
    BY <1>6, <2>2 DEF OpenTrue
<1>9. RolledTrue'
  BY <1>1 DEF RolledTrue
<1>10. CountsTrue'
  <2> SUFFICES ASSUME NEW e \in Days
               PROVE  /\ (Cardinality(LinesOf("md", "declined", {e}, run)) <= Len(mem.declines[e]))'
                      /\ (Cardinality(LinesOf("md", "trade_exit", {e}, run))
                            = Cardinality(LinesOf("jsonl", "trade_exit", {e}, run)))'
    BY DEF CountsTrue
  <2>1. mem'.declines[e] = <<>> /\ Len(<<>>) = 0 /\ 0 <= 0
    BY <1>6
  <2>2. (Cardinality(LinesOf("md", "declined", {e}, run)) <= Len(mem.declines[e]))'
    BY <1>4, <2>1
  <2>3. (Cardinality(LinesOf("md", "trade_exit", {e}, run))
            = Cardinality(LinesOf("jsonl", "trade_exit", {e}, run)))'
    BY <1>4
  <2> QED
    BY <2>2, <2>3
<1> QED
  BY <1>3, <1>7, <1>8, <1>9, <1>10 DEF MemoryFits

Quotas(d, r) ==
  /\ Cardinality(LinesOf("jsonl", "daily_rollup", {d}, r)) <= 1
  /\ Cardinality(LinesOf("md", "declined", {d}, r)) <= MaxDetail
  /\ Cardinality(LinesOf("md", "trade_exit", {d}, r))
       - Cardinality(LinesOf("jsonl", "trade_exit", {d}, r)) \in 0..1

LEMMA OnceIsQuotas ==
  OncePerRun <=> \A r \in 1..run, d \in Days : Quotas(d, r)
BY DEF OncePerRun, Quotas

(* A write changes no number of lines but those of its own run.            *)
LEMMA QuotasKept ==
  ASSUME NEW d \in Days, NEW lines, NEW base, Written(d, lines), Grows(d, lines, base),
         JournalTypes, OncePerRun, Died \/ run' = run,
         NEW self, self = run, \A e \in Days : Quotas(e, self)'
  PROVE  OncePerRun'
<1>1. \E S : log \in Seq(S)
  BY DEF JournalTypes
<1>2. ASSUME NEW r \in 1..run, NEW e \in Days PROVE Quotas(e, r)'
  <2>1. CASE r = self
    BY <2>1
  <2>2. CASE r # self
    <3>1. \A file, kind : kind \notin {"header", "day_start"} =>
            LinesOf(file, kind, {e}, r)' = LinesOf(file, kind, {e}, r)
      <4> SUFFICES ASSUME NEW file, NEW kind, kind \notin {"header", "day_start"}
                   PROVE  LinesOf(file, kind, {e}, r)' = LinesOf(file, kind, {e}, r)
        OBVIOUS
      <4> DEFINE D == {e}
      <4>1. \A k \in 1..Len(lines) : ~Matches(lines[k], file, kind, D, r)
        BY <2>2 DEF Matches, Written
      <4> HIDE DEF D
      <4>2. LinesOf(file, kind, D, r)' = LinesOf(file, kind, D, r)
        BY <1>1, <4>1, Unmatched
      <4> QED
        BY <4>2 DEF D
    <3>2. /\ LinesOf("jsonl", "daily_rollup", {e}, r)' = LinesOf("jsonl", "daily_rollup", {e}, r)
          /\ LinesOf("md", "declined", {e}, r)' = LinesOf("md", "declined", {e}, r)
          /\ LinesOf("md", "trade_exit", {e}, r)' = LinesOf("md", "trade_exit", {e}, r)
          /\ LinesOf("jsonl", "trade_exit", {e}, r)' = LinesOf("jsonl", "trade_exit", {e}, r)
      BY <3>1
    <3>3. Quotas(e, r)
      BY OnceIsQuotas
    <3> QED
      BY <3>2, <3>3 DEF Quotas
  <2> QED
    BY <2>1, <2>2
<1>3. ASSUME Died, NEW r \in 1..run', r \notin 1..run, NEW e \in Days PROVE Quotas(e, r)'
  <2>1. r = run'
    BY <1>3 DEF Died, JournalTypes
  <2>2. \A file, kind, D : LinesOf(file, kind, D, run)' = {}
    BY <1>3, Afresh
  <2>3. \A file, kind, D : LinesOf(file, kind, D, r)' = {}
    BY <2>1, <2>2
  <2>4. Cardinality({}) = 0 /\ MaxDetail \in Nat
    BY FS_EmptySet, JournalAssumption
  <2>5. 0 <= 1 /\ 0 <= MaxDetail /\ 0 - 0 \in 0..1
    BY <2>4
  <2> QED
    BY <2>3, <2>4, <2>5 DEF Quotas
<1>4. \A r \in 1..run', e \in Days : Quotas(e, r)'
  BY <1>2, <1>3
<1> QED
  BY <1>4, OnceIsQuotas DEF OncePerRun, Quotas

LEMMA FreshIsMemory == Fresh \in Memory
<1>1. \A S : <<>> \in Seq(S)
  BY EmptySeq
<1>2. [d \in Days |-> <<>>] \in [Days -> Seq(SeenRecords)]
  BY <1>1
<1>3. [d \in Days |-> <<>>] \in [Days -> Seq([source : Perspectives])]
  BY <1>1
<1>4. {} \in SUBSET Trades /\ {} \in SUBSET Days /\ <<>> \in Seq(SeenRecords)
  BY <1>1
<1> QED
  BY <1>2, <1>3, <1>4 DEF Fresh, Memory

(* The part of a step that is the same for every operation.                *)
LEMMA WritesKeep ==
  ASSUME JournalInv, NEW d \in Days, NEW X, NEW lines \in Seq(X), NEW remembered \in Memory,
         Written(d, lines), Writes(d, lines, remembered), NEW self, self = run,
         \A base : Grows(d, lines, base) =>
           /\ \A i \in base + 1..Len(log') :
                log'[i].kind = "daily_rollup" /\ log'[i].file = "jsonl" => RollupAt(i)'
           /\ \A i \in base + 1..Len(log') : log'[i].kind = "trade_exit" => ExitAt(i)'
           /\ \A e \in Days : Quotas(e, self)'
           /\ Survived(lines, base, remembered) => MemoryFits'
  PROVE  JournalInv'
<1>1. JournalTypes /\ JournalTrue /\ \E S : log \in Seq(S)
  BY DEF JournalInv, JournalTypes
<1>2. OneHeader /\ RollupsRecomputable /\ ExitsAttributed /\ OncePerRun
  BY <1>1 DEF JournalTrue
<1>3. PICK base : /\ Grows(d, lines, base)
                  /\ Survived(lines, base, remembered) \/ Died
                  /\ OneHeader' /\ day' = day
  BY <1>1, <1>2, WritesGrow
<1>4. /\ \A i \in base + 1..Len(log') :
           log'[i].kind = "daily_rollup" /\ log'[i].file = "jsonl" => RollupAt(i)'
      /\ \A i \in base + 1..Len(log') : log'[i].kind = "trade_exit" => ExitAt(i)'
      /\ \A e \in Days : Quotas(e, self)'
      /\ Survived(lines, base, remembered) => MemoryFits'
  BY <1>3
<1>5. RollupsRecomputable' /\ ExitsAttributed'
  BY <1>1, <1>2, <1>3, <1>4, NewLines
<1>6. OncePerRun'
  BY <1>1, <1>2, <1>3, <1>4, QuotasKept DEF Survived
<1>7. JournalTypes'
  <2>1. mem' \in Memory /\ run' \in Nat \ {0} /\ run <= run'
    BY <1>1, <1>3, FreshIsMemory DEF Survived, Died, JournalTypes
  <2>2. \A i \in 1..Len(log') : log'[i].run \in 1..run /\ log'[i].day \in Days
    BY <1>1, <1>3, LogTyped
  <2>3. \A x \in 1..run : x \in 1..run'
    BY <1>1, <2>1 DEF JournalTypes
  <2>4. (\E S : log \in Seq(S))' /\ day' \in Days
    BY <1>1, <1>3 DEF Grows, JournalTypes
  <2> QED
    BY <2>1, <2>2, <2>3, <2>4 DEF JournalTypes
<1>8. MemoryFits'
  BY <1>1, <1>3, <1>4, Afresh
<1> QED
  BY <1>3, <1>5, <1>6, <1>7, <1>8 DEF JournalInv, JournalTrue, MemoryFits

-----------------------------------------------------------------------------
(* What an operation leaves alone.                                         *)
LEMMA QuietKind ==
  ASSUME NEW d, NEW lines, NEW base, Written(d, lines), Grows(d, lines, base),
         \E S : log \in Seq(S), NEW kind, kind \notin {"header", "day_start"},
         \A k \in 1..Len(lines) : lines[k].kind # kind
  PROVE  \A file, D, r :
           /\ LinesOf(file, kind, D, r)' = LinesOf(file, kind, D, r)
           /\ Picked(log', LinesOf(file, kind, D, r)') = Picked(log, LinesOf(file, kind, D, r))
<1> SUFFICES ASSUME NEW file, NEW D, NEW r
             PROVE  /\ LinesOf(file, kind, D, r)' = LinesOf(file, kind, D, r)
                    /\ Picked(log', LinesOf(file, kind, D, r)') = Picked(log, LinesOf(file, kind, D, r))
  OBVIOUS
<1>1. \A k \in 1..Len(lines) : ~Matches(lines[k], file, kind, D, r)
  BY DEF Matches
<1> QED
  BY <1>1, Unmatched

LEMMA StaysExited ==
  ASSUME NEW d, NEW lines, NEW base, Grows(d, lines, base), \E S : log \in Seq(S),
         NEW t, Exited(t)
  PROVE  Exited(t)'
<1>1. /\ DOMAIN log = 1..Len(log) /\ DOMAIN log' = 1..Len(log')
      /\ Len(log) \in Nat /\ Len(log') \in Nat /\ Len(log) <= Len(log')
      /\ \A i \in 1..Len(log) : log'[i] = log[i]
  BY DEF Grows, Begins
<1>2. PICK i \in 1..Len(log) : log[i].kind = "trade_exit" /\ log[i].body.trade = t
  BY <1>1 DEF Exited
<1>3. i \in DOMAIN log' /\ log'[i] = log[i]
  BY <1>1
<1> QED
  BY <1>2, <1>3 DEF Exited

LEMMA OpenKept ==
  ASSUME NEW d, NEW lines, NEW base, Written(d, lines), Grows(d, lines, base),
         \E S : log \in Seq(S), OpenTrue, run' = run,
         \A k \in 1..Len(lines) : lines[k].kind # "trade_entry",
         \A t \in Trades : ~Exited(t)' => (t \in mem'.open <=> t \in mem.open)
  PROVE  OpenTrue'
<1> SUFFICES ASSUME NEW t \in Trades, ~Exited(t)'
             PROVE  t \in mem'.open <=> EnteredBefore(Len(log) + 1, t, run)'
  BY DEF OpenTrue
<1>1. ~Exited(t)
  BY StaysExited
<1> DEFINE r == run
<1>2. r' = r
  OBVIOUS
<1>3. EnteredBefore(Len(log) + 1, t, r)' <=> EnteredBefore(Len(log) + 1, t, r)
  <2> HIDE DEF r
  <2>1. PICK self : self = r
    OBVIOUS
  <2>2. EnteredBefore(Len(log) + 1, t, self)' <=> EnteredBefore(Len(log) + 1, t, self)
    BY EnteredGrows
  <2> QED
    BY <1>2, <2>1, <2>2 DEF EnteredBefore
<1> QED
  BY <1>1, <1>3 DEF OpenTrue

LEMMA RolledKept ==
  ASSUME NEW d, NEW lines, NEW base, Written(d, lines), Grows(d, lines, base),
         RolledTrue, run' = run, mem.rolled \subseteq mem'.rolled,
         \A k \in 1..Len(lines) : lines[k].kind = "daily_rollup" => d \in mem'.rolled
  PROVE  RolledTrue'
<1> SUFFICES ASSUME NEW i \in 1..Len(log'), log'[i].file = "jsonl",
                    log'[i].kind = "daily_rollup", log'[i].run = run'
             PROVE  log'[i].day \in mem'.rolled
  BY DEF RolledTrue
<1>1. /\ Len(log) \in Nat /\ Len(log') \in Nat /\ base \in Nat /\ Len(log) <= base
      /\ Len(log') <= base + Len(lines) /\ Len(lines) \in Nat
  BY DEF Grows, Begins, Written
<1>2. CASE i \in 1..Len(log)
  BY <1>2 DEF Grows, Begins, RolledTrue
<1>3. CASE i \in Len(log) + 1..Len(log') /\ i <= base
  BY <1>3 DEF Grows
<1>4. CASE i \in base + 1..Len(log')
  <2>1. i - base \in 1..Len(lines)
    BY <1>1, <1>4
  <2>2. log'[i] = lines[i - base]
    BY <1>4 DEF Grows
  <2> QED
    BY <2>1, <2>2 DEF Written
<1> QED
  BY <1>1, <1>2, <1>3, <1>4

LEMMA OneAndOne ==
  ASSUME NEW x, NEW y
  PROVE  /\ <<x>> \o <<y>> \in Seq({x, y}) /\ Len(<<x>> \o <<y>>) = 2
         /\ (<<x>> \o <<y>>)[1] = x /\ (<<x>> \o <<y>>)[2] = y
<1> DEFINE S == {x, y}
           u == <<x>>
           v == <<y>>
<1>1. u \in Seq(S) /\ v \in Seq(S) /\ Len(u) = 1 /\ Len(v) = 1 /\ u[1] = x /\ v[1] = y
  OBVIOUS
<1> HIDE DEF S, u, v
<1>2. /\ u \o v \in Seq(S) /\ Len(u \o v) = Len(u) + Len(v)
      /\ \A i \in 1..Len(u) + Len(v) :
           (u \o v)[i] = IF i <= Len(u) THEN u[i] ELSE v[i - Len(u)]
  BY <1>1, ConcatProperties
<1>3. Len(u \o v) = 2 /\ (u \o v)[1] = x /\ (u \o v)[2] = y
  BY <1>1, <1>2
<1> QED
  BY <1>2, <1>3 DEF S, u, v

LEMMA TwoLines ==
  ASSUME NEW x, NEW y
  PROVE  /\ <<x, y>> \in Seq({x, y}) /\ Len(<<x, y>>) = 2
         /\ <<x, y>>[1] = x /\ <<x, y>>[2] = y
         /\ \A k \in 1..Len(<<x, y>>) : k = 1 \/ k = 2
OBVIOUS

(* Every new line of the operation is one of its lines.                    *)
LEMMA NewLineOf ==
  ASSUME NEW d, NEW lines, NEW base, Written(d, lines), Grows(d, lines, base),
         NEW i \in base + 1..Len(log')
  PROVE  i - base \in 1..Len(lines) /\ log'[i] = lines[i - base]
<1>1. /\ Len(log') \in Nat /\ base \in Nat /\ Len(log') <= base + Len(lines) /\ Len(lines) \in Nat
  BY DEF Grows, Begins, Written
<1>2. log'[i] = lines[i - base]
  BY DEF Grows
<1> QED
  BY <1>1, <1>2

LEMMA EntryKeeps == JournalInv /\ LogEntry => JournalInv'
<1> SUFFICES ASSUME JournalInv, LogEntry PROVE JournalInv'
  OBVIOUS
<1>1. PICK t \in Trades :
        Writes(day, <<LogLine("md", "trade_entry", day, [trade |-> t]),
                      LogLine("jsonl", "trade_entry", day, [trade |-> t])>>,
               [mem EXCEPT !.open = @ \cup {t}])
  BY DEF LogEntry
<1> DEFINE x == LogLine("md", "trade_entry", day, [trade |-> t])
           y == LogLine("jsonl", "trade_entry", day, [trade |-> t])
           lines == <<x, y>>
           remembered == [mem EXCEPT !.open = @ \cup {t}]
<1>2. /\ x.file = "md" /\ x.kind = "trade_entry" /\ x.day = day /\ x.run = run
      /\ y.file = "jsonl" /\ y.kind = "trade_entry" /\ y.day = day /\ y.run = run
      /\ y.body.trade = t
  BY DEF LogLine
<1> HIDE DEF x, y
<1>3. /\ lines \in Seq({x, y}) /\ Len(lines) = 2 /\ lines[1] = x /\ lines[2] = y
      /\ \A k \in 1..Len(lines) : k = 1 \/ k = 2
  BY TwoLines
<1>4. Writes(day, lines, remembered)
  BY <1>1 DEF x, y
<1> HIDE DEF lines
<1>5. Written(day, lines) /\ \A k \in 1..Len(lines) : lines[k].kind = "trade_entry"
  BY <1>2, <1>3 DEF Written
<1>6. /\ JournalTypes /\ JournalTrue /\ (\E S : log \in Seq(S)) /\ day \in Days /\ mem \in Memory
      /\ MemoryTrue /\ OpenTrue /\ RolledTrue /\ CountsTrue
  BY DEF JournalInv, JournalTypes
<1>7. remembered \in Memory
  BY <1>6 DEF Memory
<1>8. /\ remembered.open = mem.open \cup {t} /\ remembered.trades = mem.trades
      /\ remembered.all = mem.all /\ remembered.declines = mem.declines
      /\ remembered.rolled = mem.rolled
  BY <1>6 DEF Memory
<1> HIDE DEF remembered
<1>9. PICK self : self = run
  OBVIOUS
<1>10. ASSUME NEW base, Grows(day, lines, base)
       PROVE  /\ \A i \in base + 1..Len(log') :
                   log'[i].kind = "daily_rollup" /\ log'[i].file = "jsonl" => RollupAt(i)'
              /\ \A i \in base + 1..Len(log') : log'[i].kind = "trade_exit" => ExitAt(i)'
              /\ \A e \in Days : Quotas(e, self)'
              /\ Survived(lines, base, remembered) => MemoryFits'
  <2>1. \A i \in base + 1..Len(log') : log'[i].kind = "trade_entry"
    BY <1>5, <1>10, NewLineOf
  <2>2. \A kind \in {"daily_rollup", "declined", "trade_exit"} : \A file, D, r :
           /\ LinesOf(file, kind, D, r)' = LinesOf(file, kind, D, r)
           /\ Picked(log', LinesOf(file, kind, D, r)') = Picked(log, LinesOf(file, kind, D, r))
    <3> SUFFICES ASSUME NEW kind \in {"daily_rollup", "declined", "trade_exit"}
                 PROVE  \A file, D, r :
                          /\ LinesOf(file, kind, D, r)' = LinesOf(file, kind, D, r)
                          /\ Picked(log', LinesOf(file, kind, D, r)') =
                               Picked(log, LinesOf(file, kind, D, r))
      OBVIOUS
    <3>1. kind \notin {"header", "day_start"} /\ \A k \in 1..Len(lines) : lines[k].kind # kind
      BY <1>5
    <3> QED
      BY <1>5, <1>6, <1>10, <3>1, QuietKind
  <2>3. ASSUME NEW e \in Days PROVE Quotas(e, self)'
    <3>1. Quotas(e, self)
      <4>1. self \in 1..run
        BY <1>6, <1>9 DEF JournalTypes
      <4> QED
        BY <1>6, <4>1, OnceIsQuotas DEF JournalTrue
    <3> QED
      BY <2>2, <3>1 DEF Quotas
  <2>4. ASSUME Survived(lines, base, remembered) PROVE MemoryFits'
    <3>1. mem' = remembered /\ run' = run /\ Len(log') = base + Len(lines)
      BY <2>4 DEF Survived
    <3>2. MemoryTrue'
      <4>1. \A kind, D : LinesOf("jsonl", kind, D, run)' = LinesOf("jsonl", kind, D, self)'
        BY <1>9, <3>1 DEF LinesOf
      <4>2. \A D : /\ Picked(log', LinesOf("jsonl", "trade_exit", D, self)') =
                       Picked(log, LinesOf("jsonl", "trade_exit", D, self))
                   /\ Picked(log', LinesOf("jsonl", "declined", D, self)') =
                       Picked(log, LinesOf("jsonl", "declined", D, self))
        BY <2>2
      <4>3. ASSUME NEW e \in Days
            PROVE  (mem.trades[e] = SeenOf(Picked(log, LinesOf("jsonl", "trade_exit", {e}, run))))'
        <5>1. mem.trades[e] = SeenOf(Picked(log, LinesOf("jsonl", "trade_exit", {e}, self)))
          BY <1>6, <1>9 DEF MemoryTrue
        <5>2. mem'.trades[e] = SeenOf(Picked(log', LinesOf("jsonl", "trade_exit", {e}, self)'))
          BY <1>8, <3>1, <4>2, <5>1
        <5> QED
          BY <4>1, <5>2 DEF SeenOf
      <4>4. ASSUME NEW e \in Days
            PROVE  (mem.declines[e] = BodyOf(Picked(log, LinesOf("jsonl", "declined", {e}, run))))'
        <5>1. mem.declines[e] = BodyOf(Picked(log, LinesOf("jsonl", "declined", {e}, self)))
          BY <1>6, <1>9 DEF MemoryTrue
        <5>2. mem'.declines[e] = BodyOf(Picked(log', LinesOf("jsonl", "declined", {e}, self)'))
          BY <1>8, <3>1, <4>2, <5>1
        <5> QED
          BY <4>1, <5>2 DEF BodyOf
      <4>5. (mem.all = SeenOf(Picked(log, LinesOf("jsonl", "trade_exit", Days, run))))'
        <5>1. mem.all = SeenOf(Picked(log, LinesOf("jsonl", "trade_exit", Days, self)))
          BY <1>6, <1>9 DEF MemoryTrue
        <5>2. mem'.all = SeenOf(Picked(log', LinesOf("jsonl", "trade_exit", Days, self)'))
          BY <1>8, <3>1, <4>2, <5>1
        <5> QED
          BY <4>1, <5>2 DEF SeenOf
      <4> QED
        BY <4>3, <4>4, <4>5 DEF MemoryTrue
    <3>3. OpenTrue'
      <4> SUFFICES ASSUME NEW u \in Trades, ~Exited(u)'
                   PROVE  u \in mem'.open <=> EnteredBefore(Len(log) + 1, u, run)'
        BY DEF OpenTrue
      <4>1. ~Exited(u)
        BY <1>6, <1>10, StaysExited
      <4>2. u \in mem.open <=> EnteredBefore(Len(log) + 1, u, self)
        BY <1>6, <1>9, <4>1 DEF OpenTrue
      <4>3. EnteredBefore(Len(log) + 1, u, self)' <=>
              \/ EnteredBefore(Len(log) + 1, u, self)
              \/ \E k \in 1..Len(lines) :
                   /\ base + k <= Len(log')
                   /\ lines[k].kind = "trade_entry" /\ lines[k].file = "jsonl"
                   /\ lines[k].body.trade = u /\ lines[k].run = self
        BY <1>5, <1>10, EnteredGrows
      <4>4. (\E k \in 1..Len(lines) :
                   /\ base + k <= Len(log')
                   /\ lines[k].kind = "trade_entry" /\ lines[k].file = "jsonl"
                   /\ lines[k].body.trade = u /\ lines[k].run = self) <=> u = t
        <5>1. base + 2 <= Len(log') /\ 2 \in 1..Len(lines)
          BY <1>3, <1>10, <3>1 DEF Grows
        <5> QED
          BY <1>2, <1>3, <1>9, <5>1
      <4>5. EnteredBefore(Len(log) + 1, u, run)' <=> EnteredBefore(Len(log) + 1, u, self)'
        BY <1>9, <3>1 DEF EnteredBefore
      <4> QED
        BY <1>8, <3>1, <4>2, <4>3, <4>4, <4>5
    <3>4. RolledTrue'
      BY <1>5, <1>6, <1>8, <1>10, <3>1, RolledKept
    <3>5. CountsTrue'
      BY <1>6, <1>8, <2>2, <3>1 DEF CountsTrue
    <3> QED
      BY <3>2, <3>3, <3>4, <3>5 DEF MemoryFits
  <2> QED
    BY <2>1, <2>3, <2>4
<1> QED
  BY <1>3, <1>4, <1>5, <1>6, <1>7, <1>9, <1>10, WritesKeep

LEMMA QuotasNow ==
  ASSUME JournalInv, NEW self, self = run
  PROVE  \A e \in Days : Quotas(e, self)
<1>1. self \in 1..run
  BY DEF JournalInv, JournalTypes
<1> QED
  BY <1>1, OnceIsQuotas DEF JournalInv, JournalTrue

(* A new line sees of a kind it is not what the files held before.         *)
LEMMA SeenBefore ==
  ASSUME NEW d, NEW lines, NEW base, Written(d, lines), Grows(d, lines, base),
         \E S : log \in Seq(S), NEW kind, kind \notin {"header", "day_start"},
         \A k \in 1..Len(lines) : lines[k].kind # kind,
         NEW i \in base + 1..Len(log'), NEW D, NEW r, log'[i].run = r
  PROVE  Of(i, kind, D)' = Picked(log, LinesOf("jsonl", kind, D, r))
<1>1. /\ LinesOf("jsonl", kind, D, r)' = LinesOf("jsonl", kind, D, r)
      /\ Picked(log', LinesOf("jsonl", kind, D, r)') = Picked(log, LinesOf("jsonl", kind, D, r))
  BY QuietKind
<1>2. LinesOf("jsonl", kind, D, r) \subseteq 1..Len(log)
  BY LinesGrow
<1>3. \A j \in 1..Len(log) : j < i
  BY DEF Grows, Begins
<1> DEFINE J == LinesOf("jsonl", kind, D, r)
<1>4. Of(i, kind, D)' = Picked(log', {j \in J' : j < i})
  BY DEF Of, LinesOf
<1>5. {j \in J' : j < i} = J'
  BY <1>1, <1>2, <1>3
<1> HIDE DEF J
<1>6. Of(i, kind, D)' = Picked(log', J')
  BY <1>4, <1>5
<1> QED
  BY <1>1, <1>6 DEF J

LEMMA RollUpKeeps == JournalInv /\ RollUp => JournalInv'
<1> SUFFICES ASSUME JournalInv, RollUp PROVE JournalInv'
  OBVIOUS
<1>1. PICK d \in 0..day :
        /\ d \notin mem.rolled
        /\ Writes(d, <<LogLine("md", "daily_rollup", d, {}),
                       LogLine("jsonl", "daily_rollup", d,
                               Rollup(mem.trades[d], mem.declines[d], mem.all))>>,
                  [mem EXCEPT !.rolled = @ \cup {d}])
  BY DEF RollUp
<1> DEFINE x == LogLine("md", "daily_rollup", d, {})
           body == Rollup(mem.trades[d], mem.declines[d], mem.all)
           y == LogLine("jsonl", "daily_rollup", d, body)
           lines == <<x, y>>
           remembered == [mem EXCEPT !.rolled = @ \cup {d}]
<1> HIDE DEF body
<1>2. /\ x.file = "md" /\ x.kind = "daily_rollup" /\ x.day = d /\ x.run = run
      /\ y.file = "jsonl" /\ y.kind = "daily_rollup" /\ y.day = d /\ y.run = run
      /\ y.body = body
  BY DEF LogLine
<1> HIDE DEF x, y
<1>3. /\ lines \in Seq({x, y}) /\ Len(lines) = 2 /\ lines[1] = x /\ lines[2] = y
      /\ \A k \in 1..Len(lines) : k = 1 \/ k = 2
  BY TwoLines
<1>4. Writes(d, lines, remembered)
  BY <1>1 DEF x, y, body
<1> HIDE DEF lines
<1>5. Written(d, lines) /\ \A k \in 1..Len(lines) : lines[k].kind = "daily_rollup"
  BY <1>2, <1>3 DEF Written
<1>6. /\ JournalTypes /\ JournalTrue /\ (\E S : log \in Seq(S)) /\ d \in Days /\ mem \in Memory
      /\ MemoryTrue /\ OpenTrue /\ RolledTrue /\ CountsTrue
  <2>1. day \in Days /\ MaxDay \in Nat
    BY JournalAssumption DEF JournalInv, JournalTypes
  <2>2. d \in Days
    BY <2>1 DEF Days
  <2> QED
    BY <2>2 DEF JournalInv, JournalTypes
<1>7. remembered \in Memory
  BY <1>6 DEF Memory
<1>8. /\ remembered.open = mem.open /\ remembered.trades = mem.trades
      /\ remembered.all = mem.all /\ remembered.declines = mem.declines
      /\ remembered.rolled = mem.rolled \cup {d}
  BY <1>6 DEF Memory
<1> HIDE DEF remembered
<1>9. PICK self : self = run
  OBVIOUS
<1>10. ASSUME NEW base, Grows(d, lines, base)
       PROVE  /\ \A i \in base + 1..Len(log') :
                   log'[i].kind = "daily_rollup" /\ log'[i].file = "jsonl" => RollupAt(i)'
              /\ \A i \in base + 1..Len(log') : log'[i].kind = "trade_exit" => ExitAt(i)'
              /\ \A e \in Days : Quotas(e, self)'
              /\ Survived(lines, base, remembered) => MemoryFits'
  <2>1. \A i \in base + 1..Len(log') : log'[i].kind = "daily_rollup"
    BY <1>5, <1>10, NewLineOf
  <2>2. \A kind \in {"declined", "trade_exit"} : \A file, D, r :
           /\ LinesOf(file, kind, D, r)' = LinesOf(file, kind, D, r)
           /\ Picked(log', LinesOf(file, kind, D, r)') = Picked(log, LinesOf(file, kind, D, r))
    <3> SUFFICES ASSUME NEW kind \in {"declined", "trade_exit"}
                 PROVE  \A file, D, r :
                          /\ LinesOf(file, kind, D, r)' = LinesOf(file, kind, D, r)
                          /\ Picked(log', LinesOf(file, kind, D, r)') =
                               Picked(log, LinesOf(file, kind, D, r))
      OBVIOUS
    <3>1. kind \notin {"header", "day_start"} /\ \A k \in 1..Len(lines) : lines[k].kind # kind
      BY <1>5
    <3> QED
      BY <1>5, <1>6, <1>10, <3>1, QuietKind
  <2>3. ASSUME NEW i \in base + 1..Len(log'), log'[i].file = "jsonl" PROVE RollupAt(i)'
    <3>1. log'[i] = y
      BY <1>2, <1>3, <1>5, <1>10, <2>3, NewLineOf
    <3>2. \A kind \in {"declined", "trade_exit"} : \A D :
            Of(i, kind, D)' = Picked(log, LinesOf("jsonl", kind, D, self))
      <4> SUFFICES ASSUME NEW kind \in {"declined", "trade_exit"}, NEW D
                   PROVE  Of(i, kind, D)' = Picked(log, LinesOf("jsonl", kind, D, self))
        OBVIOUS
      <4>1. kind \notin {"header", "day_start"} /\ \A k \in 1..Len(lines) : lines[k].kind # kind
        BY <1>5
      <4>2. log'[i].run = self
        BY <1>2, <1>9, <3>1
      <4> QED
        BY <1>5, <1>6, <1>10, <4>1, <4>2, SeenBefore
    <3>3. /\ mem.trades[d] = SeenOf(Picked(log, LinesOf("jsonl", "trade_exit", {d}, self)))
          /\ mem.declines[d] = BodyOf(Picked(log, LinesOf("jsonl", "declined", {d}, self)))
          /\ mem.all = SeenOf(Picked(log, LinesOf("jsonl", "trade_exit", Days, self)))
      BY <1>6, <1>9 DEF MemoryTrue
    <3>4. /\ mem.trades[d] = SeenOf(Of(i, "trade_exit", {d})')
          /\ mem.declines[d] = BodyOf(Of(i, "declined", {d})')
          /\ mem.all = SeenOf(Of(i, "trade_exit", Days)')
      BY <3>2, <3>3
    <3>5. log'[i].body = body /\ log'[i].day = d
      BY <1>2, <3>1
    <3>6. log'[i].body = Rollup(SeenOf(Of(i, "trade_exit", {d})'), BodyOf(Of(i, "declined", {d})'),
                                SeenOf(Of(i, "trade_exit", Days)'))
      BY <3>4, <3>5 DEF body
    <3>7. {d} = {log'[i].day}
      BY <3>5
    <3> QED
      BY <3>6, <3>7 DEF RollupAt, SeenOf, BodyOf
  <2>4. ASSUME NEW e \in Days PROVE Quotas(e, self)'
    <3>1. Quotas(e, self)
      BY <1>9, QuotasNow
    <3>2. Cardinality(LinesOf("jsonl", "daily_rollup", {e}, self)') <= 1
      <4> DEFINE D == {e}
                 L == LinesOf("jsonl", "daily_rollup", D, self)
      <4>1. CASE e = d
        <5>1. L = {}
          BY <1>1, <1>6, <1>9, <4>1 DEF RolledTrue, LinesOf
        <5>2. \A i : i \in L' => i = base + 2
          <6> HIDE DEF D
          <6>1. \A i : i \in L' <=>
                   \/ i \in L
                   \/ /\ i \in base + 1..Len(log')
                      /\ Matches(lines[i - base], "jsonl", "daily_rollup", D, self)
            BY <1>5, <1>6, <1>10, LinesGrow
          <6>2. \A i \in base + 1..Len(log') : i - base = 1 \/ i - base = 2
            BY <1>3, <1>5, <1>10, NewLineOf
          <6>3. \A i \in base + 1..Len(log') : i - base = 1 => lines[i - base].file = "md"
            BY <1>2, <1>3
          <6>4. \A i \in base + 1..Len(log') : i - base = 2 => i = base + 2
            BY <1>10 DEF Grows
          <6> HIDE DEF L
          <6> QED
            BY <5>1, <6>1, <6>2, <6>3, <6>4 DEF Matches
        <5> HIDE DEF L
        <5>3. L' = {} \/ L' = {base + 2}
          BY <5>2
        <5>4. Cardinality(L') = 0 \/ Cardinality(L') = 1
          BY <5>3, FS_EmptySet, FS_Singleton
        <5>5. Cardinality(L') <= 1
          BY <5>4
        <5> QED
          BY <5>5 DEF L
      <4>2. CASE e # d
        <5>1. \A k \in 1..Len(lines) : ~Matches(lines[k], "jsonl", "daily_rollup", D, self)
          BY <1>5, <4>2 DEF Matches, Written
        <5> HIDE DEF D
        <5>2. L' = L
          BY <1>5, <1>6, <1>10, <5>1, Unmatched
        <5> QED
          BY <3>1, <5>2 DEF Quotas, D
      <4> QED
        BY <4>1, <4>2
    <3> QED
      BY <2>2, <3>1, <3>2 DEF Quotas
  <2>5. ASSUME Survived(lines, base, remembered) PROVE MemoryFits'
    <3>1. mem' = remembered /\ run' = run
      BY <2>5 DEF Survived
    <3>2. MemoryTrue'
      BY <1>6, <1>8, <2>2, <3>1 DEF MemoryTrue, SeenOf, BodyOf
    <3>3. OpenTrue'
      BY <1>5, <1>6, <1>8, <1>10, <3>1, OpenKept
    <3>4. RolledTrue'
      BY <1>5, <1>6, <1>8, <1>10, <3>1, RolledKept
    <3>5. CountsTrue'
      BY <1>6, <1>8, <2>2, <3>1 DEF CountsTrue
    <3> QED
      BY <3>2, <3>3, <3>4, <3>5 DEF MemoryFits
  <2> QED
    BY <2>1, <2>3, <2>4, <2>5
<1> QED
  BY <1>3, <1>4, <1>5, <1>6, <1>7, <1>9, <1>10, WritesKeep

LEMMA AppendIs ==
  ASSUME NEW n \in Nat, NEW X, NEW f \in [1..n -> X], NEW v,
         NEW Z, NEW h \in [1..n + 1 -> Z], h[n + 1] = v, \A k \in 1..n : h[k] = f[k]
  PROVE  Append(f, v) = h
<1> DEFINE Y == X \cup {v}
           g == Append(f, v)
<1>1. f \in Seq(Y) /\ Len(f) = n /\ v \in Y
  <2>1. f \in [1..n -> Y]
    OBVIOUS
  <2> HIDE DEF Y
  <2>2. f \in Seq(Y) /\ Len(f) = n
    BY <2>1
  <2> QED
    BY <2>2 DEF Y
<1> HIDE DEF Y
<1>2. g \in Seq(Y) /\ Len(g) = n + 1 /\ g[n + 1] = v /\ \A k \in 1..n : g[k] = f[k]
  BY <1>1
<1> HIDE DEF g
<1>3. g = [k \in 1..n + 1 |-> g[k]]
  BY <1>2
<1>4. \A k \in 1..n + 1 : k # n + 1 => k \in 1..n
  OBVIOUS
<1>5. \A k \in 1..n + 1 : g[k] = h[k]
  BY <1>2, <1>4
<1>6. g = h
  BY <1>3, <1>5
<1> QED
  BY <1>6 DEF g

LEMMA SeenOfMore ==
  ASSUME NEW S, NEW p \in Seq(S), NEW line
  PROVE  /\ SeenOf(Append(p, line)) = Append(SeenOf(p), line.body.seen)
         /\ BodyOf(Append(p, line)) = Append(BodyOf(p), line.body)
<1> DEFINE n == Len(p)
           q == Append(p, line)
           s == [k \in 1..n |-> p[k].body.seen]
           b == [k \in 1..n |-> p[k].body]
<1>1. n \in Nat /\ DOMAIN p = 1..n
  OBVIOUS
<1>2. Len(q) = n + 1 /\ DOMAIN q = 1..n + 1 /\ q[n + 1] = line /\ \A k \in 1..n : q[k] = p[k]
  OBVIOUS
<1>3. SeenOf(p) = s /\ BodyOf(p) = b
  BY <1>1 DEF SeenOf, BodyOf
<1>4. /\ SeenOf(q) = [k \in 1..n + 1 |-> q[k].body.seen]
      /\ BodyOf(q) = [k \in 1..n + 1 |-> q[k].body]
  BY <1>2 DEF SeenOf, BodyOf
<1> DEFINE hs == SeenOf(q)
           hb == BodyOf(q)
<1>5. \A k \in 1..n : k \in 1..n + 1
  BY <1>1
<1>6. n + 1 \in 1..n + 1
  BY <1>1
<1>7. /\ hs \in [1..n + 1 -> {hs[k] : k \in 1..n + 1}]
      /\ hs[n + 1] = line.body.seen /\ \A k \in 1..n : hs[k] = s[k]
      /\ s \in [1..n -> {s[k] : k \in 1..n}]
  BY <1>2, <1>4, <1>5, <1>6
<1>8. /\ hb \in [1..n + 1 -> {hb[k] : k \in 1..n + 1}]
      /\ hb[n + 1] = line.body /\ \A k \in 1..n : hb[k] = b[k]
      /\ b \in [1..n -> {b[k] : k \in 1..n}]
  BY <1>2, <1>4, <1>5, <1>6
<1> HIDE DEF hs, hb, s, b
<1>9. Append(s, line.body.seen) = hs
  BY <1>1, <1>7, AppendIs
<1>10. Append(b, line.body) = hb
  BY <1>1, <1>8, AppendIs
<1> QED
  BY <1>3, <1>9, <1>10 DEF hs, hb

LEMMA EnteredFromNow ==
  ASSUME NEW d, NEW lines, NEW base, Written(d, lines), Grows(d, lines, base),
         \A k \in 1..Len(lines) : lines[k].kind # "trade_entry",
         NEW i \in base + 1..Len(log'), NEW t, NEW r
  PROVE  EnteredBefore(i, t, r)' <=> EnteredBefore(Len(log) + 1, t, r)
<1>1. /\ Len(log) \in Nat /\ Len(log') \in Nat /\ base \in Nat /\ Len(log) <= base
      /\ \A j \in 1..Len(log) : log'[j] = log[j]
  BY DEF Grows, Begins
<1>2. ASSUME NEW j \in 1..i - 1, log'[j].kind = "trade_entry" PROVE j \in 1..Len(log)
  <2>1. j \in 1..Len(log')
    BY <1>1
  <2>2. CASE j \in base + 1..Len(log')
    BY <1>2, <2>2, NewLineOf
  <2>3. CASE j \in Len(log) + 1..Len(log') /\ j <= base
    BY <1>2, <2>3 DEF Grows
  <2> QED
    BY <1>1, <2>1, <2>2, <2>3
<1>3. \A j \in 1..Len(log) : j \in 1..i - 1
  BY <1>1
<1>4. (Len(log) + 1) - 1 = Len(log)
  BY <1>1
<1> QED
  BY <1>1, <1>2, <1>3, <1>4 DEF EnteredBefore

LEMMA OneMoreLine ==
  ASSUME NEW L, IsFiniteSet(L), NEW e, e \notin L
  PROVE  Cardinality(L \cup {e}) = Cardinality(L) + 1
BY FS_AddElement

LEMMA ExitSeen ==
  ASSUME NEW t \in Trades, NEW known \in BOOLEAN
  PROVE  /\ SeenAs(t, known) \in SeenRecords
         /\ SeenAs(t, known).conviction = IF known THEN t.conviction ELSE Unknown
<1>1. t \in [conviction : Nat, source : Perspectives, aligned : STRING, r : Int]
  BY JournalAssumption
<1>2. SeenAs(t, known).conviction = IF known THEN t.conviction ELSE Unknown
  BY <1>1 DEF SeenAs
<1>3. SeenAs(t, known) \in SeenRecords
  BY DEF SeenRecords
<1> QED
  BY <1>2, <1>3

LEMMA ExitKeeps == JournalInv /\ LogExit => JournalInv'
<1> SUFFICES ASSUME JournalInv, LogExit PROVE JournalInv'
  OBVIOUS
<1>1. PICK t \in Trades :
        /\ ~Exited(t)
        /\ Writes(day, <<LogLine("md", "trade_exit", day, ExitBody(t, SeenAs(t, t \in mem.open))),
                         LogLine("jsonl", "trade_exit", day, ExitBody(t, SeenAs(t, t \in mem.open)))>>,
                  [mem EXCEPT !.open = @ \ {t},
                              !.trades[day] = Append(@, SeenAs(t, t \in mem.open)),
                              !.all = Append(@, SeenAs(t, t \in mem.open))])
  BY DEF LogExit
<1> DEFINE seen == SeenAs(t, t \in mem.open)
           body == ExitBody(t, seen)
           x == LogLine("md", "trade_exit", day, body)
           y == LogLine("jsonl", "trade_exit", day, body)
           lines == <<x, y>>
           remembered == [mem EXCEPT !.open = @ \ {t}, !.trades[day] = Append(@, seen),
                                     !.all = Append(@, seen)]
<1>2. /\ seen \in SeenRecords
      /\ seen.conviction = IF t \in mem.open THEN t.conviction ELSE Unknown
  <2> DEFINE known == t \in mem.open
  <2>1. known \in BOOLEAN
    OBVIOUS
  <2> HIDE DEF known
  <2>2. /\ SeenAs(t, known) \in SeenRecords
        /\ SeenAs(t, known).conviction = IF known THEN t.conviction ELSE Unknown
    BY <2>1, ExitSeen
  <2> QED
    BY <2>2 DEF known
<1>3. Writes(day, lines, remembered)
  BY <1>1
<1> HIDE DEF seen
<1>4. body.trade = t /\ body.seen = seen /\ body.attribution = Attribution(seen.conviction, t.r)
  BY DEF ExitBody
<1> HIDE DEF body
<1>5. /\ x.file = "md" /\ x.kind = "trade_exit" /\ x.day = day /\ x.run = run /\ x.body = body
      /\ y.file = "jsonl" /\ y.kind = "trade_exit" /\ y.day = day /\ y.run = run /\ y.body = body
  BY DEF LogLine
<1> HIDE DEF x, y
<1>6. /\ lines \in Seq({x, y}) /\ Len(lines) = 2 /\ lines[1] = x /\ lines[2] = y
      /\ \A k \in 1..Len(lines) : k = 1 \/ k = 2
  BY TwoLines
<1> HIDE DEF lines
<1>7. Written(day, lines) /\ \A k \in 1..Len(lines) : lines[k].kind = "trade_exit" /\ lines[k].body = body
  BY <1>5, <1>6 DEF Written
<1>8. /\ JournalTypes /\ JournalTrue /\ (\E S : log \in Seq(S)) /\ day \in Days /\ mem \in Memory
      /\ MemoryTrue /\ OpenTrue /\ RolledTrue /\ CountsTrue
  BY DEF JournalInv, JournalTypes
<1>9. /\ remembered \in Memory
      /\ remembered.open = mem.open \ {t}
      /\ remembered.trades = [mem.trades EXCEPT ![day] = Append(@, seen)]
      /\ remembered.all = Append(mem.all, seen) /\ remembered.declines = mem.declines
      /\ remembered.rolled = mem.rolled
  <2> DEFINE tr == [mem.trades EXCEPT ![day] = Append(@, seen)]
             al == Append(mem.all, seen)
             op == mem.open \ {t}
  <2>1. /\ mem.trades \in [Days -> Seq(SeenRecords)] /\ mem.all \in Seq(SeenRecords)
        /\ mem.open \in SUBSET Trades
    BY <1>8 DEF Memory
  <2>2. tr \in [Days -> Seq(SeenRecords)] /\ al \in Seq(SeenRecords) /\ op \in SUBSET Trades
    <3>1. \A s \in Seq(SeenRecords) : Append(s, seen) \in Seq(SeenRecords)
      BY <1>2
    <3> QED
      BY <1>8, <2>1, <3>1
  <2>3. remembered = [mem EXCEPT !.open = op, !.trades = tr, !.all = al]
    BY <1>8 DEF Memory
  <2> HIDE DEF tr, al, op, remembered
  <2>4. /\ remembered \in Memory
        /\ remembered.open = op /\ remembered.trades = tr /\ remembered.all = al
        /\ remembered.declines = mem.declines /\ remembered.rolled = mem.rolled
    BY <1>8, <2>2, <2>3 DEF Memory
  <2> QED
    BY <2>4 DEF tr, al, op
<1> HIDE DEF remembered
<1>10. PICK self : self = run
  OBVIOUS
<1>11. ASSUME NEW base, Grows(day, lines, base)
       PROVE  /\ \A i \in base + 1..Len(log') :
                   log'[i].kind = "daily_rollup" /\ log'[i].file = "jsonl" => RollupAt(i)'
              /\ \A i \in base + 1..Len(log') : log'[i].kind = "trade_exit" => ExitAt(i)'
              /\ \A e \in Days : Quotas(e, self)'
              /\ Survived(lines, base, remembered) => MemoryFits'
  <2>1. \A i \in base + 1..Len(log') : log'[i].kind = "trade_exit"
    BY <1>7, <1>11, NewLineOf
  <2>2. \A kind \in {"declined", "daily_rollup"} : \A file, D, r :
           /\ LinesOf(file, kind, D, r)' = LinesOf(file, kind, D, r)
           /\ Picked(log', LinesOf(file, kind, D, r)') = Picked(log, LinesOf(file, kind, D, r))
    <3> SUFFICES ASSUME NEW kind \in {"declined", "daily_rollup"}
                 PROVE  \A file, D, r :
                          /\ LinesOf(file, kind, D, r)' = LinesOf(file, kind, D, r)
                          /\ Picked(log', LinesOf(file, kind, D, r)') =
                               Picked(log, LinesOf(file, kind, D, r))
      OBVIOUS
    <3>1. kind \notin {"header", "day_start"} /\ \A k \in 1..Len(lines) : lines[k].kind # kind
      BY <1>7
    <3> QED
      BY <1>7, <1>8, <1>11, <3>1, QuietKind
  <2>3. ASSUME NEW i \in base + 1..Len(log') PROVE ExitAt(i)'
    <3>1. log'[i].body = body /\ log'[i].run = self
      BY <1>7, <1>10, <1>11, NewLineOf DEF Written
    <3>2. EnteredBefore(i, t, self)' <=> EnteredBefore(Len(log) + 1, t, self)
      BY <1>7, <1>11, EnteredFromNow
    <3>3. EnteredBefore(Len(log) + 1, t, self) <=> t \in mem.open
      BY <1>1, <1>8, <1>10 DEF OpenTrue
    <3>4. log'[i].body.attribution =
            Attribution(IF EnteredBefore(i, t, self)' THEN t.conviction ELSE Unknown, t.r)
      BY <1>2, <1>4, <3>1, <3>2, <3>3
    <3>5. log'[i].body.trade = t
      BY <1>4, <3>1
    <3> QED
      BY <3>1, <3>4, <3>5 DEF ExitAt, EnteredBefore
  <2>4. ASSUME NEW D, day \in D
        PROVE  /\ Len(log') < base + 1 =>
                    LinesOf("md", "trade_exit", D, self)' = LinesOf("md", "trade_exit", D, self)
               /\ Len(log') >= base + 1 =>
                    /\ LinesOf("md", "trade_exit", D, self)' =
                         LinesOf("md", "trade_exit", D, self) \cup {base + 1}
                    /\ base + 1 \notin LinesOf("md", "trade_exit", D, self)
               /\ Len(log') < base + 2 =>
                    LinesOf("jsonl", "trade_exit", D, self)' = LinesOf("jsonl", "trade_exit", D, self)
               /\ Len(log') >= base + 2 =>
                    /\ LinesOf("jsonl", "trade_exit", D, self)' =
                         LinesOf("jsonl", "trade_exit", D, self) \cup {base + 2}
                    /\ base + 2 \notin LinesOf("jsonl", "trade_exit", D, self)
                    /\ Picked(log', LinesOf("jsonl", "trade_exit", D, self)') =
                         Append(Picked(log, LinesOf("jsonl", "trade_exit", D, self)), y)
    <3>1. 1 \in 1..Len(lines) /\ 2 \in 1..Len(lines)
      BY <1>6
    <3>2. OnlyLine(lines, 1, "md", "trade_exit", D, self)
      BY <1>5, <1>6, <1>10, <2>4, <3>1 DEF Matches, OnlyLine
    <3>3. OnlyLine(lines, 2, "jsonl", "trade_exit", D, self)
      BY <1>5, <1>6, <1>10, <2>4, <3>1 DEF Matches, OnlyLine
    <3>4. /\ Finds(day, lines, base, 1, "md", "trade_exit", D, self)
          /\ Finds(day, lines, base, 2, "jsonl", "trade_exit", D, self)
      BY <1>7, <1>8, <1>11, <3>2, <3>3 DEF Finds
    <3>5. ASSUME NEW e \in Nat, e = base + 1
          PROVE  /\ Len(log') < e =>
                      LinesOf("md", "trade_exit", D, self)' = LinesOf("md", "trade_exit", D, self)
                 /\ Len(log') >= e =>
                      /\ LinesOf("md", "trade_exit", D, self)' =
                           LinesOf("md", "trade_exit", D, self) \cup {e}
                      /\ e \notin LinesOf("md", "trade_exit", D, self)
      BY <3>4, <3>5, Matched
    <3>6. ASSUME NEW e \in Nat, e = base + 2
          PROVE  /\ Len(log') < e =>
                      LinesOf("jsonl", "trade_exit", D, self)' = LinesOf("jsonl", "trade_exit", D, self)
                 /\ Len(log') >= e =>
                      /\ LinesOf("jsonl", "trade_exit", D, self)' =
                           LinesOf("jsonl", "trade_exit", D, self) \cup {e}
                      /\ e \notin LinesOf("jsonl", "trade_exit", D, self)
                      /\ Picked(log', LinesOf("jsonl", "trade_exit", D, self)') =
                           Append(Picked(log, LinesOf("jsonl", "trade_exit", D, self)), lines[2])
      BY <3>4, <3>6, Matched
    <3>7. base + 1 \in Nat /\ base + 2 \in Nat
      BY <1>11 DEF Grows
    <3> QED
      BY <1>6, <3>5, <3>6, <3>7
  <2>5. ASSUME NEW e \in Days, e # day
        PROVE  \A file : /\ LinesOf(file, "trade_exit", {e}, self)' = LinesOf(file, "trade_exit", {e}, self)
                         /\ Picked(log', LinesOf(file, "trade_exit", {e}, self)') =
                              Picked(log, LinesOf(file, "trade_exit", {e}, self))
    <3> SUFFICES ASSUME NEW file
                 PROVE  /\ LinesOf(file, "trade_exit", {e}, self)' = LinesOf(file, "trade_exit", {e}, self)
                        /\ Picked(log', LinesOf(file, "trade_exit", {e}, self)') =
                             Picked(log, LinesOf(file, "trade_exit", {e}, self))
      OBVIOUS
    <3> DEFINE D == {e}
    <3>1. \A k \in 1..Len(lines) : ~Matches(lines[k], file, "trade_exit", D, self)
      BY <1>7, <2>5 DEF Matches, Written
    <3> HIDE DEF D
    <3>2. /\ LinesOf(file, "trade_exit", D, self)' = LinesOf(file, "trade_exit", D, self)
          /\ Picked(log', LinesOf(file, "trade_exit", D, self)') =
               Picked(log, LinesOf(file, "trade_exit", D, self))
      BY <1>7, <1>8, <1>11, <3>1, Unmatched
    <3> QED
      BY <3>2 DEF D
  <2>6. base \in Nat /\ Len(log') \in Nat
    BY <1>11 DEF Grows, Begins
  <2>7. \A D : /\ IsFiniteSet(LinesOf("md", "trade_exit", D, self))
               /\ IsFiniteSet(LinesOf("jsonl", "trade_exit", D, self))
    BY <1>8, FewLines
  <2>8. /\ Cardinality(LinesOf("md", "trade_exit", {day}, self))
             = Cardinality(LinesOf("jsonl", "trade_exit", {day}, self))
        /\ Cardinality(LinesOf("jsonl", "trade_exit", {day}, self)) \in Nat
    <3>1. Cardinality(LinesOf("md", "trade_exit", {day}, run))
            = Cardinality(LinesOf("jsonl", "trade_exit", {day}, run))
      BY <1>8 DEF CountsTrue
    <3>2. Cardinality(LinesOf("jsonl", "trade_exit", {day}, self)) \in Nat
      BY <2>7, FS_CardinalityType
    <3> QED
      BY <1>10, <3>1, <3>2
  <2>9. /\ Cardinality(LinesOf("md", "trade_exit", {day}, self)') =
             Cardinality(LinesOf("md", "trade_exit", {day}, self))
               + (IF Len(log') >= base + 1 THEN 1 ELSE 0)
        /\ Cardinality(LinesOf("jsonl", "trade_exit", {day}, self)') =
             Cardinality(LinesOf("jsonl", "trade_exit", {day}, self))
               + (IF Len(log') >= base + 2 THEN 1 ELSE 0)
    <3> DEFINE D == {day}
               M == LinesOf("md", "trade_exit", D, self)
               J == LinesOf("jsonl", "trade_exit", D, self)
               m == Len(log')
    <3>1. D' = D
      BY <1>3 DEF Writes
    <3>2. /\ m < base + 1 => M' = M
          /\ m >= base + 1 => M' = M \cup {base + 1} /\ base + 1 \notin M
          /\ m < base + 2 => J' = J
          /\ m >= base + 2 => J' = J \cup {base + 2} /\ base + 2 \notin J
      <4> HIDE DEF D
      <4>1. PICK E : E = D
        OBVIOUS
      <4>2. day \in E
        BY <4>1 DEF D
      <4>3. /\ m < base + 1 =>
                 LinesOf("md", "trade_exit", E, self)' = LinesOf("md", "trade_exit", E, self)
            /\ m >= base + 1 =>
                 /\ LinesOf("md", "trade_exit", E, self)' =
                      LinesOf("md", "trade_exit", E, self) \cup {base + 1}
                 /\ base + 1 \notin LinesOf("md", "trade_exit", E, self)
            /\ m < base + 2 =>
                 LinesOf("jsonl", "trade_exit", E, self)' = LinesOf("jsonl", "trade_exit", E, self)
            /\ m >= base + 2 =>
                 /\ LinesOf("jsonl", "trade_exit", E, self)' =
                      LinesOf("jsonl", "trade_exit", E, self) \cup {base + 2}
                 /\ base + 2 \notin LinesOf("jsonl", "trade_exit", E, self)
        BY <2>4, <4>2
      <4>4. M' = LinesOf("md", "trade_exit", E, self)' /\ J' = LinesOf("jsonl", "trade_exit", E, self)'
        BY <3>1, <4>1 DEF LinesOf
      <4> QED
        BY <4>1, <4>3, <4>4
    <3>3. IsFiniteSet(M) /\ IsFiniteSet(J) /\ Cardinality(M) \in Nat /\ Cardinality(J) \in Nat
      BY <2>7, FS_CardinalityType
    <3> HIDE DEF M, J, m
    <3>4. m \in Nat
      BY <2>6 DEF m
    <3>5. /\ base + 1 \notin M => Cardinality(M \cup {base + 1}) = Cardinality(M) + 1
          /\ base + 2 \notin J => Cardinality(J \cup {base + 2}) = Cardinality(J) + 1
      BY <3>3, OneMoreLine
    <3>6. /\ Cardinality(M') = Cardinality(M) + (IF m >= base + 1 THEN 1 ELSE 0)
          /\ Cardinality(J') = Cardinality(J) + (IF m >= base + 2 THEN 1 ELSE 0)
      <4>1. CASE m < base + 1
        <5>1. ~(m >= base + 1) /\ ~(m >= base + 2) /\ m < base + 2
          BY <2>6, <3>4, <4>1
        <5>2. M' = M /\ J' = J
          BY <3>2, <4>1, <5>1
        <5> QED
          BY <3>3, <5>1, <5>2
      <4>2. CASE m >= base + 1 /\ m < base + 2
        <5>1. ~(m >= base + 2)
          BY <2>6, <3>4, <4>2
        <5>2. M' = M \cup {base + 1} /\ base + 1 \notin M /\ J' = J
          BY <3>2, <4>2
        <5> QED
          BY <3>3, <3>5, <4>2, <5>1, <5>2
      <4>3. CASE m >= base + 2
        <5>1. m >= base + 1
          BY <2>6, <3>4, <4>3
        <5>2. /\ M' = M \cup {base + 1} /\ base + 1 \notin M
              /\ J' = J \cup {base + 2} /\ base + 2 \notin J
          BY <3>2, <4>3, <5>1
        <5> QED
          BY <3>5, <4>3, <5>1, <5>2
      <4> QED
        BY <2>6, <3>4, <4>1, <4>2, <4>3
    <3> QED
      BY <3>6 DEF M, J, m, D
  <2>10. ASSUME NEW e \in Days PROVE Quotas(e, self)'
    <3>1. Quotas(e, self)
      BY <1>10, QuotasNow
    <3>2. (Cardinality(LinesOf("md", "trade_exit", {e}, self))
             - Cardinality(LinesOf("jsonl", "trade_exit", {e}, self)) \in 0..1)'
      <4>1. CASE e = day
        <5> DEFINE a == Cardinality(LinesOf("md", "trade_exit", {day}, self))
                   b == Cardinality(LinesOf("jsonl", "trade_exit", {day}, self))
                   u == Cardinality(LinesOf("md", "trade_exit", {day}, self)')
                   v == Cardinality(LinesOf("jsonl", "trade_exit", {day}, self)')
                   m == Len(log')
        <5>1. /\ a = b /\ b \in Nat /\ m \in Nat
              /\ u = a + (IF m >= base + 1 THEN 1 ELSE 0)
              /\ v = b + (IF m >= base + 2 THEN 1 ELSE 0)
          BY <2>6, <2>8, <2>9
        <5>2. day' = day
          BY <1>3 DEF Writes
        <5> HIDE DEF a, b, u, v, m
        <5>3. u - v \in 0..1
          BY <2>6, <5>1
        <5> QED
          BY <4>1, <5>2, <5>3 DEF u, v, LinesOf
      <4>2. CASE e # day
        <5>1. /\ LinesOf("md", "trade_exit", {e}, self)' = LinesOf("md", "trade_exit", {e}, self)
              /\ LinesOf("jsonl", "trade_exit", {e}, self)' = LinesOf("jsonl", "trade_exit", {e}, self)
          BY <2>5, <4>2
        <5> QED
          BY <3>1, <5>1 DEF Quotas
      <4> QED
        BY <4>1, <4>2
    <3> QED
      BY <2>2, <3>1, <3>2 DEF Quotas
  <2>11. ASSUME Survived(lines, base, remembered) PROVE MemoryFits'
    <3>1. /\ mem' = remembered /\ run' = run /\ day' = day
          /\ Len(log') >= base + 1 /\ Len(log') >= base + 2
      <4>1. Len(log') = base + 2
        BY <1>6, <2>11 DEF Survived
      <4>2. base + 2 >= base + 1 /\ base + 2 >= base + 2
        BY <2>6
      <4> QED
        BY <1>3, <2>11, <4>1, <4>2 DEF Survived, Writes
    <3>2. \A D : day \in D =>
            SeenOf(Picked(log', LinesOf("jsonl", "trade_exit", D, self)')) =
              Append(SeenOf(Picked(log, LinesOf("jsonl", "trade_exit", D, self))), seen)
      <4> SUFFICES ASSUME NEW D, day \in D
                   PROVE  SeenOf(Picked(log', LinesOf("jsonl", "trade_exit", D, self)')) =
                            Append(SeenOf(Picked(log, LinesOf("jsonl", "trade_exit", D, self))), seen)
        OBVIOUS
      <4> DEFINE p == Picked(log, LinesOf("jsonl", "trade_exit", D, self))
      <4>1. Picked(log', LinesOf("jsonl", "trade_exit", D, self)') = Append(p, y)
        BY <2>4, <3>1
      <4>2. PICK S : log \in Seq(S)
        BY <1>8
      <4>3. p \in Seq(S)
        BY <4>2, PickedType
      <4>4. y.body.seen = seen
        BY <1>4, <1>5
      <4> HIDE DEF p
      <4>5. SeenOf(Append(p, y)) = Append(SeenOf(p), seen)
        BY <4>3, <4>4, SeenOfMore
      <4> QED
        BY <4>1, <4>5 DEF p
    <3>3. MemoryTrue'
      <4>1. ASSUME NEW e \in Days
            PROVE  (mem.trades[e] = SeenOf(Picked(log, LinesOf("jsonl", "trade_exit", {e}, run))))'
        <5>1. mem.trades[e] = SeenOf(Picked(log, LinesOf("jsonl", "trade_exit", {e}, self)))
          BY <1>8, <1>10 DEF MemoryTrue
        <5>2. mem'.trades[e] = IF e = day THEN Append(mem.trades[e], seen) ELSE mem.trades[e]
          BY <1>8, <1>9, <3>1 DEF Memory
        <5>3. mem'.trades[e] = SeenOf(Picked(log', LinesOf("jsonl", "trade_exit", {e}, self)'))
          <6>1. CASE e = day
            <7>1. day \in {e}
              BY <6>1
            <7>2. SeenOf(Picked(log', LinesOf("jsonl", "trade_exit", {e}, self)')) =
                    Append(SeenOf(Picked(log, LinesOf("jsonl", "trade_exit", {e}, self))), seen)
              BY <3>2, <7>1
            <7> QED
              BY <5>1, <5>2, <6>1, <7>2
          <6>2. CASE e # day
            <7>1. Picked(log', LinesOf("jsonl", "trade_exit", {e}, self)') =
                    Picked(log, LinesOf("jsonl", "trade_exit", {e}, self))
              BY <2>5, <6>2
            <7> QED
              BY <5>1, <5>2, <6>2, <7>1
          <6> QED
            BY <6>1, <6>2
        <5>4. LinesOf("jsonl", "trade_exit", {e}, run)' = LinesOf("jsonl", "trade_exit", {e}, self)'
          BY <1>10, <3>1 DEF LinesOf
        <5> QED
          BY <5>3, <5>4 DEF SeenOf
      <4>2. (mem.all = SeenOf(Picked(log, LinesOf("jsonl", "trade_exit", Days, run))))'
        <5>1. mem.all = SeenOf(Picked(log, LinesOf("jsonl", "trade_exit", Days, self)))
          BY <1>8, <1>10 DEF MemoryTrue
        <5>2. mem'.all = SeenOf(Picked(log', LinesOf("jsonl", "trade_exit", Days, self)'))
          BY <1>8, <1>9, <3>1, <3>2, <5>1
        <5>3. LinesOf("jsonl", "trade_exit", Days, run)' = LinesOf("jsonl", "trade_exit", Days, self)'
          BY <1>10, <3>1 DEF LinesOf
        <5> QED
          BY <5>2, <5>3 DEF SeenOf
      <4>3. ASSUME NEW e \in Days
            PROVE  (mem.declines[e] = BodyOf(Picked(log, LinesOf("jsonl", "declined", {e}, run))))'
        <5>1. Picked(log', LinesOf("jsonl", "declined", {e}, self)') =
                Picked(log, LinesOf("jsonl", "declined", {e}, self))
          BY <2>2
        <5>2. LinesOf("jsonl", "declined", {e}, run)' = LinesOf("jsonl", "declined", {e}, self)'
          BY <1>10, <3>1 DEF LinesOf
        <5>3. mem.declines[e] = BodyOf(Picked(log, LinesOf("jsonl", "declined", {e}, self)))
          BY <1>8, <1>10 DEF MemoryTrue
        <5>4. mem'.declines[e] = BodyOf(Picked(log', LinesOf("jsonl", "declined", {e}, self)'))
          BY <1>9, <3>1, <5>1, <5>3
        <5> QED
          BY <5>2, <5>4 DEF BodyOf
      <4> QED
        BY <4>1, <4>2, <4>3 DEF MemoryTrue
    <3>4. OpenTrue'
      <4>1. Exited(t)'
        <5>1. base + 1 \in base + 1..Len(log') /\ base + 1 \in 1..Len(log')
          BY <2>6, <3>1
        <5>2. log'[base + 1].kind = "trade_exit" /\ log'[base + 1].body = body
          BY <1>7, <1>11, <5>1, NewLineOf
        <5>3. DOMAIN log' = 1..Len(log')
          BY <1>11 DEF Grows
        <5> QED
          BY <1>4, <5>1, <5>2, <5>3 DEF Exited
      <4>2. \A u \in Trades : ~Exited(u)' => (u \in mem'.open <=> u \in mem.open)
        BY <1>9, <3>1, <4>1
      <4>3. \A k \in 1..Len(lines) : lines[k].kind # "trade_entry"
        BY <1>7
      <4> QED
        BY <1>7, <1>8, <1>11, <3>1, <4>2, <4>3, OpenKept
    <3>5. RolledTrue'
      BY <1>7, <1>8, <1>9, <1>11, <3>1, RolledKept
    <3>6. CountsTrue'
      <4> SUFFICES ASSUME NEW e \in Days
                   PROVE  /\ (Cardinality(LinesOf("md", "declined", {e}, run)) <= Len(mem.declines[e]))'
                          /\ (Cardinality(LinesOf("md", "trade_exit", {e}, run))
                                = Cardinality(LinesOf("jsonl", "trade_exit", {e}, run)))'
        BY DEF CountsTrue
      <4>1. (Cardinality(LinesOf("md", "declined", {e}, run)) <= Len(mem.declines[e]))'
        <5>1. LinesOf("md", "declined", {e}, self)' = LinesOf("md", "declined", {e}, self)
          BY <2>2
        <5>2. LinesOf("md", "declined", {e}, run)' = LinesOf("md", "declined", {e}, self)'
          BY <1>10, <3>1 DEF LinesOf
        <5>3. Cardinality(LinesOf("md", "declined", {e}, self)) <= Len(mem.declines[e])
          BY <1>8, <1>10 DEF CountsTrue
        <5> QED
          BY <1>9, <3>1, <5>1, <5>2, <5>3
      <4>2. Cardinality(LinesOf("md", "trade_exit", {e}, self)')
              = Cardinality(LinesOf("jsonl", "trade_exit", {e}, self)')
        <5>1. CASE e = day
          <6>1. Cardinality(LinesOf("md", "trade_exit", {day}, self)')
                  = Cardinality(LinesOf("jsonl", "trade_exit", {day}, self)')
            BY <2>8, <2>9, <3>1
          <6> QED
            BY <3>1, <5>1, <6>1 DEF LinesOf
        <5>2. CASE e # day
          <6>1. Cardinality(LinesOf("md", "trade_exit", {e}, self))
                  = Cardinality(LinesOf("jsonl", "trade_exit", {e}, self))
            BY <1>8, <1>10 DEF CountsTrue
          <6> QED
            BY <2>5, <5>2, <6>1
        <5> QED
          BY <5>1, <5>2
      <4> QED
        BY <1>10, <3>1, <4>1, <4>2 DEF LinesOf
    <3> QED
      BY <3>3, <3>4, <3>5, <3>6 DEF MemoryFits
  <2> QED
    BY <2>1, <2>3, <2>10, <2>11
<1> QED
  BY <1>6, <1>3, <1>7, <1>8, <1>9, <1>10, <1>11, WritesKeep

LEMMA DeclineKeeps == JournalInv /\ Declined => JournalInv'
<1> SUFFICES ASSUME JournalInv, Declined PROVE JournalInv'
  OBVIOUS
<1>1. PICK s \in Perspectives :
        Writes(day, <<LogLine("jsonl", "declined", day, [source |-> s])>> \o Detail(day),
               [mem EXCEPT !.declines[day] = Append(@, [source |-> s])])
  BY DEF Declined
<1> DEFINE why == [source |-> s]
           x == LogLine("jsonl", "declined", day, why)
           z == LogLine("md", "declined", day, {})
           lines == <<x>> \o Detail(day)
           remembered == [mem EXCEPT !.declines[day] = Append(@, why)]
<1>3. Writes(day, lines, remembered)
  BY <1>1
<1>4. why \in [source : Perspectives]
  OBVIOUS
<1> HIDE DEF why
<1>5. /\ x.file = "jsonl" /\ x.kind = "declined" /\ x.day = day /\ x.run = run /\ x.body = why
      /\ z.file = "md" /\ z.kind = "declined" /\ z.day = day /\ z.run = run
  BY DEF LogLine
<1>6. /\ lines \in Seq({x, z}) /\ Len(lines) \in Nat /\ lines[1] = x
      /\ \/ Len(lines) = 1
         \/ Len(lines) = 2 /\ lines[2] = z /\ Len(mem.declines[day]) < MaxDetail
  <2>1. Detail(day) = IF Len(mem.declines[day]) < MaxDetail THEN <<z>> ELSE <<>>
    BY DEF Detail
  <2> HIDE DEF x, z
  <2>2. CASE Len(mem.declines[day]) < MaxDetail
    <3>1. lines = <<x>> \o <<z>>
      BY <2>1, <2>2
    <3> HIDE DEF lines
    <3> QED
      BY <2>2, <3>1, OneAndOne
  <2>3. CASE ~(Len(mem.declines[day]) < MaxDetail)
    <3>1. <<x>> \o <<>> = <<x>> /\ <<x>> \in Seq({x, z}) /\ Len(<<x>>) = 1 /\ <<x>>[1] = x
      OBVIOUS
    <3>2. lines = <<x>>
      BY <2>1, <2>3, <3>1
    <3> HIDE DEF lines
    <3> QED
      BY <3>1, <3>2
  <2> QED
    BY <2>2, <2>3
<1> HIDE DEF x, z, lines
<1>7. /\ Written(day, lines) /\ 1 \in 1..Len(lines)
      /\ \A k \in 1..Len(lines) : lines[k].kind = "declined" /\ (k = 1 \/ k = 2)
  <2> DEFINE n == Len(lines)
  <2>1. 1 \in 1..Len(lines) /\ \A k \in 1..Len(lines) : k = 1 \/ (k = 2 /\ Len(lines) = 2)
    <3>1. n = 1 \/ n = 2
      BY <1>6
    <3> HIDE DEF n
    <3>2. 1 \in 1..n /\ \A k \in 1..n : k = 1 \/ (k = 2 /\ n = 2)
      BY <3>1
    <3> QED
      BY <3>2 DEF n
  <2>2. \A k \in 1..Len(lines) : lines[k] = x \/ lines[k] = z
    BY <1>6, <2>1
  <2> QED
    BY <1>5, <1>6, <2>1, <2>2 DEF Written
<1>8. /\ JournalTypes /\ JournalTrue /\ (\E S : log \in Seq(S)) /\ day \in Days /\ mem \in Memory
      /\ MemoryTrue /\ OpenTrue /\ RolledTrue /\ CountsTrue
  BY DEF JournalInv, JournalTypes
<1>9. /\ remembered \in Memory
      /\ remembered.open = mem.open /\ remembered.trades = mem.trades
      /\ remembered.all = mem.all /\ remembered.rolled = mem.rolled
      /\ remembered.declines = [mem.declines EXCEPT ![day] = Append(@, why)]
  <2> DEFINE de == [mem.declines EXCEPT ![day] = Append(@, why)]
             C == [source : Perspectives]
  <2>1. mem.declines \in [Days -> Seq(C)]
    BY <1>8 DEF Memory
  <2>2. de \in [Days -> Seq(C)]
    <3> HIDE DEF C
    <3>1. \A p \in Seq(C) : Append(p, why) \in Seq(C)
      BY <1>4 DEF C
    <3> QED
      BY <1>8, <2>1, <3>1
  <2>3. remembered = [mem EXCEPT !.declines = de]
    BY <1>8 DEF Memory
  <2> HIDE DEF de, remembered
  <2>4. /\ remembered \in Memory
        /\ remembered.open = mem.open /\ remembered.trades = mem.trades
        /\ remembered.all = mem.all /\ remembered.rolled = mem.rolled
        /\ remembered.declines = de
    BY <1>8, <2>2, <2>3 DEF Memory
  <2> QED
    BY <2>4 DEF de
<1>10. mem.declines[day] \in Seq([source : Perspectives]) /\ Len(mem.declines[day]) \in Nat
  <2>1. mem.declines[day] \in Seq([source : Perspectives])
    BY <1>8 DEF Memory
  <2> QED
    BY <2>1
<1> HIDE DEF remembered
<1>2. PICK self : self = run
  OBVIOUS
<1>11. ASSUME NEW base, Grows(day, lines, base)
       PROVE  /\ \A i \in base + 1..Len(log') :
                   log'[i].kind = "daily_rollup" /\ log'[i].file = "jsonl" => RollupAt(i)'
              /\ \A i \in base + 1..Len(log') : log'[i].kind = "trade_exit" => ExitAt(i)'
              /\ \A e \in Days : Quotas(e, self)'
              /\ Survived(lines, base, remembered) => MemoryFits'
  <2>0. base \in Nat /\ Len(log') \in Nat /\ base + 1 \in Nat /\ base + 2 \in Nat
    BY <1>11 DEF Grows, Begins
  <2>1. \A i \in base + 1..Len(log') : log'[i].kind = "declined"
    BY <1>7, <1>11, NewLineOf
  <2>2. \A kind \in {"trade_exit", "daily_rollup"} : \A file, D, r :
           /\ LinesOf(file, kind, D, r)' = LinesOf(file, kind, D, r)
           /\ Picked(log', LinesOf(file, kind, D, r)') = Picked(log, LinesOf(file, kind, D, r))
    <3> SUFFICES ASSUME NEW kind \in {"trade_exit", "daily_rollup"}
                 PROVE  \A file, D, r :
                          /\ LinesOf(file, kind, D, r)' = LinesOf(file, kind, D, r)
                          /\ Picked(log', LinesOf(file, kind, D, r)') =
                               Picked(log, LinesOf(file, kind, D, r))
      OBVIOUS
    <3>1. kind \notin {"header", "day_start"} /\ \A k \in 1..Len(lines) : lines[k].kind # kind
      BY <1>7
    <3> QED
      BY <1>7, <1>8, <1>11, <3>1, QuietKind
  <2>3. ASSUME NEW D, day \in D, base + 1 <= Len(log')
        PROVE  Picked(log', LinesOf("jsonl", "declined", D, self)') =
                 Append(Picked(log, LinesOf("jsonl", "declined", D, self)), x)
    <3>1. OnlyLine(lines, 1, "jsonl", "declined", D, self)
      <4>1. Matches(lines[1], "jsonl", "declined", D, self)
        BY <1>2, <1>5, <1>6, <2>3 DEF Matches
      <4>2. \A j \in 1..Len(lines) : j # 1 => lines[j] = z
        BY <1>6, <1>7
      <4>3. ~Matches(z, "jsonl", "declined", D, self)
        BY <1>5 DEF Matches
      <4> QED
        BY <1>7, <4>1, <4>2, <4>3 DEF OnlyLine
    <3>2. Finds(day, lines, base, 1, "jsonl", "declined", D, self)
      BY <1>7, <1>8, <1>11, <3>1 DEF Finds
    <3>3. ASSUME NEW e \in Nat, e = base + 1
          PROVE  /\ Len(log') < e =>
                      LinesOf("jsonl", "declined", D, self)' = LinesOf("jsonl", "declined", D, self)
                 /\ Len(log') >= e =>
                      /\ LinesOf("jsonl", "declined", D, self)' =
                           LinesOf("jsonl", "declined", D, self) \cup {e}
                      /\ e \notin LinesOf("jsonl", "declined", D, self)
                      /\ Picked(log', LinesOf("jsonl", "declined", D, self)') =
                           Append(Picked(log, LinesOf("jsonl", "declined", D, self)), lines[1])
      BY <3>2, <3>3, Matched
    <3>4. Len(log') >= base + 1
      BY <2>0, <2>3
    <3> QED
      BY <1>6, <2>0, <3>3, <3>4
  <2>4. ASSUME NEW D, day \in D
        PROVE  \/ LinesOf("md", "declined", D, self)' = LinesOf("md", "declined", D, self)
               \/ /\ Len(mem.declines[day]) < MaxDetail
                  /\ LinesOf("md", "declined", D, self)' = LinesOf("md", "declined", D, self) \cup {base + 2}
                  /\ base + 2 \notin LinesOf("md", "declined", D, self)
    <3>1. CASE Len(lines) = 1
      <4>1. \A k \in 1..Len(lines) : k = 1
        BY <3>1
      <4>2. \A k \in 1..Len(lines) : ~Matches(lines[k], "md", "declined", D, self)
        BY <1>5, <1>6, <4>1 DEF Matches
      <4>3. LinesOf("md", "declined", D, self)' = LinesOf("md", "declined", D, self)
        BY <1>7, <1>8, <1>11, <4>2, Unmatched
      <4> QED
        BY <4>3
    <3>2. CASE Len(lines) = 2
      <4>1. lines[2] = z /\ Len(mem.declines[day]) < MaxDetail
        BY <1>6, <3>2
      <4>2. OnlyLine(lines, 2, "md", "declined", D, self)
        <5>1. Matches(z, "md", "declined", D, self) /\ ~Matches(x, "md", "declined", D, self)
          BY <1>2, <1>5, <2>4 DEF Matches
        <5>2. 2 \in 1..Len(lines) /\ \A j \in 1..Len(lines) : j # 2 => lines[j] = x
          BY <1>6, <1>7, <3>2
        <5> QED
          BY <4>1, <5>1, <5>2 DEF OnlyLine
      <4>3. Finds(day, lines, base, 2, "md", "declined", D, self)
        BY <1>7, <1>8, <1>11, <4>2 DEF Finds
      <4>4. ASSUME NEW e \in Nat, e = base + 2
            PROVE  /\ Len(log') < e =>
                        LinesOf("md", "declined", D, self)' = LinesOf("md", "declined", D, self)
                   /\ Len(log') >= e =>
                        /\ LinesOf("md", "declined", D, self)' =
                             LinesOf("md", "declined", D, self) \cup {e}
                        /\ e \notin LinesOf("md", "declined", D, self)
        BY <4>3, <4>4, Matched
      <4>5. Len(log') < base + 2 \/ Len(log') >= base + 2
        BY <2>0
      <4> QED
        BY <2>0, <4>1, <4>4, <4>5
    <3> QED
      BY <1>6, <3>1, <3>2
  <2>5. ASSUME NEW e \in Days, e # day
        PROVE  \A file : /\ LinesOf(file, "declined", {e}, self)' = LinesOf(file, "declined", {e}, self)
                         /\ Picked(log', LinesOf(file, "declined", {e}, self)') =
                              Picked(log, LinesOf(file, "declined", {e}, self))
    <3> SUFFICES ASSUME NEW file
                 PROVE  /\ LinesOf(file, "declined", {e}, self)' = LinesOf(file, "declined", {e}, self)
                        /\ Picked(log', LinesOf(file, "declined", {e}, self)') =
                             Picked(log, LinesOf(file, "declined", {e}, self))
      OBVIOUS
    <3> DEFINE D == {e}
    <3>1. \A k \in 1..Len(lines) : ~Matches(lines[k], file, "declined", D, self)
      BY <1>7, <2>5 DEF Matches, Written
    <3> HIDE DEF D
    <3>2. /\ LinesOf(file, "declined", D, self)' = LinesOf(file, "declined", D, self)
          /\ Picked(log', LinesOf(file, "declined", D, self)') =
               Picked(log, LinesOf(file, "declined", D, self))
      BY <1>7, <1>8, <1>11, <3>1, Unmatched
    <3> QED
      BY <3>2 DEF D
  <2>6. ASSUME NEW e \in Days
        PROVE  \/ Cardinality(LinesOf("md", "declined", {e}, self)') =
                    Cardinality(LinesOf("md", "declined", {e}, self))
               \/ /\ e = day /\ Len(mem.declines[day]) < MaxDetail
                  /\ Cardinality(LinesOf("md", "declined", {e}, self)') =
                       Cardinality(LinesOf("md", "declined", {e}, self)) + 1
    <3>1. CASE e # day
      BY <2>5, <3>1
    <3>2. CASE e = day
      <4>1. PICK D : D = {e}
        OBVIOUS
      <4>2. IsFiniteSet(LinesOf("md", "declined", D, self))
        BY <1>8, FewLines
      <4>3. day \in D
        BY <3>2, <4>1
      <4>4. CASE LinesOf("md", "declined", D, self)' = LinesOf("md", "declined", D, self)
        BY <4>1, <4>4
      <4>5. CASE /\ Len(mem.declines[day]) < MaxDetail
                 /\ LinesOf("md", "declined", D, self)' = LinesOf("md", "declined", D, self) \cup {base + 2}
                 /\ base + 2 \notin LinesOf("md", "declined", D, self)
        <5>1. Cardinality(LinesOf("md", "declined", D, self) \cup {base + 2}) =
                Cardinality(LinesOf("md", "declined", D, self)) + 1
          BY <4>2, <4>5, OneMoreLine
        <5>2. Cardinality(LinesOf("md", "declined", D, self)') =
                Cardinality(LinesOf("md", "declined", D, self)) + 1
          BY <4>5, <5>1
        <5> QED
          BY <3>2, <4>1, <4>5, <5>2
      <4> QED
        BY <2>4, <4>3, <4>4, <4>5
    <3> QED
      BY <3>1, <3>2
  <2>7. \A e \in Days : /\ Cardinality(LinesOf("md", "declined", {e}, self)) \in Nat
                        /\ Cardinality(LinesOf("md", "declined", {e}, self)) <= Len(mem.declines[e])
    BY <1>2, <1>8, FewLines DEF CountsTrue
  <2>8. ASSUME NEW e \in Days PROVE Quotas(e, self)'
    <3>1. Quotas(e, self)
      BY <1>2, QuotasNow
    <3>2. Cardinality(LinesOf("md", "declined", {e}, self)') <= MaxDetail
      <4> DEFINE c == Cardinality(LinesOf("md", "declined", {e}, self))
                 v == Cardinality(LinesOf("md", "declined", {e}, self)')
                 l == Len(mem.declines[e])
      <4>1. /\ c \in Nat /\ c <= l /\ c <= MaxDetail
            /\ v = c \/ (v = c + 1 /\ l < MaxDetail /\ l \in Nat)
        BY <1>10, <2>6, <2>7, <3>1 DEF Quotas
      <4>2. MaxDetail \in Nat
        BY JournalAssumption
      <4> HIDE DEF c, v, l
      <4>3. v <= MaxDetail
        BY <4>1, <4>2
      <4> QED
        BY <4>3 DEF v
    <3>3. (Cardinality(LinesOf("md", "declined", {e}, self)) <= MaxDetail)'
      BY <3>2
    <3> QED
      BY <2>2, <3>1, <3>3 DEF Quotas
  <2>9. ASSUME Survived(lines, base, remembered) PROVE MemoryFits'
    <3>1. mem' = remembered /\ run' = run /\ day' = day /\ base + 1 <= Len(log')
      <4>1. Len(log') = base + Len(lines) /\ 1 <= Len(lines) /\ Len(lines) \in Nat
        BY <1>6, <2>9 DEF Survived
      <4>2. base + 1 <= Len(log')
        BY <2>0, <4>1
      <4> QED
        BY <1>3, <2>9, <4>2 DEF Survived, Writes
    <3>2. \A e \in Days :
            mem'.declines[e] = IF e = day THEN Append(mem.declines[e], why) ELSE mem.declines[e]
      BY <1>8, <1>9, <3>1 DEF Memory
    <3>3. MemoryTrue'
      <4>1. ASSUME NEW e \in Days
            PROVE  (mem.declines[e] = BodyOf(Picked(log, LinesOf("jsonl", "declined", {e}, run))))'
        <5>1. mem.declines[e] = BodyOf(Picked(log, LinesOf("jsonl", "declined", {e}, self)))
          BY <1>2, <1>8 DEF MemoryTrue
        <5>2. mem'.declines[e] = BodyOf(Picked(log', LinesOf("jsonl", "declined", {e}, self)'))
          <6>1. CASE e = day
            <7>1. PICK D : D = {e}
              OBVIOUS
            <7>2. day \in D
              BY <6>1, <7>1
            <7> DEFINE p == Picked(log, LinesOf("jsonl", "declined", D, self))
            <7>3. Picked(log', LinesOf("jsonl", "declined", D, self)') = Append(p, x)
              BY <2>3, <3>1, <7>2
            <7>4. PICK S : log \in Seq(S)
              BY <1>8
            <7>5. p \in Seq(S)
              BY <7>4, PickedType
            <7> HIDE DEF p
            <7>6. BodyOf(Append(p, x)) = Append(BodyOf(p), why)
              BY <1>5, <7>5, SeenOfMore
            <7>7. BodyOf(p) = mem.declines[e]
              BY <5>1, <7>1 DEF p
            <7>8. BodyOf(Picked(log', LinesOf("jsonl", "declined", D, self)')) = Append(mem.declines[e], why)
              BY <7>3, <7>6, <7>7
            <7> QED
              BY <3>2, <6>1, <7>1, <7>8
          <6>2. CASE e # day
            <7>1. Picked(log', LinesOf("jsonl", "declined", {e}, self)') =
                    Picked(log, LinesOf("jsonl", "declined", {e}, self))
              BY <2>5, <6>2
            <7> QED
              BY <3>2, <5>1, <6>2, <7>1
          <6> QED
            BY <6>1, <6>2
        <5>3. LinesOf("jsonl", "declined", {e}, run)' = LinesOf("jsonl", "declined", {e}, self)'
          BY <1>2, <3>1 DEF LinesOf
        <5> QED
          BY <5>2, <5>3 DEF BodyOf
      <4>2. ASSUME NEW e \in Days
            PROVE  (mem.trades[e] = SeenOf(Picked(log, LinesOf("jsonl", "trade_exit", {e}, run))))'
        <5>1. Picked(log', LinesOf("jsonl", "trade_exit", {e}, self)') =
                Picked(log, LinesOf("jsonl", "trade_exit", {e}, self))
          BY <2>2
        <5>2. LinesOf("jsonl", "trade_exit", {e}, run)' = LinesOf("jsonl", "trade_exit", {e}, self)'
          BY <1>2, <3>1 DEF LinesOf
        <5>3. mem.trades[e] = SeenOf(Picked(log, LinesOf("jsonl", "trade_exit", {e}, self)))
          BY <1>2, <1>8 DEF MemoryTrue
        <5>4. mem'.trades[e] = SeenOf(Picked(log', LinesOf("jsonl", "trade_exit", {e}, self)'))
          BY <1>9, <3>1, <5>1, <5>3
        <5> QED
          BY <5>2, <5>4 DEF SeenOf
      <4>3. (mem.all = SeenOf(Picked(log, LinesOf("jsonl", "trade_exit", Days, run))))'
        <5>1. Picked(log', LinesOf("jsonl", "trade_exit", Days, self)') =
                Picked(log, LinesOf("jsonl", "trade_exit", Days, self))
          BY <2>2
        <5>2. LinesOf("jsonl", "trade_exit", Days, run)' = LinesOf("jsonl", "trade_exit", Days, self)'
          BY <1>2, <3>1 DEF LinesOf
        <5>3. mem.all = SeenOf(Picked(log, LinesOf("jsonl", "trade_exit", Days, self)))
          BY <1>2, <1>8 DEF MemoryTrue
        <5>4. mem'.all = SeenOf(Picked(log', LinesOf("jsonl", "trade_exit", Days, self)'))
          BY <1>9, <3>1, <5>1, <5>3
        <5> QED
          BY <5>2, <5>4 DEF SeenOf
      <4> QED
        BY <4>1, <4>2, <4>3 DEF MemoryTrue
    <3>4. OpenTrue'
      <4>1. /\ \A k \in 1..Len(lines) : lines[k].kind # "trade_entry"
            /\ \A u \in Trades : ~Exited(u)' => (u \in mem'.open <=> u \in mem.open)
        BY <1>7, <1>9, <3>1
      <4> QED
        BY <1>7, <1>8, <1>11, <3>1, <4>1, OpenKept
    <3>5. RolledTrue'
      BY <1>7, <1>8, <1>9, <1>11, <3>1, RolledKept
    <3>6. CountsTrue'
      <4> SUFFICES ASSUME NEW e \in Days
                   PROVE  /\ (Cardinality(LinesOf("md", "declined", {e}, run)) <= Len(mem.declines[e]))'
                          /\ (Cardinality(LinesOf("md", "trade_exit", {e}, run))
                                = Cardinality(LinesOf("jsonl", "trade_exit", {e}, run)))'
        BY DEF CountsTrue
      <4>1. Cardinality(LinesOf("md", "declined", {e}, self)') <= Len(mem'.declines[e])
        <5> DEFINE c == Cardinality(LinesOf("md", "declined", {e}, self))
                   v == Cardinality(LinesOf("md", "declined", {e}, self)')
                   l == Len(mem.declines[e])
                   w == Len(mem'.declines[e])
        <5>1. /\ c \in Nat /\ c <= l
              /\ v = c \/ (v = c + 1 /\ e = day)
          BY <2>6, <2>7
        <5>2. l \in Nat /\ (e = day => w = l + 1) /\ (e # day => w = l)
          <6>1. mem.declines[e] \in Seq([source : Perspectives])
            BY <1>8 DEF Memory
          <6> DEFINE q == mem.declines[e]
          <6> HIDE DEF q
          <6>2. q \in Seq([source : Perspectives]) => Len(q) \in Nat /\ Len(Append(q, why)) = Len(q) + 1
            OBVIOUS
          <6> QED
            BY <3>2, <6>1, <6>2 DEF q
        <5> HIDE DEF c, v, l, w
        <5>3. v <= w
          BY <5>1, <5>2
        <5> QED
          BY <5>3 DEF v, w
      <4>2. Cardinality(LinesOf("md", "trade_exit", {e}, self)')
              = Cardinality(LinesOf("jsonl", "trade_exit", {e}, self)')
        BY <1>2, <1>8, <2>2 DEF CountsTrue
      <4>3. /\ LinesOf("md", "declined", {e}, run)' = LinesOf("md", "declined", {e}, self)'
            /\ LinesOf("md", "trade_exit", {e}, run)' = LinesOf("md", "trade_exit", {e}, self)'
            /\ LinesOf("jsonl", "trade_exit", {e}, run)' = LinesOf("jsonl", "trade_exit", {e}, self)'
        BY <1>2, <3>1 DEF LinesOf
      <4> QED
        BY <4>1, <4>2, <4>3
    <3> QED
      BY <3>3, <3>4, <3>5, <3>6 DEF MemoryFits
  <2> QED
    BY <2>1, <2>8, <2>9
<1> QED
  BY <1>6, <1>3, <1>7, <1>8, <1>9, <1>2, <1>11, WritesKeep

LEMMA Unwritten ==
  ASSUME JournalInv, log' = log, mem' = mem, run' = run, day' \in Days
  PROVE  JournalInv'
<1>1. \A file, kind, D, r : LinesOf(file, kind, D, r)' = LinesOf(file, kind, D, r)
  BY DEF LinesOf
<1>2. JournalTypes'
  BY DEF JournalInv, JournalTypes
<1>3. OneHeader'
  BY DEF JournalInv, JournalTrue, OneHeader
<1>4. RollupsRecomputable'
  <2> SUFFICES ASSUME NEW i \in DOMAIN log, log[i].kind = "daily_rollup", log[i].file = "jsonl"
               PROVE  RollupAt(i)'
    BY DEF RollupsRecomputable, RollupAt
  <2>1. RollupAt(i)
    BY DEF JournalInv, JournalTrue, RollupsRecomputable, RollupAt
  <2>2. \A kind, D : Of(i, kind, D)' = Of(i, kind, D)
    BY <1>1 DEF Of, LinesOf
  <2> QED
    BY <2>1, <2>2 DEF RollupAt, SeenOf, BodyOf
<1>5. ExitsAttributed'
  BY DEF JournalInv, JournalTrue, ExitsAttributed
<1>6. OncePerRun'
  <2>1. \A r \in 1..run, d \in Days : Quotas(d, r)
    BY OnceIsQuotas DEF JournalInv, JournalTrue
  <2>2. ASSUME NEW r \in 1..run, NEW d \in Days PROVE Quotas(d, r)'
    BY <1>1, <2>1 DEF Quotas
  <2> QED
    BY <2>2, OnceIsQuotas DEF OncePerRun, Quotas
<1>7. /\ \A file, kind, D : LinesOf(file, kind, D, run)' = LinesOf(file, kind, D, run)
      /\ \A file, kind, D : Picked(log', LinesOf(file, kind, D, run)') = Picked(log, LinesOf(file, kind, D, run))
  BY DEF LinesOf
<1>8. MemoryTrue'
  BY <1>7 DEF JournalInv, MemoryTrue, SeenOf, BodyOf
<1>9. OpenTrue'
  BY DEF JournalInv, OpenTrue, Exited, EnteredBefore
<1>10. RolledTrue'
  BY DEF JournalInv, RolledTrue
<1>11. CountsTrue'
  <2> SUFFICES ASSUME NEW d \in Days
               PROVE  /\ (Cardinality(LinesOf("md", "declined", {d}, run)) <= Len(mem.declines[d]))'
                      /\ (Cardinality(LinesOf("md", "trade_exit", {d}, run))
                            = Cardinality(LinesOf("jsonl", "trade_exit", {d}, run)))'
    BY DEF CountsTrue
  <2> QED
    BY <1>7 DEF JournalInv, CountsTrue
<1> QED
  BY <1>2, <1>3, <1>4, <1>5, <1>6, <1>8, <1>9, <1>10, <1>11 DEF JournalInv, JournalTrue

LEMMA MidnightKeeps == JournalInv /\ Midnight => JournalInv'
<1> SUFFICES ASSUME JournalInv, Midnight PROVE JournalInv'
  OBVIOUS
<1>1. log' = log /\ mem' = mem /\ run' = run
  BY DEF Midnight
<1>2. day' \in Days
  <2>1. day \in Days /\ day < MaxDay /\ day' = day + 1 /\ MaxDay \in Nat
    BY JournalAssumption DEF Midnight, JournalInv, JournalTypes
  <2> QED
    BY <2>1 DEF Days
<1> QED
  BY <1>1, <1>2, Unwritten

LEMMA JournalStutters == JournalInv /\ UNCHANGED journalVars => JournalInv'
<1> SUFFICES ASSUME JournalInv, UNCHANGED journalVars PROVE JournalInv'
  OBVIOUS
<1>1. log' = log /\ mem' = mem /\ run' = run /\ day' \in Days
  BY DEF journalVars, JournalInv, JournalTypes
<1> QED
  BY <1>1, Unwritten

LEMMA JournalStarts == JournalInit => JournalInv
<1> SUFFICES ASSUME JournalInit PROVE JournalInv
  OBVIOUS
<1>1. day = 0 /\ log = <<>> /\ mem = Fresh /\ run = 1
  BY DEF JournalInit
<1>2. /\ Len(log) = 0 /\ Len(log) \in Nat /\ DOMAIN log = {} /\ log \in Seq({})
      /\ \A i \in 1..Len(log) : FALSE
  BY <1>1, EmptySeq
<1>3. /\ \A file, kind, D, r : LinesOf(file, kind, D, r) = {}
      /\ Picked(log, {}) = <<>> /\ Cardinality({}) = 0
  BY <1>2, PickedNone, FS_EmptySet DEF LinesOf
<1>4. SeenOf(<<>>) = <<>> /\ BodyOf(<<>>) = <<>>
  BY DEF SeenOf, BodyOf
<1>5. /\ mem.open = {} /\ mem.all = <<>> /\ mem.rolled = {}
      /\ \A e \in Days : mem.trades[e] = <<>> /\ mem.declines[e] = <<>>
  BY <1>1 DEF Fresh
<1>6. MaxDetail \in Nat /\ MaxDay \in Nat /\ 0 \in Days
  BY JournalAssumption DEF Days
<1>7. JournalTypes
  <2>1. mem \in Memory /\ day \in Days /\ run \in Nat \ {0}
    BY <1>1, <1>6, FreshIsMemory
  <2> QED
    BY <1>2, <2>1 DEF JournalTypes
<1>8. OneHeader /\ RollupsRecomputable /\ ExitsAttributed
  BY <1>2 DEF OneHeader, RollupsRecomputable, ExitsAttributed
<1>9. OncePerRun
  <2>1. 0 <= 1 /\ 0 <= MaxDetail /\ 0 - 0 \in 0..1
    BY <1>6
  <2>2. \A r \in 1..run, d \in Days : Quotas(d, r)
    BY <1>3, <2>1 DEF Quotas
  <2> QED
    BY <2>2, OnceIsQuotas
<1>10. MemoryTrue
  BY <1>3, <1>4, <1>5 DEF MemoryTrue
<1>11. OpenTrue
  <2>1. \A i \in 1..(Len(log) + 1) - 1 : FALSE
    BY <1>2
  <2> QED
    BY <1>5, <2>1 DEF OpenTrue, EnteredBefore
<1>12. RolledTrue
  BY <1>2 DEF RolledTrue
<1>13. CountsTrue
  <2>1. Len(<<>>) = 0 /\ 0 <= 0
    OBVIOUS
  <2> QED
    BY <1>3, <1>5, <2>1 DEF CountsTrue
<1> QED
  BY <1>7, <1>8, <1>9, <1>10, <1>11, <1>12, <1>13 DEF JournalInv, JournalTrue

(* Whatever entries, exits, declines and midnights come, wherever a write  *)
(* breaks off and whenever the agent restarts: an exit line carries what   *)
(* this run knew of the trade, a roll-up in the structured file the        *)
(* statistics of this run's lines above it, and a day is rolled up at most *)
(* once per run and file (live_journal.py).                                *)
THEOREM JournalIsTrue == JournalSpec => []JournalTrue
<1>1. JournalInv /\ [JournalNext]_journalVars => JournalInv'
  BY EntryKeeps, ExitKeeps, DeclineKeeps, RollUpKeeps, MidnightKeeps, JournalStutters DEF JournalNext
<1>2. JournalInv => JournalTrue
  BY DEF JournalInv
<1> QED
  BY <1>1, <1>2, JournalStarts, PTL DEF JournalSpec

-----------------------------------------------------------------------------
(* The sums of the weekly report are totals.                               *)
Pnls == [i \in Times |-> history[i].pnl]
Phantoms == [i \in Times |-> history[i].ticket.phantom]
RowPnls == [t \in Tickets |-> Row(t).pnl]

LEMMA PnlOfTotal ==
  \A S \in SUBSET Times : PnlOf(S) = SetTotal(Pnls, S)
<1> SUFFICES ASSUME NEW S \in SUBSET Times PROVE PnlOf(S) = SetTotal(Pnls, S)
  OBVIOUS
<1> DEFINE Sums(g) ==
      g = [s \in SUBSET S |-> IF s = {} THEN 0 ELSE history[Chosen(s)].pnl + g[s \ {Chosen(s)}]]
<1>1. \A g : Sums(g) <=> Solves(g, Pnls, S)
  <2>1. \A s \in SUBSET S : s # {} => Pnls[Chosen(s)] = history[Chosen(s)].pnl
    BY ChosenIn DEF Pnls
  <2> QED
    BY <2>1 DEF Solves
<1>2. PnlOf(S) = (CHOOSE g : Sums(g))[S]
  BY DEF PnlOf, MapThenSumSet, MapThenFoldSet, Chosen
<1>3. (CHOOSE g : Sums(g)) = (CHOOSE g : Solves(g, Pnls, S))
  <2> HIDE DEF Sums
  <2> QED
    BY <1>1, Zenon
<1> QED
  BY <1>2, <1>3, TotalUnfolds DEF Solution

LEMMA PnlOfTotalNext ==
  (\A S \in SUBSET Times : PnlOf(S) = SetTotal(Pnls, S))'
BY PnlOfTotal, PTL

(* The row of a ticket: its last line, if that is a close.                 *)
RowsOver(g, t, n) ==
  g = [k \in 0..n |->
         IF k = 0 THEN NoRow ELSE IF IsLine(k, t) THEN RowAfter(g[k - 1], k) ELSE g[k - 1]]

LEMMA RowsExist ==
  ASSUME NEW t
  PROVE  \A n \in Nat : \E g : RowsOver(g, t, n)
<1> DEFINE G == {n \in Nat : \E g : RowsOver(g, t, n)}
           next(g, k) == IF IsLine(k, t) THEN RowAfter(g[k - 1], k) ELSE g[k - 1]
<1>0. \A g, n : RowsOver(g, t, n) <=> g = [k \in 0..n |-> IF k = 0 THEN NoRow ELSE next(g, k)]
  BY DEF RowsOver
<1> HIDE DEF next
<1>1. 0 \in G
  <2> DEFINE g == [k \in 0..0 |-> NoRow]
  <2>1. g = [k \in 0..0 |-> IF k = 0 THEN NoRow ELSE next(g, k)]
    OBVIOUS
  <2> QED
    BY <1>0, <2>1
<1>2. ASSUME NEW n \in Nat, n \in G PROVE n + 1 \in G
  <2>1. PICK g : RowsOver(g, t, n)
    BY <1>2
  <2> DEFINE last == IF IsLine(n + 1, t) THEN RowAfter(g[n], n + 1) ELSE g[n]
             h == [k \in 0..n + 1 |-> IF k = n + 1 THEN last ELSE g[k]]
  <2>2. \A k \in 0..n : g[k] = IF k = 0 THEN NoRow ELSE next(g, k)
    BY <1>0, <2>1
  <2>3. /\ h[n + 1] = last
        /\ \A k \in 0..n : h[k] = g[k]
    OBVIOUS
  <2>4. h = [k \in 0..n + 1 |-> h[k]]
    OBVIOUS
  <2> HIDE DEF h
  <2>5. ASSUME NEW k \in 0..n + 1
        PROVE  h[k] = IF k = 0 THEN NoRow ELSE next(h, k)
    <3>1. CASE k = n + 1
      <4>1. k # 0 /\ k - 1 = n /\ n \in 0..n
        BY <3>1
      <4>2. h[k - 1] = g[n]
        BY <2>3, <4>1
      <4>3. next(h, k) = last
        BY <3>1, <4>2 DEF next
      <4> QED
        BY <2>3, <3>1, <4>1, <4>3
    <3>2. CASE k # n + 1
      <4>1. k \in 0..n /\ (k # 0 => k - 1 \in 0..n)
        BY <3>2
      <4>2. h[k] = g[k] /\ (k # 0 => h[k - 1] = g[k - 1])
        BY <2>3, <4>1
      <4>3. k # 0 => next(h, k) = next(g, k)
        BY <4>2 DEF next
      <4> QED
        BY <2>2, <4>1, <4>2, <4>3
    <3> QED
      BY <3>1, <3>2
  <2>6. RowsOver(h, t, n + 1)
    <3>1. h = [k \in 0..n + 1 |-> IF k = 0 THEN NoRow ELSE next(h, k)]
      BY <2>4, <2>5
    <3> QED
      BY <1>0, <3>1
  <2> QED
    BY <2>6
<1> HIDE DEF G
<1>3. \A n \in Nat : n \in G
  BY <1>1, <1>2, ByNumbers
<1> QED
  BY <1>3 DEF G

LastLine(t) == [at |-> Max(LinesOn(t)), pnl |-> history[Max(LinesOn(t))].pnl]

LEMMA RowIs ==
  (\E S : history \in Seq(S)) =>
    \A t : /\ Row(t) = IF LoggedClosed(t) THEN LastLine(t) ELSE NoRow
           /\ LinesOn(t) # {} => Max(LinesOn(t)) \in LinesOn(t) /\ \A i \in LinesOn(t) : i <= Max(LinesOn(t))
<1> SUFFICES ASSUME NEW S, history \in Seq(S), NEW t
             PROVE  /\ Row(t) = IF LoggedClosed(t) THEN LastLine(t) ELSE NoRow
                    /\ LinesOn(t) # {} => /\ Max(LinesOn(t)) \in LinesOn(t)
                                          /\ \A i \in LinesOn(t) : i <= Max(LinesOn(t))
  OBVIOUS
<1> DEFINE n == Len(history)
           L == LinesOn(t)
           after(k) == IF history[k].kind = "closed" THEN [at |-> k, pnl |-> history[k].pnl] ELSE NoRow
           g == CHOOSE row : RowsOver(row, t, n)
           Quiet(i, j) == \A k \in i..j : k \notin L
           G == {k \in Nat : k <= n => /\ Quiet(1, k) => g[k] = NoRow
                                       /\ \A m \in L : m <= k /\ Quiet(m + 1, k) => g[k] = after(m)}
<1>1. n \in Nat /\ DOMAIN history = 1..n
  OBVIOUS
<1>2. L \in SUBSET (1..n) /\ \A k \in 1..n : k \in L <=> IsLine(k, t)
  BY <1>1 DEF LinesOn, Times
<1>3. RowsOver(g, t, n)
  BY <1>1, RowsExist
<1>4. \A k \in 0..n : g[k] = IF k = 0 THEN NoRow ELSE IF IsLine(k, t) THEN after(k) ELSE g[k - 1]
  BY <1>3 DEF RowsOver, RowAfter
<1>5. Row(t) = g[n]
  BY DEF Row, RowsOver
<1>6. L # {} => Max(L) \in L /\ \A i \in L : i <= Max(L)
  BY <1>1, <1>2, GreatestNumber
<1> HIDE DEF n, L, after, g
<1>7. 0 \in G
  <2>1. g[0] = NoRow
    BY <1>1, <1>4
  <2>2. \A m \in L : ~(m <= 0)
    BY <1>2
  <2> QED
    BY <2>1, <2>2
<1>8. ASSUME NEW k \in Nat, k \in G PROVE k + 1 \in G
  <2> SUFFICES ASSUME k + 1 <= n
               PROVE  /\ Quiet(1, k + 1) => g[k + 1] = NoRow
                      /\ \A m \in L : m <= k + 1 /\ Quiet(m + 1, k + 1) => g[k + 1] = after(m)
    OBVIOUS
  <2>1. k <= n /\ k + 1 \in 1..n /\ k + 1 \in 0..n /\ k + 1 # 0 /\ (k + 1) - 1 = k
    BY <1>1
  <2>2. g[k + 1] = IF k + 1 \in L THEN after(k + 1) ELSE g[k]
    BY <1>2, <1>4, <2>1
  <2>3. Quiet(1, k + 1) => g[k + 1] = NoRow
    <3> SUFFICES ASSUME Quiet(1, k + 1) PROVE g[k + 1] = NoRow
      OBVIOUS
    <3>1. k + 1 \notin L /\ \A j \in 1..k : j \notin L
      OBVIOUS
    <3> QED
      BY <1>8, <2>1, <2>2, <3>1
  <2>4. ASSUME NEW m \in L, m <= k + 1, Quiet(m + 1, k + 1)
        PROVE  g[k + 1] = after(m)
    <3>1. m \in 1..n
      BY <1>2
    <3>2. CASE m = k + 1
      BY <2>2, <3>2, <2>4
    <3>3. CASE m # k + 1
      <4>1. m <= k /\ k + 1 \in m + 1..k + 1 /\ \A j \in m + 1..k : j \in m + 1..k + 1
        BY <1>1, <2>4, <3>1, <3>3
      <4>2. k + 1 \notin L /\ \A j \in m + 1..k : j \notin L
        BY <2>4, <4>1
      <4> QED
        BY <1>8, <2>1, <2>2, <4>1, <4>2
    <3> QED
      BY <3>2, <3>3
  <2> QED
    BY <2>3, <2>4
<1>9. n \in G
  <2> HIDE DEF G
  <2>1. \A k \in Nat : k \in G
    BY <1>7, <1>8, ByNumbers
  <2> QED
    BY <1>1, <2>1
<1>10. Row(t) = IF L # {} /\ history[Max(L)].kind = "closed"
                THEN [at |-> Max(L), pnl |-> history[Max(L)].pnl] ELSE NoRow
  <2>1. CASE L = {}
    BY <1>1, <1>5, <1>9, <2>1
  <2>2. CASE L # {}
    <3>1. Max(L) \in L /\ Max(L) \in 1..n /\ \A i \in L : i <= Max(L)
      BY <1>2, <1>6, <2>2
    <3>2. Max(L) <= n /\ Quiet(Max(L) + 1, n)
      <4> SUFFICES ASSUME NEW j \in Max(L) + 1..n PROVE j \notin L
        BY <1>1, <3>1
      <4> QED
        BY <1>1, <3>1
    <3>3. g[n] = after(Max(L))
      BY <1>1, <1>9, <3>1, <3>2
    <3> QED
      BY <1>5, <2>2, <3>3 DEF after
  <2> QED
    BY <2>1, <2>2
<1> QED
  BY <1>6, <1>10 DEF L, LoggedClosed, LastLine

LEMMA RowIsNext ==
  ((\E S : history \in Seq(S)) =>
    \A t : /\ Row(t) = IF LoggedClosed(t) THEN LastLine(t) ELSE NoRow
           /\ LinesOn(t) # {} => Max(LinesOn(t)) \in LinesOn(t) /\ \A i \in LinesOn(t) : i <= Max(LinesOn(t)))'
BY RowIs, PTL

-----------------------------------------------------------------------------
(* What happens adds one event.                                            *)
EventTyped(e) ==
  /\ e.kind \in {"heartbeat", "booked", "closed", "reopened", "manual"}
  /\ e.kind = "heartbeat" => e.symbol \in Traders /\ e.balance \in Int
  /\ e.kind \in {"booked", "closed", "reopened"} => e.ticket \in Tickets
  /\ e.kind \in {"booked", "closed", "manual"} => e.pnl \in Int
  /\ e.kind = "booked" => e.pnl = e.ticket.pnl

WeekTypes ==
  /\ \E S : history \in Seq(S)
  /\ \A i \in Times : EventTyped(history[i])

LEMMA OneMoreEvent ==
  ASSUME WeekTypes, NEW e, EventTyped(e), Happens(e)
  PROVE  /\ WeekTypes'
         /\ Len(history) \in Nat /\ Times = 1..Len(history) /\ Times' = 1..Len(history) + 1
         /\ \A i \in Times : i \in Times' /\ i # Len(history) + 1 /\ history'[i] = history[i]
         /\ history'[Len(history) + 1] = e /\ Len(history) + 1 \in Times'
<1>1. PICK S : history \in Seq(S)
  BY DEF WeekTypes
<1> DEFINE Z == S \cup {e}
           n == Len(history)
<1>2. history \in Seq(Z) /\ e \in Z /\ n \in Nat /\ Times = 1..n
  <2>1. history \in [1..n -> S] /\ n \in Nat /\ Times = 1..n
    BY <1>1 DEF Times
  <2>2. history \in [1..n -> Z]
    BY <2>1
  <2>3. history \in Seq(Z)
    BY <2>1, <2>2
  <2> QED
    BY <2>1, <2>3
<1> HIDE DEF Z
<1>3. /\ history' \in Seq(Z) /\ Len(history') = n + 1
      /\ \A i \in 1..n : history'[i] = history[i]
      /\ history'[n + 1] = e
  BY <1>2 DEF Happens
<1>4. Times' = 1..n + 1
  BY <1>3 DEF Times
<1> HIDE DEF n
<1>5. \A i \in Times : i \in Times' /\ i # n + 1 /\ history'[i] = history[i]
  BY <1>2, <1>3, <1>4
<1>6. n + 1 \in Times' /\ \A i \in Times' : i \in Times \/ i = n + 1
  BY <1>2, <1>4
<1>7. WeekTypes'
  <2>1. \A i \in Times' : EventTyped(history'[i])
    BY <1>3, <1>5, <1>6 DEF WeekTypes
  <2>2. (\A i \in Times : EventTyped(history[i]))'
    BY <2>1 DEF EventTyped
  <2> QED
    BY <1>3, <2>2 DEF WeekTypes
<1> QED
  BY <1>2, <1>3, <1>4, <1>5, <1>6, <1>7 DEF n

LEMMA EventsGrow ==
  ASSUME WeekTypes, NEW e, EventTyped(e), Happens(e)
  PROVE  /\ \A kind : Events(kind)' = Events(kind) \cup (IF e.kind = kind THEN {Len(history) + 1} ELSE {})
         /\ \A t : LinesOn(t)' = LinesOn(t) \cup (IF e.kind \in {"closed", "reopened"} /\ e.ticket = t
                                                  THEN {Len(history) + 1} ELSE {})
         /\ \A t : IsBooked(t)' <=> IsBooked(t) \/ (e.kind = "booked" /\ e.ticket = t)
<1> DEFINE n == Len(history)
<1>1. /\ n \in Nat /\ Times' = Times \cup {n + 1} /\ n + 1 \notin Times
      /\ \A i \in Times : history'[i] = history[i]
      /\ history'[n + 1] = e
  BY OneMoreEvent
<1> HIDE DEF n
<1>2. ASSUME NEW kind
      PROVE  Events(kind)' = Events(kind) \cup (IF e.kind = kind THEN {n + 1} ELSE {})
  BY <1>1 DEF Events
<1>3. ASSUME NEW t
      PROVE  LinesOn(t)' = LinesOn(t) \cup (IF e.kind \in {"closed", "reopened"} /\ e.ticket = t
                                            THEN {n + 1} ELSE {})
  BY <1>1 DEF LinesOn, IsLine
<1>4. ASSUME NEW t
      PROVE  IsBooked(t)' <=> IsBooked(t) \/ (e.kind = "booked" /\ e.ticket = t)
  <2>1. \A i \in Events("booked") : i \in Times
    BY DEF Events
  <2> QED
    BY <1>1, <1>2, <2>1 DEF IsBooked
<1> QED
  BY <1>2, <1>3, <1>4 DEF n

LEMMA RowsGrow ==
  ASSUME WeekTypes, NEW e, EventTyped(e), Happens(e), NEW t
  PROVE  IF e.kind \in {"closed", "reopened"} /\ e.ticket = t
         THEN /\ Max(LinesOn(t))' = Len(history) + 1
              /\ LoggedClosed(t)' <=> e.kind = "closed"
              /\ Row(t)' = IF e.kind = "closed" THEN [at |-> Len(history) + 1, pnl |-> e.pnl] ELSE NoRow
         ELSE /\ LinesOn(t)' = LinesOn(t)
              /\ LoggedClosed(t)' <=> LoggedClosed(t)
              /\ LoggedClosed(t) => history'[Max(LinesOn(t))] = history[Max(LinesOn(t))]
              /\ Row(t)' = Row(t)
<1> DEFINE n == Len(history)
<1>1. /\ n \in Nat /\ Times = 1..n
      /\ \A i \in Times : history'[i] = history[i]
      /\ history'[n + 1] = e
  BY OneMoreEvent
<1>2. LinesOn(t)' = LinesOn(t) \cup (IF e.kind \in {"closed", "reopened"} /\ e.ticket = t THEN {n + 1} ELSE {})
  BY EventsGrow
<1>3. LinesOn(t) \in SUBSET Times
  BY DEF LinesOn
<1>4. /\ Row(t) = IF LoggedClosed(t) THEN LastLine(t) ELSE NoRow
      /\ LinesOn(t) # {} => Max(LinesOn(t)) \in LinesOn(t) /\ \A i \in LinesOn(t) : i <= Max(LinesOn(t))
  BY RowIs DEF WeekTypes
<1>5. /\ Row(t)' = IF LoggedClosed(t)' THEN LastLine(t)' ELSE NoRow
      /\ LinesOn(t)' # {} => Max(LinesOn(t)') \in LinesOn(t)' /\ \A i \in LinesOn(t)' : i <= Max(LinesOn(t)')
  <2>1. WeekTypes'
    BY OneMoreEvent
  <2> QED
    BY <2>1, RowIsNext DEF WeekTypes, NoRow
<1> HIDE DEF n
<1>6. CASE e.kind \in {"closed", "reopened"} /\ e.ticket = t
  <2>1. LinesOn(t)' = LinesOn(t) \cup {n + 1}
    BY <1>2, <1>6
  <2>2. Max(LinesOn(t)') = n + 1
    <3> DEFINE x == Max(LinesOn(t)')
    <3>1. x \in LinesOn(t) \cup {n + 1} /\ n + 1 <= x
      BY <1>5, <2>1
    <3>2. x \in 1..n + 1
      BY <1>1, <1>3, <3>1
    <3> HIDE DEF x
    <3>3. x = n + 1
      BY <1>1, <3>1, <3>2
    <3> QED
      BY <3>3 DEF x
  <2>3. Max(LinesOn(t))' = Max(LinesOn(t)')
    BY DEF Max
  <2>4. LoggedClosed(t)' <=> e.kind = "closed"
    BY <1>1, <2>1, <2>2, <2>3 DEF LoggedClosed
  <2>5. LastLine(t)' = [at |-> n + 1, pnl |-> e.pnl]
    BY <1>1, <2>2, <2>3 DEF LastLine
  <2> QED
    BY <1>5, <1>6, <2>2, <2>3, <2>4, <2>5 DEF n
<1>7. CASE ~(e.kind \in {"closed", "reopened"} /\ e.ticket = t)
  <2>1. LinesOn(t)' = LinesOn(t)
    BY <1>2, <1>7
  <2>2. Max(LinesOn(t))' = Max(LinesOn(t))
    BY <2>1 DEF Max
  <2>3. LinesOn(t) # {} => history'[Max(LinesOn(t))] = history[Max(LinesOn(t))]
    BY <1>1, <1>3, <1>4
  <2>4. LoggedClosed(t)' <=> LoggedClosed(t)
    BY <2>1, <2>2, <2>3 DEF LoggedClosed
  <2>5. LoggedClosed(t) => LastLine(t)' = LastLine(t)
    BY <2>2, <2>3 DEF LastLine, LoggedClosed
  <2>6. LoggedClosed(t) => LinesOn(t) # {}
    BY DEF LoggedClosed
  <2> QED
    BY <1>4, <1>5, <1>7, <2>1, <2>3, <2>4, <2>5, <2>6
<1> QED
  BY <1>6, <1>7

-----------------------------------------------------------------------------
LEMMA ClosedRowsAre ==
  WeekTypes =>
    /\ ClosedRows = {t \in Tickets : LoggedClosed(t)} /\ IsFiniteSet(ClosedRows)
    /\ \A t \in ClosedRows : /\ Row(t) = LastLine(t) /\ LinesOn(t) # {}
                             /\ Row(t).at = Max(LinesOn(t)) /\ Row(t).at \in LinesOn(t)
                             /\ Row(t).at \in Times /\ history[Row(t).at].kind = "closed"
                             /\ Row(t).pnl \in Int /\ RowPnls[t] = Row(t).pnl
<1> SUFFICES ASSUME WeekTypes
             PROVE  /\ ClosedRows = {t \in Tickets : LoggedClosed(t)} /\ IsFiniteSet(ClosedRows)
                    /\ \A t \in ClosedRows :
                         /\ Row(t) = LastLine(t) /\ LinesOn(t) # {}
                         /\ Row(t).at = Max(LinesOn(t)) /\ Row(t).at \in LinesOn(t)
                         /\ Row(t).at \in Times /\ history[Row(t).at].kind = "closed"
                         /\ Row(t).pnl \in Int /\ RowPnls[t] = Row(t).pnl
  OBVIOUS
<1>1. Times \in SUBSET Nat /\ 0 \notin Times
  BY DEF WeekTypes, Times
<1>2. ASSUME NEW t \in Tickets
      PROVE  /\ Row(t) = IF LoggedClosed(t) THEN LastLine(t) ELSE NoRow
             /\ LoggedClosed(t) => /\ LinesOn(t) # {} /\ Max(LinesOn(t)) \in LinesOn(t)
                                   /\ Max(LinesOn(t)) \in Times /\ Max(LinesOn(t)) # 0
                                   /\ history[Max(LinesOn(t))].kind = "closed"
                                   /\ history[Max(LinesOn(t))].pnl \in Int
  <2>1. /\ Row(t) = IF LoggedClosed(t) THEN LastLine(t) ELSE NoRow
        /\ LinesOn(t) # {} => Max(LinesOn(t)) \in LinesOn(t)
    BY RowIs DEF WeekTypes
  <2>2. LinesOn(t) \in SUBSET Times
    BY DEF LinesOn
  <2>3. \A i \in Times : history[i].kind = "closed" => history[i].pnl \in Int
    BY DEF WeekTypes, EventTyped
  <2> QED
    BY <1>1, <2>1, <2>2, <2>3 DEF LoggedClosed
<1>3. \A t \in Tickets : LoggedClosed(t) => Row(t) # NoRow
  <2> SUFFICES ASSUME NEW t \in Tickets, LoggedClosed(t), Row(t) = NoRow PROVE FALSE
    OBVIOUS
  <2>1. LastLine(t).at = NoRow.at /\ Max(LinesOn(t)) # 0
    BY <1>2
  <2>2. LastLine(t).at = Max(LinesOn(t)) /\ NoRow.at = 0
    BY DEF LastLine, NoRow
  <2> QED
    BY <2>1, <2>2
<1>4. ClosedRows = {t \in Tickets : LoggedClosed(t)}
  BY <1>2, <1>3 DEF ClosedRows
<1>5. IsFiniteSet(ClosedRows)
  BY WeekAssumption, FS_Subset DEF ClosedRows
<1>6. ASSUME NEW t \in ClosedRows
      PROVE  /\ Row(t) = LastLine(t) /\ LinesOn(t) # {}
             /\ Row(t).at = Max(LinesOn(t)) /\ Row(t).at \in LinesOn(t)
             /\ Row(t).at \in Times /\ history[Row(t).at].kind = "closed"
             /\ Row(t).pnl \in Int /\ RowPnls[t] = Row(t).pnl
  <2>1. t \in Tickets /\ LoggedClosed(t)
    BY <1>4
  <2>2. Row(t) = LastLine(t)
    BY <1>2, <2>1
  <2>3. Row(t).at = Max(LinesOn(t)) /\ Row(t).pnl = history[Max(LinesOn(t))].pnl
    BY <2>2 DEF LastLine
  <2> QED
    BY <1>2, <2>1, <2>2, <2>3 DEF RowPnls
<1> QED
  BY <1>4, <1>5, <1>6

LEMMA ClosedRowsAreNext ==
  (WeekTypes =>
    /\ ClosedRows = {t \in Tickets : LoggedClosed(t)} /\ IsFiniteSet(ClosedRows)
    /\ \A t \in ClosedRows : /\ Row(t) = LastLine(t) /\ LinesOn(t) # {}
                             /\ Row(t).at = Max(LinesOn(t)) /\ Row(t).at \in LinesOn(t)
                             /\ Row(t).at \in Times /\ history[Row(t).at].kind = "closed"
                             /\ Row(t).pnl \in Int /\ RowPnls[t] = Row(t).pnl)'
BY ClosedRowsAre, PTL

LEMMA PnlInTotal ==
  \A S \in SUBSET Tickets : PnlIn(S) = SetTotal(RowPnls, S)
<1> SUFFICES ASSUME NEW S \in SUBSET Tickets PROVE PnlIn(S) = SetTotal(RowPnls, S)
  OBVIOUS
<1> DEFINE Sums(g) ==
      g = [s \in SUBSET S |-> IF s = {} THEN 0 ELSE Row(Chosen(s)).pnl + g[s \ {Chosen(s)}]]
<1>1. \A g : Sums(g) <=> Solves(g, RowPnls, S)
  <2>1. \A s \in SUBSET S : s # {} => RowPnls[Chosen(s)] = Row(Chosen(s)).pnl
    BY ChosenIn DEF RowPnls
  <2> QED
    BY <2>1 DEF Solves
<1>2. PnlIn(S) = (CHOOSE g : Sums(g))[S]
  BY DEF PnlIn, MapThenSumSet, MapThenFoldSet, Chosen
<1>3. (CHOOSE g : Sums(g)) = (CHOOSE g : Solves(g, RowPnls, S))
  <2> HIDE DEF Sums
  <2> QED
    BY <1>1, Zenon
<1> QED
  BY <1>2, <1>3, TotalUnfolds DEF Solution

LEMMA PhantomsTotal ==
  MapThenSumSet(LAMBDA i : history[i].ticket.phantom, Events("reopened")) =
    SetTotal(Phantoms, Events("reopened"))
<1> DEFINE S == Events("reopened")
           Sums(g) == g = [s \in SUBSET S |->
                             IF s = {} THEN 0 ELSE history[Chosen(s)].ticket.phantom + g[s \ {Chosen(s)}]]
<1>0. S \in SUBSET Times
  BY DEF Events
<1>1. \A g : Sums(g) <=> Solves(g, Phantoms, S)
  <2> HIDE DEF S
  <2>1. \A s \in SUBSET S : s # {} => Phantoms[Chosen(s)] = history[Chosen(s)].ticket.phantom
    BY <1>0, ChosenIn DEF Phantoms
  <2> QED
    BY <2>1 DEF Solves
<1>2. MapThenSumSet(LAMBDA i : history[i].ticket.phantom, S) = (CHOOSE g : Sums(g))[S]
  BY DEF MapThenSumSet, MapThenFoldSet, Chosen
<1>3. (CHOOSE g : Sums(g)) = (CHOOSE g : Solves(g, Phantoms, S))
  <2> HIDE DEF Sums, S
  <2> QED
    BY <1>1, Zenon
<1> QED
  BY <1>2, <1>3, TotalUnfolds DEF Solution

-----------------------------------------------------------------------------
(* The invariant: a trade is booked once and at most one is made by hand;  *)
(* a heartbeat has the balance of what was booked before it; the last      *)
(* close logged of a trade that is not booked is the phantom; and the      *)
(* daily P&L exceeds the weekly by the phantoms that were reopened.        *)
BookedOnce ==
  /\ \A i \in Events("booked"), j \in Events("booked") : history[i].ticket = history[j].ticket => i = j
  /\ \A i \in Events("manual"), j \in Events("manual") : i = j

MovesBefore(k) == {i \in Events("booked") \cup Events("manual") : i < k}

BalancesTrue == \A k \in Heartbeats : history[k].balance = SetTotal(Pnls, MovesBefore(k))

PhantomsKnown ==
  \A t \in Tickets : ~IsBooked(t) /\ LoggedClosed(t) => history[Max(LinesOn(t))].pnl = t.phantom

DailyExplained ==
  SetTotal(Pnls, Events("closed")) - SetTotal(RowPnls, ClosedRows) = SetTotal(Phantoms, Events("reopened"))

WeekInv ==
  /\ WeekTypes /\ BookedOnce
  /\ BalancesTrue /\ PhantomsKnown /\ DailyExplained

(* What the guards of the actions say of an event.                         *)
Legal(e) ==
  /\ e.kind = "heartbeat" => e.balance = Balance
  /\ e.kind = "booked" => ~IsBooked(e.ticket)
  /\ e.kind = "closed" => ~LoggedClosed(e.ticket) /\ (IsBooked(e.ticket) \/ e.pnl = e.ticket.phantom)
  /\ e.kind = "reopened" => LoggedClosed(e.ticket) /\ ~IsBooked(e.ticket)
  /\ e.kind = "manual" => Events("manual") = {}

LEMMA PnlsTyped ==
  ASSUME WeekTypes
  PROVE  /\ IsFiniteSet(Times) /\ Times \in SUBSET Nat
         /\ \A kind : Events(kind) \in SUBSET Times /\ IsFiniteSet(Events(kind))
         /\ \A i \in Times : history[i].kind \in {"booked", "closed", "manual"} =>
              Pnls[i] = history[i].pnl /\ Pnls[i] \in Int
         /\ \A i \in Events("reopened") : Phantoms[i] = history[i].ticket.phantom /\ Phantoms[i] \in Int
<1>1. Len(history) \in Nat /\ Times = 1..Len(history)
  BY DEF WeekTypes, Times
<1>2. IsFiniteSet(Times) /\ Times \in SUBSET Nat
  BY <1>1, FS_Interval
<1>3. \A kind : Events(kind) \in SUBSET Times
  BY DEF Events
<1>4. \A i \in Times : history[i].kind \in {"booked", "closed", "manual"} =>
        Pnls[i] = history[i].pnl /\ Pnls[i] \in Int
  BY DEF Pnls, WeekTypes, EventTyped
<1>5. \A i \in Events("reopened") : Phantoms[i] = history[i].ticket.phantom /\ Phantoms[i] \in Int
  <2> SUFFICES ASSUME NEW i \in Events("reopened")
               PROVE  Phantoms[i] = history[i].ticket.phantom /\ Phantoms[i] \in Int
    OBVIOUS
  <2>1. i \in Times /\ history[i].ticket \in Tickets
    BY DEF WeekTypes, EventTyped, Events
  <2>2. history[i].ticket.phantom \in Int
    BY <2>1, WeekAssumption
  <2> QED
    BY <2>1, <2>2 DEF Phantoms
<1> QED
  BY <1>2, <1>3, <1>4, <1>5, FS_Subset

LEMMA NextIsLegal ==
  ASSUME WeekTypes, WeekNext
  PROVE  \E e : EventTyped(e) /\ Happens(e) /\ Legal(e)
<1>1. CASE Heartbeat
  <2>1. PICK s \in Traders : Happens([kind |-> "heartbeat", symbol |-> s, balance |-> Balance])
    BY <1>1 DEF Heartbeat
  <2>2. Balance \in Int
    <3> DEFINE M == Events("booked") \cup Events("manual")
    <3>1. M \in SUBSET Times /\ IsFiniteSet(M) /\ \A i \in M : Pnls[i] \in Int
      <4>1. IsFiniteSet(M)
        BY PnlsTyped, FS_Union
      <4> QED
        BY <4>1, PnlsTyped DEF Events
    <3>2. Balance = SetTotal(Pnls, M)
      BY <3>1, PnlOfTotal DEF Balance
    <3> QED
      BY <3>1, <3>2, TotalRemoves
  <2> QED
    BY <2>1, <2>2 DEF EventTyped, Legal
<1>2. CASE Booked
  <2>1. PICK t \in Tickets : ~IsBooked(t) /\ Happens([kind |-> "booked", ticket |-> t, pnl |-> t.pnl])
    BY <1>2 DEF Booked
  <2> QED
    BY <2>1, WeekAssumption DEF EventTyped, Legal
<1>3. CASE CloseLogged
  <2>1. PICK t \in Tickets : /\ IsBooked(t) /\ ~LoggedClosed(t)
                             /\ Happens([kind |-> "closed", ticket |-> t, pnl |-> t.pnl])
    BY <1>3 DEF CloseLogged
  <2> QED
    BY <2>1, WeekAssumption DEF EventTyped, Legal
<1>4. CASE PhantomLogged
  <2>1. PICK t \in Tickets : /\ ~IsBooked(t) /\ ~LoggedClosed(t)
                             /\ Happens([kind |-> "closed", ticket |-> t, pnl |-> t.phantom])
    BY <1>4 DEF PhantomLogged
  <2> QED
    BY <2>1, WeekAssumption DEF EventTyped, Legal
<1>5. CASE ReopenedLogged
  <2>1. PICK t \in Tickets : /\ ~IsBooked(t) /\ LoggedClosed(t)
                             /\ Happens([kind |-> "reopened", ticket |-> t])
    BY <1>5 DEF ReopenedLogged
  <2> QED
    BY <2>1 DEF EventTyped, Legal
<1>6. CASE Manual
  <2>1. PICK a \in Amounts : Events("manual") = {} /\ Happens([kind |-> "manual", pnl |-> a])
    BY <1>6 DEF Manual
  <2> QED
    BY <2>1, WeekAssumption DEF EventTyped, Legal
<1> QED
  BY <1>1, <1>2, <1>3, <1>4, <1>5, <1>6 DEF WeekNext

LEMMA BookedOnceKept ==
  ASSUME WeekTypes, BookedOnce, NEW e, EventTyped(e), Happens(e), Legal(e)
  PROVE  BookedOnce'
<1> DEFINE n == Len(history)
<1>1. /\ history'[n + 1] = e
      /\ \A i \in Times : history'[i] = history[i]
      /\ \A kind : Events(kind)' = Events(kind) \cup (IF e.kind = kind THEN {n + 1} ELSE {})
      /\ \A kind : Events(kind) \in SUBSET Times
  BY OneMoreEvent, EventsGrow, PnlsTyped
<1> HIDE DEF n
<1>2. ASSUME NEW i \in Events("booked")', NEW j \in Events("booked")',
             history'[i].ticket = history'[j].ticket
      PROVE  i = j
  <2>1. CASE e.kind = "booked"
    <3>1. \A k \in Events("booked") : history'[k].ticket # e.ticket
      BY <1>1, <2>1 DEF Legal, IsBooked
    <3>2. \A k \in Events("booked") : history'[k] = history[k]
      BY <1>1
    <3>3. (i \in Events("booked") \/ i = n + 1) /\ (j \in Events("booked") \/ j = n + 1)
      BY <1>1, <1>2, <2>1
    <3> QED
      BY <1>1, <1>2, <3>1, <3>2, <3>3 DEF BookedOnce
  <2>2. CASE e.kind # "booked"
    <3>1. i \in Events("booked") /\ j \in Events("booked")
      BY <1>1, <1>2, <2>2
    <3>2. history'[i] = history[i] /\ history'[j] = history[j]
      BY <1>1, <3>1
    <3> QED
      BY <1>2, <3>1, <3>2 DEF BookedOnce
  <2> QED
    BY <2>1, <2>2
<1>3. ASSUME NEW i \in Events("manual")', NEW j \in Events("manual")'
      PROVE  i = j
  BY <1>1, <1>3 DEF BookedOnce, Legal
<1> QED
  BY <1>2, <1>3 DEF BookedOnce

LEMMA PhantomsKnownKept ==
  ASSUME WeekTypes, PhantomsKnown, NEW e, EventTyped(e), Happens(e), Legal(e)
  PROVE  PhantomsKnown'
<1> SUFFICES ASSUME NEW t \in Tickets, ~IsBooked(t)', LoggedClosed(t)'
             PROVE  history'[Max(LinesOn(t))'].pnl = t.phantom
  BY DEF PhantomsKnown
<1>1. ~IsBooked(t)
  BY EventsGrow
<1>2. CASE e.kind \in {"closed", "reopened"} /\ e.ticket = t
  <2>1. Max(LinesOn(t))' = Len(history) + 1 /\ e.kind = "closed"
    BY <1>2, RowsGrow
  <2>2. history'[Len(history) + 1] = e
    BY OneMoreEvent
  <2> QED
    BY <1>1, <1>2, <2>1, <2>2 DEF Legal
<1>3. CASE ~(e.kind \in {"closed", "reopened"} /\ e.ticket = t)
  <2>1. /\ LinesOn(t)' = LinesOn(t) /\ LoggedClosed(t)
        /\ history'[Max(LinesOn(t))] = history[Max(LinesOn(t))]
    BY <1>3, RowsGrow
  <2>2. Max(LinesOn(t))' = Max(LinesOn(t))
    BY <2>1 DEF Max
  <2> QED
    BY <1>1, <2>1, <2>2 DEF PhantomsKnown
<1> QED
  BY <1>2, <1>3

LEMMA TotalKept ==
  ASSUME WeekTypes, NEW e, EventTyped(e), Happens(e), NEW S \in SUBSET Times,
         \A i \in S : history[i].kind \in {"booked", "closed", "manual"}
  PROVE  SetTotal(Pnls', S) = SetTotal(Pnls, S)
<1>1. IsFiniteSet(S)
  BY PnlsTyped, FS_Subset
<1>2. \A i \in S : Pnls[i] \in Int /\ Pnls[i] = Pnls'[i]
  <2>1. \A i \in S : i \in Times' /\ history'[i] = history[i]
    BY OneMoreEvent
  <2>2. \A i \in S : Pnls[i] = history[i].pnl /\ Pnls[i] \in Int
    BY PnlsTyped
  <2> QED
    BY <2>1, <2>2 DEF Pnls
<1> QED
  BY <1>1, <1>2, TotalSame

LEMMA BalancesKept ==
  ASSUME WeekTypes, BalancesTrue, NEW e, EventTyped(e), Happens(e), Legal(e)
  PROVE  BalancesTrue'
<1> DEFINE M == Events("booked") \cup Events("manual")
<1>0. PICK n : n = Len(history)
  OBVIOUS
<1>1. /\ n \in Nat /\ Times = 1..n
      /\ history'[n + 1] = e
      /\ \A i \in Times : history'[i] = history[i]
      /\ \A kind : Events(kind)' = Events(kind) \cup (IF e.kind = kind THEN {n + 1} ELSE {})
      /\ \A kind : Events(kind) \in SUBSET Times
  BY <1>0, OneMoreEvent, EventsGrow, PnlsTyped
<1>2. M \in SUBSET Times /\ \A i \in M : history[i].kind \in {"booked", "closed", "manual"}
  BY DEF Events
<1>3. ASSUME NEW k \in Heartbeats
      PROVE  history'[k].balance = SetTotal(Pnls', MovesBefore(k)')
  <2>1. k \in Times /\ k \in 1..n /\ history'[k] = history[k]
    BY <1>1 DEF Heartbeats
  <2>2. ~(n + 1 < k)
    BY <1>1, <2>1
  <2>3. MovesBefore(k)' = MovesBefore(k)
    BY <1>1, <2>2 DEF MovesBefore
  <2>4. SetTotal(Pnls', MovesBefore(k)) = SetTotal(Pnls, MovesBefore(k))
    <3>1. MovesBefore(k) \in SUBSET M
      BY DEF MovesBefore
    <3> HIDE DEF M
    <3> QED
      BY <1>2, <3>1, TotalKept
  <2> QED
    BY <2>1, <2>3, <2>4 DEF BalancesTrue
<1>4. CASE e.kind = "heartbeat"
  <2>1. MovesBefore(n + 1)' = M
    <3>1. Events("booked")' = Events("booked") /\ Events("manual")' = Events("manual")
      BY <1>1, <1>4
    <3>2. \A i \in M : i < n + 1
      BY <1>1, <1>2
    <3> QED
      BY <3>1, <3>2 DEF MovesBefore
  <2>2. history'[n + 1].balance = SetTotal(Pnls, M)
    <3>1. Balance = SetTotal(Pnls, M)
      BY <1>2, PnlOfTotal DEF Balance
    <3> QED
      BY <1>1, <1>4, <3>1 DEF Legal
  <2>3. SetTotal(Pnls', M) = SetTotal(Pnls, M)
    <3> HIDE DEF M
    <3> QED
      BY <1>2, TotalKept
  <2>4. \A k \in Heartbeats' : k \in Heartbeats \/ k = n + 1
    BY <1>1, <1>4 DEF Heartbeats
  <2>5. ASSUME NEW k \in Heartbeats'
        PROVE  history'[k].balance = SetTotal(Pnls', MovesBefore(k)')
    <3>1. CASE k = n + 1
      <4>1. MovesBefore(k)' = M
        BY <2>1, <3>1
      <4> HIDE DEF M
      <4> QED
        BY <2>2, <2>3, <3>1, <4>1
    <3>2. CASE k # n + 1
      BY <1>3, <2>4, <3>2
    <3> QED
      BY <3>1, <3>2
  <2> QED
    BY <2>5 DEF BalancesTrue
<1>5. CASE e.kind # "heartbeat"
  <2>1. Heartbeats' = Heartbeats
    BY <1>1, <1>5 DEF Heartbeats
  <2> QED
    BY <1>3, <2>1 DEF BalancesTrue
<1> QED
  BY <1>4, <1>5

LEMMA RowPnlsKept ==
  ASSUME WeekTypes, NEW e, EventTyped(e), Happens(e), NEW S \in SUBSET ClosedRows,
         e.kind \in {"closed", "reopened"} => e.ticket \notin S
  PROVE  SetTotal(RowPnls', S) = SetTotal(RowPnls, S)
<1>1. IsFiniteSet(S)
  BY ClosedRowsAre, FS_Subset
<1>2. \A t \in S : RowPnls[t] \in Int /\ RowPnls[t] = RowPnls'[t]
  <2> SUFFICES ASSUME NEW t \in S PROVE RowPnls[t] \in Int /\ RowPnls[t] = RowPnls'[t]
    OBVIOUS
  <2>1. RowPnls[t] = Row(t).pnl /\ RowPnls[t] \in Int /\ t \in Tickets
    BY ClosedRowsAre DEF ClosedRows
  <2>2. Row(t)' = Row(t)
    BY RowsGrow
  <2>3. RowPnls'[t] = Row(t)'.pnl
    BY <2>1 DEF RowPnls
  <2> QED
    BY <2>1, <2>2, <2>3
<1> QED
  BY <1>1, <1>2, TotalSame

LEMMA PhantomsKept ==
  ASSUME WeekTypes, NEW e, EventTyped(e), Happens(e)
  PROVE  SetTotal(Phantoms', Events("reopened")) = SetTotal(Phantoms, Events("reopened"))
<1> DEFINE S == Events("reopened")
<1>1. IsFiniteSet(S)
  BY PnlsTyped
<1>2. \A i \in S : Phantoms[i] \in Int /\ Phantoms[i] = Phantoms'[i]
  <2>1. \A i \in S : i \in Times' /\ history'[i] = history[i]
    BY OneMoreEvent, PnlsTyped
  <2>2. \A i \in S : Phantoms[i] = history[i].ticket.phantom /\ Phantoms[i] \in Int
    BY PnlsTyped
  <2> QED
    BY <2>1, <2>2 DEF Phantoms
<1> HIDE DEF S
<1>3. SetTotal(Phantoms, S) = SetTotal(Phantoms', S)
  BY <1>1, <1>2, TotalSame
<1> QED
  BY <1>3 DEF S

LEMMA DailyExplainedKept ==
  ASSUME WeekTypes, PhantomsKnown, DailyExplained, NEW e, EventTyped(e), Happens(e), Legal(e)
  PROVE  DailyExplained'
<1> DEFINE C == Events("closed")
           P == Events("reopened")
<1>0. PICK n : n = Len(history)
  OBVIOUS
<1>1. /\ n + 1 \notin Times /\ n + 1 \in Times' /\ history'[n + 1] = e
      /\ C' = C \cup (IF e.kind = "closed" THEN {n + 1} ELSE {})
      /\ P' = P \cup (IF e.kind = "reopened" THEN {n + 1} ELSE {})
      /\ C \in SUBSET Times /\ P \in SUBSET Times /\ IsFiniteSet(C) /\ IsFiniteSet(P)
  BY <1>0, OneMoreEvent, EventsGrow, PnlsTyped
<1>2. /\ WeekTypes'
      /\ IsFiniteSet(ClosedRows) /\ \A t \in ClosedRows : RowPnls[t] \in Int
      /\ ClosedRows' = {t \in Tickets : LoggedClosed(t)'}
      /\ ClosedRows = {t \in Tickets : LoggedClosed(t)}
      /\ \A t \in ClosedRows' : RowPnls'[t] = Row(t)'.pnl /\ RowPnls'[t] \in Int
  BY OneMoreEvent, ClosedRowsAre, ClosedRowsAreNext
<1>3. /\ SetTotal(Pnls', C) = SetTotal(Pnls, C)
      /\ SetTotal(Phantoms', P) = SetTotal(Phantoms, P)
  <2>1. \A i \in C : history[i].kind \in {"booked", "closed", "manual"}
    BY DEF Events
  <2> QED
    BY <1>1, <2>1, TotalKept, PhantomsKept
<1>4. /\ \A i \in C : Pnls'[i] \in Int
      /\ \A i \in P : Phantoms'[i] \in Int
      /\ SetTotal(Pnls, C) \in Int /\ SetTotal(Phantoms, P) \in Int
  <2>1. /\ \A i \in C : Pnls[i] \in Int /\ Pnls'[i] = Pnls[i]
        /\ \A i \in P : Phantoms[i] \in Int /\ Phantoms'[i] = Phantoms[i]
    <3>1. \A i \in Times : i \in Times' /\ history'[i] = history[i]
      BY OneMoreEvent
    <3>2. \A i \in C : Pnls[i] \in Int
      BY PnlsTyped DEF Events
    <3>3. \A i \in P : Phantoms[i] \in Int
      BY PnlsTyped
    <3> QED
      BY <1>1, <3>1, <3>2, <3>3 DEF Pnls, Phantoms
  <2> QED
    BY <1>1, <2>1, TotalRemoves
<1>5. SetTotal(Pnls, C) - SetTotal(RowPnls, ClosedRows) = SetTotal(Phantoms, P)
  BY DEF DailyExplained
<1>6. SetTotal(RowPnls, ClosedRows) \in Int
  BY <1>2, TotalRemoves
<1>7. SetTotal(Pnls', C') - SetTotal(RowPnls', ClosedRows') = SetTotal(Phantoms', P')
  <2>1. CASE e.kind = "closed"
    <3> DEFINE t == e.ticket
    <3>1. t \in Tickets /\ t \notin ClosedRows
      BY <1>2, <2>1 DEF EventTyped, Legal
    <3>2. \A u \in Tickets : LoggedClosed(u)' <=> LoggedClosed(u) \/ u = t
      BY <2>1, RowsGrow
    <3>3. ClosedRows' = ClosedRows \cup {t}
      BY <1>2, <3>1, <3>2
    <3>4. RowPnls'[t] = e.pnl /\ e.pnl \in Int
      <4>1. Row(t)'.pnl = e.pnl
        BY <2>1, RowsGrow
      <4> QED
        BY <1>2, <2>1, <3>3, <4>1 DEF EventTyped
    <3>5. SetTotal(RowPnls', ClosedRows) = SetTotal(RowPnls, ClosedRows)
      BY <3>1, RowPnlsKept
    <3>6. \A u \in ClosedRows : RowPnls'[u] \in Int
      BY <1>2, <3>3
    <3> HIDE DEF t
    <3>7. SetTotal(RowPnls', ClosedRows') = e.pnl + SetTotal(RowPnls, ClosedRows)
      BY <1>2, <3>1, <3>3, <3>4, <3>5, <3>6, TotalAdds
    <3>8. Pnls'[n + 1] = e.pnl /\ n + 1 \notin C /\ C' = C \cup {n + 1} /\ P' = P
      <4>1. C' = C \cup {n + 1} /\ P' = P /\ n + 1 \notin C
        BY <1>1, <2>1
      <4> QED
        BY <1>1, <4>1 DEF Pnls
    <3> HIDE DEF C, P
    <3>9. SetTotal(Pnls', C') = e.pnl + SetTotal(Pnls, C)
      <4>1. SetTotal(Pnls', C \cup {n + 1}) = Pnls'[n + 1] + SetTotal(Pnls', C)
        BY <1>1, <1>4, <3>4, <3>8, TotalAdds
      <4> QED
        BY <1>3, <3>8, <4>1
    <3> QED
      BY <1>3, <1>4, <1>5, <1>6, <3>4, <3>7, <3>8, <3>9
  <2>2. CASE e.kind = "reopened"
    <3> DEFINE t == e.ticket
               R == ClosedRows \ {t}
    <3>1. t \in Tickets /\ t \in ClosedRows /\ ~IsBooked(t)
      BY <1>2, <2>2 DEF EventTyped, Legal
    <3>2. \A u \in Tickets : LoggedClosed(u)' <=> LoggedClosed(u) /\ u # t
      BY <2>2, RowsGrow
    <3>3. ClosedRows' = R
      BY <1>2, <3>2
    <3>4. RowPnls[t] = t.phantom /\ t.phantom \in Int
      <4>1. RowPnls[t] = Row(t).pnl /\ Row(t) = LastLine(t) /\ LoggedClosed(t)
        BY <1>2, <3>1, ClosedRowsAre
      <4>2. history[Max(LinesOn(t))].pnl = t.phantom
        BY <3>1, <4>1 DEF PhantomsKnown
      <4> QED
        BY <1>2, <3>1, <4>1, <4>2 DEF LastLine
    <3>5. SetTotal(RowPnls', R) = SetTotal(RowPnls, R)
      BY <3>1, RowPnlsKept
    <3>6. SetTotal(RowPnls, ClosedRows) = t.phantom + SetTotal(RowPnls, R) /\ SetTotal(RowPnls, R) \in Int
      <4>1. SetTotal(RowPnls, ClosedRows) = RowPnls[t] + SetTotal(RowPnls, R)
        BY <1>2, <3>1, TotalRemoves
      <4>2. IsFiniteSet(R) /\ \A u \in R : RowPnls[u] \in Int
        BY <1>2, FS_Subset
      <4>3. SetTotal(RowPnls, R) \in Int
        <5> HIDE DEF R
        <5> QED
          BY <4>2, TotalRemoves
      <4> QED
        BY <3>4, <4>1, <4>3
    <3>7. Phantoms'[n + 1] = t.phantom /\ n + 1 \notin P /\ P' = P \cup {n + 1} /\ C' = C
      <4>1. P' = P \cup {n + 1} /\ C' = C /\ n + 1 \notin P
        BY <1>1, <2>2
      <4> QED
        BY <1>1, <4>1 DEF Phantoms
    <3> HIDE DEF C, P, t, R
    <3>8. SetTotal(Phantoms', P') = t.phantom + SetTotal(Phantoms, P)
      <4>1. SetTotal(Phantoms', P \cup {n + 1}) = Phantoms'[n + 1] + SetTotal(Phantoms', P)
        BY <1>1, <1>4, <3>4, <3>7, TotalAdds
      <4> QED
        BY <1>3, <3>7, <4>1
    <3>9. SetTotal(Pnls', C') = SetTotal(Pnls, C) /\ SetTotal(RowPnls', ClosedRows') = SetTotal(RowPnls, R)
      BY <1>3, <3>3, <3>5, <3>7
    <3> QED
      BY <1>4, <1>5, <1>6, <3>4, <3>6, <3>8, <3>9
  <2>3. CASE e.kind \notin {"closed", "reopened"}
    <3>1. \A u \in Tickets : LoggedClosed(u)' <=> LoggedClosed(u)
      BY <2>3, RowsGrow
    <3>2. ClosedRows' = ClosedRows /\ C' = C /\ P' = P
      BY <1>1, <1>2, <2>3, <3>1
    <3>3. SetTotal(RowPnls', ClosedRows) = SetTotal(RowPnls, ClosedRows)
      BY <2>3, RowPnlsKept
    <3> HIDE DEF C, P
    <3> QED
      BY <1>3, <1>5, <3>2, <3>3
  <2> QED
    BY <2>1, <2>2, <2>3
<1> QED
  BY <1>7 DEF DailyExplained

LEMMA WeekInvHolds == WeekSpec => []WeekInv
<1>1. WeekInit => WeekInv
  <2> SUFFICES ASSUME WeekInit PROVE WeekInv
    OBVIOUS
  <2>1. history = <<>> /\ Times = {} /\ \A kind : Events(kind) = {}
    BY DEF WeekInit, Times, Events
  <2>2. WeekTypes
    <3>1. history \in Seq({})
      BY <2>1, EmptySeq
    <3> QED
      BY <2>1, <3>1 DEF WeekTypes
  <2>3. \A t : LinesOn(t) = {} /\ ~LoggedClosed(t)
    BY <2>1 DEF LinesOn, LoggedClosed
  <2>4. ClosedRows = {}
    BY <2>2, <2>3, ClosedRowsAre
  <2>5. DailyExplained
    <3>1. SetTotal(Pnls, {}) = 0 /\ SetTotal(RowPnls, {}) = 0 /\ SetTotal(Phantoms, {}) = 0
      BY TotalOfNone
    <3>2. Events("closed") = {} /\ Events("reopened") = {}
      BY <2>1
    <3>3. /\ SetTotal(Pnls, Events("closed")) = 0
          /\ SetTotal(RowPnls, ClosedRows) = 0
          /\ SetTotal(Phantoms, Events("reopened")) = 0
      BY <2>4, <3>1, <3>2
    <3> QED
      BY <3>3 DEF DailyExplained
  <2> QED
    BY <2>1, <2>2, <2>3, <2>5 DEF WeekInv, BookedOnce, BalancesTrue, PhantomsKnown, Heartbeats
<1>2. WeekInv /\ [WeekNext]_history => WeekInv'
  <2> SUFFICES ASSUME WeekInv, [WeekNext]_history PROVE WeekInv'
    OBVIOUS
  <2>1. CASE WeekNext
    <3>1. PICK e : EventTyped(e) /\ Happens(e) /\ Legal(e)
      BY <2>1, NextIsLegal DEF WeekInv
    <3>2. WeekTypes' /\ BookedOnce'
      BY <3>1, OneMoreEvent, BookedOnceKept DEF WeekInv
    <3>3. BalancesTrue' /\ PhantomsKnown' /\ DailyExplained'
      BY <3>1, BalancesKept, PhantomsKnownKept, DailyExplainedKept DEF WeekInv
    <3> QED
      BY <3>2, <3>3 DEF WeekInv
  <2>2. CASE UNCHANGED history
    <3>1. /\ history' = history /\ Times' = Times
          /\ \A kind : Events(kind)' = Events(kind)
          /\ \A t : IsBooked(t)' <=> IsBooked(t)
          /\ \A t : LinesOn(t)' = LinesOn(t)
      BY <2>2 DEF Times, Events, IsBooked, LinesOn, IsLine
    <3>2. \A t : Max(LinesOn(t))' = Max(LinesOn(t))
      BY <3>1 DEF Max
    <3>3. \A t : LoggedClosed(t)' <=> LoggedClosed(t)
      BY <3>1, <3>2 DEF LoggedClosed
    <3>4. \A t : Row(t)' = Row(t)
      BY <3>1 DEF Row, IsLine, RowAfter
    <3>5. ClosedRows' = ClosedRows /\ Pnls' = Pnls /\ Phantoms' = Phantoms /\ RowPnls' = RowPnls
      BY <3>1, <3>4 DEF ClosedRows, Pnls, Phantoms, RowPnls
    <3>6. WeekTypes' /\ BookedOnce'
      BY <3>1 DEF WeekInv, WeekTypes, EventTyped, BookedOnce
    <3>7. \A k : MovesBefore(k)' = MovesBefore(k)
      BY <3>1 DEF MovesBefore
    <3>8. BalancesTrue' /\ PhantomsKnown' /\ DailyExplained'
      BY <3>1, <3>2, <3>3, <3>5, <3>7 DEF WeekInv, BalancesTrue, PhantomsKnown, DailyExplained, Heartbeats
    <3> QED
      BY <3>6, <3>8 DEF WeekInv
  <2> QED
    BY <2>1, <2>2
<1> QED
  BY <1>1, <1>2, PTL DEF WeekSpec

-----------------------------------------------------------------------------
(* Once the logs are settled the rows are what was booked.                 *)
LEMMA SettledRows ==
  ASSUME WeekInv, LogsSettled
  PROVE  /\ \A t \in ClosedRows : /\ BookedAt(t) \in Events("booked") /\ history[BookedAt(t)].ticket = t
                                  /\ Pnls[BookedAt(t)] = RowPnls[t] /\ IsBooked(t)
         /\ \A b \in Events("booked") : history[b].ticket \in ClosedRows /\ BookedAt(history[b].ticket) = b
<1>1. /\ ClosedRows = {t \in Tickets : LoggedClosed(t)}
      /\ \A t \in ClosedRows : RowPnls[t] = Row(t).pnl /\ Row(t) = LastLine(t)
  BY ClosedRowsAre DEF WeekInv
<1>2. \A t : IsBooked(t) => BookedAt(t) \in Events("booked") /\ history[BookedAt(t)].ticket = t
  BY DEF IsBooked, BookedAt
<1>3. ASSUME NEW t \in ClosedRows
      PROVE  /\ BookedAt(t) \in Events("booked") /\ history[BookedAt(t)].ticket = t
             /\ Pnls[BookedAt(t)] = RowPnls[t] /\ IsBooked(t)
  <2>1. t \in Tickets /\ LoggedClosed(t)
    BY <1>1
  <2>2. IsBooked(t) /\ history[Max(LinesOn(t))].pnl = t.pnl
    BY <2>1 DEF LogsSettled
  <2>3. RowPnls[t] = t.pnl
    BY <1>1, <2>2 DEF LastLine
  <2> DEFINE b == BookedAt(t)
  <2>4. b \in Events("booked") /\ history[b].ticket = t
    BY <1>2, <2>2
  <2> HIDE DEF b
  <2>5. b \in Times /\ history[b].kind = "booked"
    BY <2>4 DEF Events
  <2>6. Pnls[b] = history[b].pnl /\ history[b].pnl = history[b].ticket.pnl
    BY <2>5, PnlsTyped DEF WeekInv, WeekTypes, EventTyped
  <2> QED
    BY <2>2, <2>3, <2>4, <2>6 DEF b
<1>4. ASSUME NEW b \in Events("booked")
      PROVE  history[b].ticket \in ClosedRows /\ BookedAt(history[b].ticket) = b
  <2> DEFINE t == history[b].ticket
  <2>1. t \in Tickets /\ IsBooked(t)
    BY DEF Events, WeekInv, WeekTypes, EventTyped, IsBooked
  <2>2. LoggedClosed(t)
    BY <2>1 DEF LogsSettled
  <2>3. BookedAt(t) \in Events("booked") /\ history[BookedAt(t)].ticket = t
    BY <1>2, <2>1
  <2>4. BookedAt(t) = b
    BY <2>3 DEF WeekInv, BookedOnce
  <2> QED
    BY <1>1, <2>1, <2>2, <2>4
<1> QED
  BY <1>3, <1>4

LEMMA RowsAreBooked ==
  ASSUME WeekInv, LogsSettled, NEW T \in SUBSET ClosedRows, NEW B \in SUBSET Events("booked"),
         \A t \in ClosedRows : t \in T <=> BookedAt(t) \in B
  PROVE  PnlIn(T) = SetTotal(Pnls, B)
<1> DEFINE h == [t \in Tickets |-> BookedAt(t)]
           Named == {h[t] : t \in T}
<1>1. IsFiniteSet(T) /\ T \in SUBSET Tickets /\ \A t \in ClosedRows : RowPnls[t] \in Int
  BY ClosedRowsAre, FS_Subset DEF WeekInv, ClosedRows
<1>2. \A t \in T : h[t] = BookedAt(t)
  BY <1>1
<1>3. Named = B
  <2>1. ASSUME NEW t \in T PROVE h[t] \in B
    BY <1>2
  <2>2. ASSUME NEW b \in B PROVE \E t \in T : h[t] = b
    <3>1. history[b].ticket \in ClosedRows /\ BookedAt(history[b].ticket) = b
      BY SettledRows
    <3>2. history[b].ticket \in T
      BY <3>1
    <3> QED
      BY <1>2, <3>1, <3>2
  <2> HIDE DEF h
  <2> QED
    BY <2>1, <2>2
<1>4. /\ \A t \in T : RowPnls[t] \in Int /\ Pnls[h[t]] = RowPnls[t]
      /\ \A t, u \in T : h[t] = h[u] => t = u
  <2>1. \A t \in T : RowPnls[t] \in Int /\ Pnls[h[t]] = RowPnls[t] /\ history[h[t]].ticket = t
    BY <1>1, <1>2, SettledRows
  <2> QED
    BY <2>1
<1> HIDE DEF h
<1>5. SetTotal(Pnls, Named) = SetTotal(RowPnls, T)
  BY <1>1, <1>4, TotalRenamed
<1>6. PnlIn(T) = SetTotal(RowPnls, T)
  BY <1>1, PnlInTotal
<1> QED
  BY <1>3, <1>5, <1>6

(* What the agents and a person made while two heartbeats went by.         *)
During(kind, i, j) == {k \in Events(kind) : k \in i..j}

LEMMA AgentPnlIs ==
  ASSUME WeekInv, LogsSettled, Prompt, NEW i \in Heartbeats, NEW j \in Heartbeats
  PROVE  AgentPnl(i, j) = SetTotal(Pnls, During("booked", i, j))
<1> DEFINE T == {t \in ClosedRows : Row(t).at \in i + 1..j}
           B == During("booked", i, j)
<1>1. i \in Nat /\ j \in Nat /\ history[i].kind = "heartbeat" /\ history[j].kind = "heartbeat"
  BY PnlsTyped DEF Heartbeats, Events, WeekInv
<1>2. ASSUME NEW t \in ClosedRows
      PROVE  t \in T <=> BookedAt(t) \in B
  <2> DEFINE r == Row(t).at
             b == BookedAt(t)
  <2>1. r = Max(LinesOn(t)) /\ r \in Nat /\ r # i /\ r # j
    <3>1. Row(t).at = Max(LinesOn(t)) /\ Row(t).at \in Times /\ history[Row(t).at].kind = "closed"
      BY ClosedRowsAre DEF WeekInv
    <3> QED
      BY <1>1, <3>1, PnlsTyped DEF WeekInv
  <2>2. b \in Events("booked") /\ b \in Nat /\ b # i /\ b # j /\ IsBooked(t) /\ t \in Tickets
    <3>1. b \in Events("booked") /\ IsBooked(t) /\ t \in Tickets
      BY SettledRows DEF ClosedRows
    <3> HIDE DEF b
    <3>2. b \in Times /\ history[b].kind = "booked"
      BY <3>1 DEF Events
    <3> QED
      BY <1>1, <3>1, <3>2, PnlsTyped DEF WeekInv
  <2>3. (i < b) = (i < Max(LinesOn(t))) /\ (j < b) = (j < Max(LinesOn(t)))
    BY <2>2 DEF Prompt
  <2>4. t \in T <=> r \in i + 1..j
    OBVIOUS
  <2>5. b \in B <=> b \in i..j
    BY <2>2 DEF During
  <2> HIDE DEF r, b, T, B
  <2>6. (i < b <=> i < r) /\ (j < b <=> j < r)
    BY <2>1, <2>3
  <2>7. r \in i + 1..j <=> b \in i..j
    BY <1>1, <2>1, <2>2, <2>6
  <2> QED
    BY <2>4, <2>5, <2>7 DEF b
<1>3. T \in SUBSET ClosedRows /\ B \in SUBSET Events("booked")
  BY DEF During
<1>4. AgentPnl(i, j) = PnlIn(T)
  BY DEF AgentPnl
<1> HIDE DEF T, B
<1>5. PnlIn(T) = SetTotal(Pnls, B)
  BY <1>2, <1>3, RowsAreBooked
<1> QED
  BY <1>4, <1>5 DEF B

LEMMA BalanceMoves ==
  ASSUME WeekInv, NEW i \in Heartbeats, NEW j \in Heartbeats, i <= j
  PROVE  /\ SetTotal(Pnls, During("booked", i, j)) \in Int
         /\ SetTotal(Pnls, During("manual", i, j)) \in Int
         /\ history[j].balance - history[i].balance =
              SetTotal(Pnls, During("booked", i, j)) + SetTotal(Pnls, During("manual", i, j))
<1> DEFINE M == Events("booked") \cup Events("manual")
           A == MovesBefore(i)
           B == During("booked", i, j)
           H == During("manual", i, j)
<1>1. /\ i \in Nat /\ j \in Nat /\ history[i].kind = "heartbeat" /\ history[j].kind = "heartbeat"
      /\ history[i].balance = SetTotal(Pnls, A) /\ history[j].balance = SetTotal(Pnls, MovesBefore(j))
  BY PnlsTyped DEF Heartbeats, Events, WeekInv, BalancesTrue
<1>2. /\ IsFiniteSet(M) /\ M \in SUBSET Nat /\ \A k \in M : Pnls[k] \in Int
      /\ \A k \in M : k # i /\ k # j
  <2>1. IsFiniteSet(M)
    BY PnlsTyped, FS_Union DEF WeekInv
  <2>2. \A k \in M : k \in Times /\ history[k].kind \in {"booked", "closed", "manual"} /\ history[k].kind # "heartbeat"
    BY DEF Events
  <2> QED
    BY <1>1, <2>1, <2>2, PnlsTyped DEF WeekInv
<1>3. /\ A \in SUBSET M /\ B \in SUBSET M /\ H \in SUBSET M
      /\ A \cap B = {} /\ (A \cup B) \cap H = {} /\ A \cup B \in SUBSET M
  <2>1. \A k \in A : k \in M /\ k < i
    BY DEF MovesBefore
  <2>2. \A k \in B \cup H : k \in M /\ k \in Nat /\ ~(k < i)
    BY <1>1, <1>2 DEF During
  <2>3. B \cap H = {}
    BY DEF During, Events
  <2> HIDE DEF A, B, H, M
  <2> QED
    BY <2>1, <2>2, <2>3
<1>4. MovesBefore(j) = (A \cup B) \cup H
  <2>1. ASSUME NEW k \in M PROVE k < j <=> k < i \/ k \in i..j
    BY <1>1, <1>2
  <2>2. \A k : k \in MovesBefore(j) <=> k \in M /\ k < j
    BY DEF MovesBefore
  <2>3. \A k : k \in A <=> k \in M /\ k < i
    BY DEF MovesBefore
  <2>4. \A k : k \in B \cup H <=> k \in M /\ k \in i..j
    BY DEF During
  <2> HIDE DEF A, B, H, M
  <2> QED
    BY <2>1, <2>2, <2>3, <2>4
<1> HIDE DEF A, B, H, M
<1>5. /\ SetTotal(Pnls, (A \cup B) \cup H) = SetTotal(Pnls, A \cup B) + SetTotal(Pnls, H)
      /\ SetTotal(Pnls, A \cup B) = SetTotal(Pnls, A) + SetTotal(Pnls, B)
  <2>1. ASSUME NEW X \in SUBSET M, NEW Y \in SUBSET M, X \cap Y = {}
        PROVE  SetTotal(Pnls, X \cup Y) = SetTotal(Pnls, X) + SetTotal(Pnls, Y)
    <3>1. IsFiniteSet(M) /\ \A k \in M : Pnls[k] \in Int
      BY <1>2
    <3> QED
      BY <2>1, <3>1, TotalOfBoth
  <2> QED
    BY <1>3, <2>1
<1>6. \A S \in SUBSET M : SetTotal(Pnls, S) \in Int
  <2> SUFFICES ASSUME NEW S \in SUBSET M PROVE SetTotal(Pnls, S) \in Int
    OBVIOUS
  <2>1. IsFiniteSet(S) /\ \A k \in S : Pnls[k] \in Int
    BY <1>2, FS_Subset
  <2> QED
    BY <2>1, TotalRemoves
<1>7. SetTotal(Pnls, A) \in Int /\ SetTotal(Pnls, B) \in Int /\ SetTotal(Pnls, H) \in Int
  BY <1>3, <1>6
<1>8. history[j].balance - history[i].balance = SetTotal(Pnls, B) + SetTotal(Pnls, H)
  BY <1>1, <1>4, <1>5, <1>7
<1> QED
  BY <1>7, <1>8 DEF B, H

LEMMA HandPnl ==
  ASSUME WeekInv, NEW i, NEW j
  PROVE  /\ During("manual", i, j) = {} => SetTotal(Pnls, During("manual", i, j)) = 0
         /\ \A m \in During("manual", i, j) : /\ SetTotal(Pnls, During("manual", i, j)) = history[m].pnl
                                              /\ history[m].pnl \in Int
<1> DEFINE H == During("manual", i, j)
<1>1. H = {} => SetTotal(Pnls, H) = 0
  BY TotalOfNone
<1>2. ASSUME NEW m \in H PROVE SetTotal(Pnls, H) = history[m].pnl /\ history[m].pnl \in Int
  <2>1. m \in Events("manual") /\ \A k \in H : k = m
    BY DEF During, WeekInv, BookedOnce
  <2>2. Pnls[m] = history[m].pnl /\ Pnls[m] \in Int
    BY <2>1, PnlsTyped DEF Events, WeekInv
  <2>3. H = {} \cup {m}
    BY <2>1
  <2> HIDE DEF H
  <2>4. SetTotal(Pnls, {}) = 0 /\ IsFiniteSet({})
    BY TotalOfNone, FS_EmptySet
  <2>5. SetTotal(Pnls, {} \cup {m}) = Pnls[m] + SetTotal(Pnls, {})
    BY <2>2, <2>4, TotalAdds
  <2> QED
    BY <2>2, <2>3, <2>4, <2>5
<1> QED
  BY <1>1, <1>2

(* A window shows what was traded by hand in it, unless the balance does   *)
(* not change.                                                             *)
LEMMA ResidualIs ==
  ASSUME WeekInv, LogsSettled, Prompt, NEW s, NEW gap \in Windows(s)
  PROVE  /\ gap = <<gap[1], gap[2]>> /\ gap[1] \in BeatsOf(s) /\ gap[2] \in BeatsOf(s)
         /\ gap[1] \in Nat /\ gap[2] \in Nat /\ gap[1] < gap[2]
         /\ Residual(gap) = IF history[gap[1]].balance = history[gap[2]].balance THEN 0
                            ELSE SetTotal(Pnls, During("manual", gap[1], gap[2]))
<1> DEFINE i == gap[1]
           j == gap[2]
<1>1. gap = <<i, j>> /\ i \in BeatsOf(s) /\ j \in BeatsOf(s) /\ i < j
  BY DEF Windows
<1>2. i \in Heartbeats /\ j \in Heartbeats
  BY <1>1 DEF BeatsOf
<1> HIDE DEF i, j
<1>3. i \in Nat /\ j \in Nat /\ history[i].balance \in Int /\ history[j].balance \in Int
  <2>1. \A k \in Heartbeats : k \in Times /\ history[k].balance \in Int
    BY DEF Heartbeats, Events, WeekInv, WeekTypes, EventTyped
  <2> QED
    BY <1>2, <2>1, PnlsTyped DEF WeekInv
<1>4. /\ SetTotal(Pnls, During("booked", i, j)) \in Int
      /\ SetTotal(Pnls, During("manual", i, j)) \in Int
      /\ history[j].balance - history[i].balance =
           SetTotal(Pnls, During("booked", i, j)) + SetTotal(Pnls, During("manual", i, j))
  BY <1>1, <1>2, <1>3, BalanceMoves
<1>5. AgentPnl(i, j) = SetTotal(Pnls, During("booked", i, j))
  BY <1>2, AgentPnlIs
<1>6. Residual(gap) = IF history[j].balance - history[i].balance = 0 THEN 0
                      ELSE history[j].balance - history[i].balance - AgentPnl(i, j)
  BY DEF Residual, i, j
<1>7. Residual(gap) = IF history[i].balance = history[j].balance THEN 0
                      ELSE SetTotal(Pnls, During("manual", i, j))
  BY <1>3, <1>4, <1>5, <1>6
<1> QED
  BY <1>1, <1>3, <1>7 DEF i, j

(* A window is unexplained when a noticeable trade by hand lies in it, and *)
(* then by as much.                                                        *)
LEMMA RawIs ==
  ASSUME WeekInv, LogsSettled, Prompt
  PROVE  /\ \A gap \in Raw :
              /\ gap[1] \in Nat /\ gap[2] \in Nat /\ gap[1] < gap[2]
              /\ gap \in Windows(history[gap[1]].symbol) /\ gap[1] \in Heartbeats
              /\ \E m \in Events("manual") : /\ m \in gap[1]..gap[2] /\ Noticeable(m)
                                             /\ Residual(gap) = history[m].pnl
         /\ \A m \in Events("manual") : Noticeable(m) => Raw # {}
<1>1. Abs(0) = 0 /\ Tolerance \in Nat
  BY WeekAssumption DEF Abs
<1>2. ASSUME NEW gap \in Raw
      PROVE  /\ gap[1] \in Nat /\ gap[2] \in Nat /\ gap[1] < gap[2]
             /\ gap \in Windows(history[gap[1]].symbol) /\ gap[1] \in Heartbeats
             /\ \E m \in Events("manual") : /\ m \in gap[1]..gap[2] /\ Noticeable(m)
                                            /\ Residual(gap) = history[m].pnl
  <2>1. PICK s \in Traders : gap \in Windows(s)
    BY DEF Raw
  <2>2. /\ gap[1] \in BeatsOf(s) /\ gap[1] \in Nat /\ gap[2] \in Nat /\ gap[1] < gap[2]
        /\ Residual(gap) = IF history[gap[1]].balance = history[gap[2]].balance THEN 0
                           ELSE SetTotal(Pnls, During("manual", gap[1], gap[2]))
    BY <2>1, ResidualIs
  <2>3. history[gap[1]].symbol = s /\ gap[1] \in Heartbeats
    BY <2>2 DEF BeatsOf
  <2>4. Abs(Residual(gap)) > Tolerance
    BY DEF Raw
  <2>5. Residual(gap) # 0
    <3> SUFFICES ASSUME Residual(gap) = 0 PROVE FALSE
      OBVIOUS
    <3>1. Abs(Residual(gap)) = 0
      BY <1>1
    <3>2. ~(0 > Tolerance)
      BY <1>1
    <3> QED
      BY <2>4, <3>1, <3>2
  <2>6. /\ history[gap[1]].balance # history[gap[2]].balance
        /\ Residual(gap) = SetTotal(Pnls, During("manual", gap[1], gap[2]))
    BY <2>2, <2>5
  <2>7. PICK m : m \in During("manual", gap[1], gap[2])
    BY <2>5, <2>6, HandPnl
  <2>8. m \in Events("manual") /\ m \in gap[1]..gap[2] /\ Residual(gap) = history[m].pnl
    BY <2>6, <2>7, HandPnl DEF During
  <2>9. Noticeable(m)
    BY <2>1, <2>4, <2>6, <2>8 DEF Noticeable
  <2> QED
    BY <2>1, <2>2, <2>3, <2>8, <2>9
<1>3. ASSUME NEW m \in Events("manual"), Noticeable(m)
      PROVE  Raw # {}
  <2>0. PICK s \in Traders : \E gap \in Windows(s) :
          m \in gap[1]..gap[2] /\ history[gap[1]].balance # history[gap[2]].balance
    BY <1>3 DEF Noticeable
  <2>1. PICK gap \in Windows(s) :
          m \in gap[1]..gap[2] /\ history[gap[1]].balance # history[gap[2]].balance
    BY <2>0
  <2>2. Residual(gap) = SetTotal(Pnls, During("manual", gap[1], gap[2]))
    BY <2>1, ResidualIs
  <2>3. m \in During("manual", gap[1], gap[2])
    BY <2>1 DEF During
  <2>4. Residual(gap) = history[m].pnl
    BY <2>2, <2>3, HandPnl
  <2>5. Abs(Residual(gap)) > Tolerance
    BY <1>3, <2>4 DEF Noticeable
  <2> QED
    BY <2>1, <2>5 DEF Raw
<1> QED
  BY <1>2, <1>3

Earlier == {p \in Raw \X Raw : p[1][1] < p[2][1]}

LEMMA RawInOrder ==
  ASSUME WeekInv, LogsSettled, Prompt
  PROVE  /\ IsFiniteSet(Raw) /\ Cardinality(Raw) \in Nat
         /\ \A n \in 1..Cardinality(Raw) : InOrder[n] \in Raw
         /\ InOrder \in Seq(Raw) /\ Len(InOrder) = Cardinality(Raw)
<1>1. IsFiniteSet(Raw)
  <2>1. \A gap \in Raw : gap \in Times \X Times
    BY DEF Raw, Windows, BeatsOf, Heartbeats, Events
  <2>2. IsFiniteSet(Times \X Times)
    BY PnlsTyped, FS_Product DEF WeekInv
  <2> QED
    BY <2>1, <2>2, FS_Subset
<1>2. ASSUME NEW a \in Raw, NEW b \in Raw, a[1] = b[1]
      PROVE  a = b
  <2> DEFINE s == history[a[1]].symbol
  <2>1. a \in Windows(s) /\ b \in Windows(s)
    BY <1>2, RawIs
  <2> HIDE DEF s
  <2>2. /\ a = <<a[1], a[2]>> /\ b = <<b[1], b[2]>>
        /\ a[2] \in BeatsOf(s) /\ b[2] \in BeatsOf(s)
        /\ a[1] \in Nat /\ a[2] \in Nat /\ a[1] < a[2] /\ b[2] \in Nat /\ b[1] < b[2]
    BY <2>1, ResidualIs
  <2>3. b[2] \notin a[1] + 1..a[2] - 1 /\ a[2] \notin b[1] + 1..b[2] - 1
    BY <2>1, <2>2 DEF Windows
  <2>4. a[2] = b[2]
    <3> DEFINE i == a[1]  j == a[2]  k == b[2]
    <3>1. i \in Nat /\ j \in Nat /\ k \in Nat /\ i < j /\ i < k /\ k \notin i + 1..j - 1 /\ j \notin i + 1..k - 1
      BY <1>2, <2>2, <2>3
    <3> HIDE DEF i, j, k
    <3>2. j = k
      BY <3>1
    <3> QED
      BY <3>2 DEF j, k
  <2> QED
    BY <1>2, <2>2, <2>4
<1>3. \A a, b \in Raw : <<a, b>> \in Earlier <=> a[1] < b[1]
  BY DEF Earlier
<1>4. \A a \in Raw : a[1] \in Nat
  BY RawIs
<1>5. OrderedBy(Raw, Earlier)
  <2>1. \A a \in Raw : ~(<<a, a>> \in Earlier)
    BY <1>3, <1>4
  <2>2. \A a, b, c \in Raw : <<a, b>> \in Earlier /\ <<b, c>> \in Earlier => <<a, c>> \in Earlier
    BY <1>3, <1>4
  <2>3. ASSUME NEW a \in Raw, NEW b \in Raw
        PROVE  a = b \/ <<a, b>> \in Earlier \/ <<b, a>> \in Earlier
    <3>1. a[1] < b[1] \/ b[1] < a[1] \/ a[1] = b[1]
      BY <1>4
    <3>2. a[1] = b[1] => a = b
      BY <1>2
    <3> QED
      BY <1>3, <3>1, <3>2
  <2> QED
    BY <2>1, <2>2, <2>3 DEF OrderedBy
<1>6. Cardinality(Raw) \in Nat
  BY <1>1, FS_CardinalityType
<1>7. ASSUME NEW n \in 1..Cardinality(Raw)
      PROVE  InOrder[n] \in Raw
  <2>1. PICK c \in Raw : PlacesBefore(Raw, Earlier, c) = n - 1
    BY <1>1, <1>5, PlacesTaken
  <2>2. {b \in Raw : <<b, c>> \in Earlier} = {g \in Raw : g[1] < c[1]}
    BY <1>3
  <2>3. Cardinality({g \in Raw : g[1] < c[1]}) = n - 1
    BY <2>1, <2>2 DEF PlacesBefore
  <2> QED
    BY <2>3 DEF InOrder
<1>8. InOrder \in Seq(Raw) /\ Len(InOrder) = Cardinality(Raw)
  <2> DEFINE n == Cardinality(Raw)
  <2>1. InOrder \in [1..n -> Raw]
    BY <1>7 DEF InOrder
  <2> HIDE DEF n
  <2>2. n \in Nat
    BY <1>6 DEF n
  <2>3. InOrder \in Seq(Raw) /\ Len(InOrder) = n
    BY <2>1, <2>2
  <2> QED
    BY <2>3 DEF n
<1> QED
  BY <1>1, <1>6, <1>7, <1>8

(* The merging keeps one of the windows it is given, all of one move.      *)
MovesOver(g, n) ==
  g = [k \in 0..n |-> IF k = 0 THEN <<>> ELSE Merged(g[k - 1], InOrder[k])]

LEMMA MovesExist ==
  \A n \in Nat : \E g : MovesOver(g, n)
<1> DEFINE G == {n \in Nat : \E g : MovesOver(g, n)}
           next(g, k) == Merged(g[k - 1], InOrder[k])
<1>0. \A g, n : MovesOver(g, n) <=> g = [k \in 0..n |-> IF k = 0 THEN <<>> ELSE next(g, k)]
  BY DEF MovesOver
<1>1. 0 \in G
  <2> HIDE DEF next
  <2> DEFINE g == [k \in 0..0 |-> <<>>]
  <2>1. g = [k \in 0..0 |-> IF k = 0 THEN <<>> ELSE next(g, k)]
    OBVIOUS
  <2> QED
    BY <1>0, <2>1
<1>2. ASSUME NEW n \in Nat, n \in G PROVE n + 1 \in G
  <2>1. PICK g : MovesOver(g, n)
    BY <1>2
  <2> DEFINE last == Merged(g[n], InOrder[n + 1])
             h == [k \in 0..n + 1 |-> IF k = n + 1 THEN last ELSE g[k]]
  <2>2. \A k \in 0..n : g[k] = IF k = 0 THEN <<>> ELSE next(g, k)
    <3> HIDE DEF next
    <3> QED
      BY <1>0, <2>1
  <2>3. /\ h[n + 1] = last
        /\ \A k \in 0..n : h[k] = g[k]
    <3> HIDE DEF last
    <3> QED
      OBVIOUS
  <2>4. h = [k \in 0..n + 1 |-> h[k]]
    <3> HIDE DEF last
    <3> QED
      OBVIOUS
  <2> HIDE DEF h
  <2>5. ASSUME NEW k \in 0..n + 1
        PROVE  h[k] = IF k = 0 THEN <<>> ELSE next(h, k)
    <3>1. CASE k = n + 1
      <4>1. k # 0 /\ k - 1 = n /\ n \in 0..n
        BY <3>1
      <4>2. h[k - 1] = g[n]
        BY <2>3, <4>1
      <4>3. next(h, k) = last
        BY <3>1, <4>2
      <4> HIDE DEF next, last
      <4> QED
        BY <2>3, <3>1, <4>1, <4>3
    <3>2. CASE k # n + 1
      <4>1. k \in 0..n /\ (k # 0 => k - 1 \in 0..n)
        BY <3>2
      <4>2. h[k] = g[k] /\ (k # 0 => h[k - 1] = g[k - 1])
        BY <2>3, <4>1
      <4>3. k # 0 => next(h, k) = next(g, k)
        BY <4>2
      <4> HIDE DEF next, last
      <4> QED
        BY <2>2, <4>1, <4>2, <4>3
    <3> QED
      BY <3>1, <3>2
  <2>6. MovesOver(h, n + 1)
    <3> HIDE DEF next
    <3>1. h = [k \in 0..n + 1 |-> IF k = 0 THEN <<>> ELSE next(h, k)]
      BY <2>4, <2>5
    <3> QED
      BY <1>0, <3>1
  <2> QED
    BY <2>6
<1> HIDE DEF G
<1>3. \A n \in Nat : n \in G
  BY <1>1, <1>2, ByNumbers
<1> QED
  BY <1>3 DEF G

LEMMA OneSeen ==
  ASSUME WeekInv, LogsSettled, Prompt
  PROVE  /\ Raw = {} => Moves = <<>>
         /\ Raw # {} => \E gap \in Raw : Moves = <<gap>>
<1> DEFINE n == Len(InOrder)
           g == CHOOSE moves : MovesOver(moves, n)
           G == {k \in Nat : k \in 1..n => \E gap \in Raw : g[k] = <<gap>>}
<1>1. n \in Nat /\ n = Cardinality(Raw) /\ \A k \in 1..n : InOrder[k] \in Raw
  BY RawInOrder
<1>2. MovesOver(g, n)
  BY <1>1, MovesExist
<1>3. Moves = g[n]
  BY DEF Moves, MovesOver
<1>4. \A k \in 0..n : g[k] = IF k = 0 THEN <<>> ELSE Merged(g[k - 1], InOrder[k])
  BY <1>2 DEF MovesOver
<1> HIDE DEF n, g
<1>5. \A a, b \in Raw : SameMove(a, b)
  <2> SUFFICES ASSUME NEW a \in Raw, NEW b \in Raw PROVE SameMove(a, b)
    OBVIOUS
  <2>1. PICK m \in Events("manual") : Residual(a) = history[m].pnl
    BY RawIs
  <2>2. Residual(b) = history[m].pnl
    <3>1. PICK k \in Events("manual") : Residual(b) = history[k].pnl
      BY RawIs
    <3> QED
      BY <3>1 DEF WeekInv, BookedOnce
  <2>3. history[m].pnl \in Int
    BY DEF Events, WeekInv, WeekTypes, EventTyped
  <2>4. Residual(a) - Residual(b) = 0
    BY <2>1, <2>2, <2>3
  <2> QED
    BY <2>4, WeekAssumption DEF SameMove, Abs
<1>6. ASSUME NEW gap \in Raw
      PROVE  Merged(<<>>, gap) = <<gap>>
  <2>1. {i \in DOMAIN <<>> : SameMove(<<>>[i], gap)} = {}
    OBVIOUS
  <2>2. Append(<<>>, gap) = <<gap>>
    OBVIOUS
  <2> QED
    BY <2>1, <2>2 DEF Merged
<1>7. ASSUME NEW a \in Raw, NEW gap \in Raw
      PROVE  Merged(<<a>>, gap) \in {<<a>>, <<gap>>}
  <2>1. {i \in DOMAIN <<a>> : SameMove(<<a>>[i], gap)} = {1}
    BY <1>5
  <2>2. Min({1}) = 1
    BY LeastOf
  <2>3. [<<a>> EXCEPT ![1] = gap] = <<gap>>
    OBVIOUS
  <2> QED
    BY <2>1, <2>2, <2>3 DEF Merged
<1>8. 0 \in G
  OBVIOUS
<1>9. ASSUME NEW k \in Nat, k \in G PROVE k + 1 \in G
  <2> SUFFICES ASSUME k + 1 \in 1..n PROVE \E gap \in Raw : g[k + 1] = <<gap>>
    OBVIOUS
  <2>1. g[k + 1] = Merged(g[k], InOrder[k + 1]) /\ InOrder[k + 1] \in Raw
    <3>1. k + 1 \in 0..n /\ k + 1 # 0 /\ (k + 1) - 1 = k
      BY <1>1
    <3> QED
      BY <1>1, <1>4, <3>1
  <2>2. CASE k = 0
    <3>1. g[k] = <<>>
      BY <1>1, <1>4, <2>2
    <3> QED
      BY <1>6, <2>1, <3>1
  <2>3. CASE k # 0
    <3>1. k \in 1..n
      BY <1>1, <2>3
    <3>2. PICK a \in Raw : g[k] = <<a>>
      BY <1>9, <3>1
    <3>3. g[k + 1] = <<a>> \/ g[k + 1] = <<InOrder[k + 1]>>
      BY <1>7, <2>1, <3>2
    <3> QED
      BY <2>1, <3>3
  <2> QED
    BY <2>2, <2>3
<1>10. n \in G
  <2> HIDE DEF G
  <2>1. \A k \in Nat : k \in G
    BY <1>8, <1>9, ByNumbers
  <2> QED
    BY <1>1, <2>1
<1>11. CASE Raw = {}
  <2>1. n = 0
    BY <1>1, <1>11, FS_EmptySet
  <2> QED
    BY <1>3, <1>4, <1>11, <2>1
<1>12. CASE Raw # {}
  <2>1. n # 0
    BY <1>1, <1>12, RawInOrder, FS_EmptySet
  <2>2. n \in 1..n
    BY <1>1, <2>1
  <2> QED
    BY <1>3, <1>10, <1>12, <2>2
<1> QED
  BY <1>11, <1>12

LEMMA FlaggedOne ==
  ASSUME NEW gap, Moves = <<gap>>, LateMatches(gap) = {}
  PROVE  gap \in Range(Flagged)
<1> DEFINE none == [moves |-> <<>>, consumed |-> {}]
           Solved(g) == g = [n \in 0..1 |-> IF n = 0 THEN none ELSE Checked(g[n - 1], <<gap>>[n])]
           done == CHOOSE g : Solved(g)
<1>1. Len(<<gap>>) = 1
  OBVIOUS
<1>2. Flagged = done[1].moves
  BY <1>1 DEF Flagged
<1>3. Checked(none, gap).moves = <<gap>>
  <2>1. LateMatches(gap) \ none.consumed = {}
    OBVIOUS
  <2>2. Append(<<>>, gap) = <<gap>>
    OBVIOUS
  <2> QED
    BY <2>1, <2>2 DEF Checked
<1>4. \E g : Solved(g)
  <2> DEFINE last == Checked(none, gap)
             g == [n \in 0..1 |-> IF n = 0 THEN none ELSE last]
  <2> HIDE DEF none
  <2>1. \A n \in 0..1 : n # 0 => n = 1 /\ n - 1 = 0 /\ <<gap>>[n] = gap
    OBVIOUS
  <2>2. g[0] = none
    OBVIOUS
  <2>3. \A n \in 0..1 : n # 0 => last = Checked(g[n - 1], <<gap>>[n])
    BY <2>1, <2>2
  <2>4. Solved(g)
    <3> HIDE DEF last
    <3> QED
      BY <2>3
  <2> QED
    BY <2>4
<1>5. Solved(done)
  BY <1>4
<1> HIDE DEF done, none
<1>6. done[0] = none /\ done[1] = Checked(done[0], <<gap>>[1])
  BY <1>5
<1>7. done[1] = Checked(none, gap)
  BY <1>6
<1>8. Flagged = <<gap>>
  BY <1>2, <1>3, <1>7 DEF none
<1> QED
  BY <1>8 DEF Range

(* The first and the last heartbeat: what the account view compares.       *)
LEMMA ExternalIs ==
  ASSUME WeekInv, LogsSettled, Prompt, Heartbeats # {}
  PROVE  ExternalPnl = PnlOf(Events("manual") \cap Min(Heartbeats)..Max(Heartbeats))
<1> DEFINE i == Min(Heartbeats)
           j == Max(Heartbeats)
<1>1. i \in Heartbeats /\ j \in Heartbeats /\ i <= j
  <2>1. Len(history) \in Nat /\ Heartbeats \in SUBSET (1..Len(history)) /\ Heartbeats \in SUBSET Nat
    BY DEF Heartbeats, Events, Times, WeekInv, WeekTypes
  <2>2. Min(Heartbeats) \in Heartbeats /\ \A k \in Heartbeats : Min(Heartbeats) <= k
    BY <2>1, LeastOf
  <2>3. Max(Heartbeats) \in Heartbeats
    BY <2>1, GreatestNumber
  <2> QED
    BY <2>2, <2>3
<1>2. ExternalPnl = history[j].balance - history[i].balance - AgentPnl(i, j)
  BY DEF ExternalPnl
<1> HIDE DEF i, j
<1>3. /\ SetTotal(Pnls, During("booked", i, j)) \in Int
      /\ SetTotal(Pnls, During("manual", i, j)) \in Int
      /\ history[j].balance - history[i].balance =
           SetTotal(Pnls, During("booked", i, j)) + SetTotal(Pnls, During("manual", i, j))
  BY <1>1, BalanceMoves
<1>4. AgentPnl(i, j) = SetTotal(Pnls, During("booked", i, j))
  BY <1>1, AgentPnlIs
<1>5. ExternalPnl = SetTotal(Pnls, During("manual", i, j))
  BY <1>2, <1>3, <1>4
<1>6. Events("manual") \cap i..j = During("manual", i, j) /\ During("manual", i, j) \in SUBSET Times
  BY DEF During, Events
<1> QED
  BY <1>5, <1>6, PnlOfTotal DEF i, j

LEMMA WeekShown ==
  ASSUME WeekInv
  PROVE  ManualMovesFound
<1>1. DailyPnl - WeeklyPnl = MapThenSumSet(LAMBDA i : history[i].ticket.phantom, Events("reopened"))
  <2>1. DailyPnl = SetTotal(Pnls, Events("closed"))
    BY PnlOfTotal DEF DailyPnl, Events
  <2>2. WeeklyPnl = SetTotal(RowPnls, ClosedRows)
    BY PnlInTotal DEF WeeklyPnl, ClosedRows
  <2> QED
    BY <2>1, <2>2, PhantomsTotal DEF WeekInv, DailyExplained
<1>2. ASSUME LogsSettled PROVE WeeklyPnl = PnlOf(Events("booked"))
  <2>1. \A t \in ClosedRows : BookedAt(t) \in Events("booked")
    BY <1>2, SettledRows
  <2>2. PnlIn(ClosedRows) = SetTotal(Pnls, Events("booked"))
    BY <1>2, <2>1, RowsAreBooked
  <2>3. PnlOf(Events("booked")) = SetTotal(Pnls, Events("booked"))
    BY PnlOfTotal DEF Events
  <2> QED
    BY <2>2, <2>3 DEF WeeklyPnl
<1>3. ASSUME LogsSettled, Prompt
      PROVE  LET seen == {i \in Events("manual") : Noticeable(i)}
             IN  /\ Len(Moves) = Cardinality(seen)
                 /\ \A i \in seen : \E gap \in Range(Moves) :
                      /\ i \in gap[1]..gap[2] /\ Residual(gap) = history[i].pnl
                      /\ LateMatches(gap) = {} => gap \in Range(Flagged)
                 /\ Heartbeats # {} =>
                      ExternalPnl = PnlOf(Events("manual") \cap Min(Heartbeats)..Max(Heartbeats))
  <2> DEFINE seen == {i \in Events("manual") : Noticeable(i)}
  <2>1. \A i \in seen, k \in seen : i = k
    BY DEF WeekInv, BookedOnce
  <2>2. CASE Raw = {}
    <3>1. seen = {}
      BY <1>3, <2>2, RawIs
    <3>2. Moves = <<>> /\ Len(Moves) = 0 /\ Cardinality({}) = 0
      BY <1>3, <2>2, OneSeen, FS_EmptySet
    <3> QED
      BY <1>3, <3>1, <3>2, ExternalIs
  <2>3. CASE Raw # {}
    <3>1. PICK gap \in Raw : Moves = <<gap>>
      BY <1>3, <2>3, OneSeen
    <3>2. PICK m \in Events("manual") : /\ m \in gap[1]..gap[2] /\ Noticeable(m)
                                        /\ Residual(gap) = history[m].pnl
      BY <1>3, RawIs
    <3>3. seen = {m}
      BY <2>1, <3>2
    <3>4. Len(Moves) = 1 /\ Cardinality({m}) = 1
      BY <3>1, FS_Singleton
    <3>5. gap \in Range(Moves)
      BY <3>1 DEF Range
    <3>6. LateMatches(gap) = {} => gap \in Range(Flagged)
      BY <3>1, FlaggedOne
    <3>7. \A i \in seen : i = m
      BY <3>3
    <3>8. Heartbeats # {} =>
            ExternalPnl = PnlOf(Events("manual") \cap Min(Heartbeats)..Max(Heartbeats))
      BY <1>3, ExternalIs
    <3> QED
      BY <3>2, <3>3, <3>4, <3>5, <3>6, <3>7, <3>8
  <2> QED
    BY <2>2, <2>3
<1> QED
  BY <1>1, <1>2, <1>3 DEF ManualMovesFound

(* The weekly report is right: what the daily summaries add to its P&L are *)
(* the phantoms that were reopened; once the logs are settled its P&L is   *)
(* what the broker booked; and when each close was logged promptly a       *)
(* noticeable trade by hand is found as one move, whoever saw it, with its *)
(* amount, and nothing else is.                                            *)
THEOREM WeekIsTrue == WeekSpec => []ManualMovesFound
<1>1. WeekInv => ManualMovesFound
  BY WeekShown
<1> QED
  BY <1>1, WeekInvHolds, PTL
=============================================================================
