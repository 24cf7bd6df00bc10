----------------------------- MODULE ProRataProofs -----------------------------
(****************************************************************************)
(* What allocate_pro_rata promises, proved for every pot, every number of   *)
(* providers and every settled value.  First the arithmetic of one          *)
(* division (largest remainders), then the loop that drops who would get    *)
(* nothing and divides again.                                               *)
(****************************************************************************)
EXTENDS ProRataAllocation, SumTheorems, TLAPS

(* What a turn of the loop finds: somebody to pay, and all of them worked. *)
Division ==
    /\ weights \in [Providers -> Nat]
    /\ pot \in Nat
    /\ live \subseteq Providers
    /\ live # {}
    /\ \A a \in live : weights[a] > 0

(* The weight of all who take part, total_weight in the code. *)
Whole == Total(weights, live)

(* Whole parts and remainders as functions, to be summed. *)
Bases == [a \in Providers |-> Base(a)]

(* The part of the division that does not come out whole. *)
Remainders == [a \in Providers |-> Remainder(a)]

(* Those sorted before a. *)
Before(a) == {b \in live : \/ Remainder(b) > Remainder(a)
                           \/ Remainder(b) = Remainder(a) /\ b < a}

--------------------------------------------------------------------------------
(* Quotient and remainder of natural numbers. *)
LEMMA DivMod ==
    ASSUME NEW x \in Nat, NEW y \in Nat, y > 0
    PROVE  /\ x \div y \in Nat
           /\ x % y \in Nat
           /\ x % y < y
           /\ x = y * (x \div y) + (x % y)
  OBVIOUS

(* The larger number has the larger quotient. *)
LEMMA DivMonotone ==
    ASSUME NEW x \in Nat, NEW z \in Nat, NEW y \in Nat, y > 0, x <= z
    PROVE  x \div y <= z \div y
  OBVIOUS

(* The larger divisor has the smaller quotient. *)
LEMMA DivAntitone ==
    ASSUME NEW x \in Nat, NEW y \in Nat, NEW z \in Nat, y > 0, y <= z
    PROVE  x \div z <= x \div y
  OBVIOUS

(* Total is the sum whose laws SumTheorems has. *)
LEMMA TotalIsSum ==
    ASSUME NEW f, NEW S
    PROVE  Total(f, S) = SumFunctionOnSet(f, S)
  BY DEF Total, MapThenSumSet, SumFunctionOnSet, FoldFunctionOnSet, MapThenFoldSet

(* The sum in the code over the floor shares is the sum of their column. *)
LEMMA BaseSum ==
    ASSUME IsFiniteSet(live), live \subseteq Providers
    PROVE  MapThenSumSet(Base, live) = SumFunctionOnSet(Bases, live)
<1> DEFINE h == CHOOSE g : g = [s \in SUBSET live |->
                    IF s = {} THEN 0 ELSE Base(Pick(s)) + g[s \ {Pick(s)}]]
<1>1. MapThenSumSet(Base, live) = h[live]
  BY DEF MapThenSumSet, MapThenFoldSet, Pick
<1>2. PICK k : IsSum(k, Bases, live)
  BY SumExists
<1>3. ASSUME NEW g
      PROVE  IsSum(g, Bases, live)
                <=> g = [s \in SUBSET live |->
                    IF s = {} THEN 0 ELSE Base(Pick(s)) + g[s \ {Pick(s)}]]
  <2>1. ASSUME NEW s \in SUBSET live, s # {}
        PROVE  Bases[Pick(s)] = Base(Pick(s))
    BY <2>1, PickedFrom DEF Bases
  <2> QED BY <2>1 DEF IsSum
<1>4. IsSum(h, Bases, live)
  <2>1. \E g : g = [s \in SUBSET live |->
                    IF s = {} THEN 0 ELSE Base(Pick(s)) + g[s \ {Pick(s)}]]
    BY <1>2, <1>3
  <2>2. h = [s \in SUBSET live |->
                    IF s = {} THEN 0 ELSE Base(Pick(s)) + h[s \ {Pick(s)}]]
    BY <2>1
  <2> HIDE DEF h
  <2> QED BY <1>3, <2>2
<1> HIDE DEF h
<1> QED BY <1>1, <1>4, SumIsTable

(* Those who take part have a positive weight together. *)
LEMMA WholePositive ==
    ASSUME Division
    PROVE  /\ IsFiniteSet(live)
           /\ Whole \in Nat /\ Whole > 0
           /\ Whole = SumFunctionOnSet(weights, live)
<1>1. IsFiniteSet(live)
  BY AllocationAssumption, FS_Subset DEF Division
<1>2. Whole = SumFunctionOnSet(weights, live)
  BY TotalIsSum DEF Whole
<1>3. \A a \in live : weights[a] \in Nat
  BY DEF Division
<1>4. SumFunctionOnSet(weights, live) \in Nat
  BY <1>1, <1>3, SumNat
<1>5. PICK a \in live : weights[a] > 0
  BY DEF Division
<1>6. weights[a] <= SumFunctionOnSet(weights, live)
  BY <1>1, <1>3, SumBounds
<1>7. SumFunctionOnSet(weights, live) > 0
  BY <1>3, <1>4, <1>5, <1>6
<1> QED BY <1>1, <1>2, <1>4, <1>7

(* The exact share of a is its floor and a remainder. *)
LEMMA Parts ==
    ASSUME Division, NEW a \in Providers
    PROVE  /\ Base(a) \in Nat
           /\ Remainder(a) \in Nat
           /\ Remainder(a) < Whole
           /\ pot * weights[a] = Whole * Base(a) + Remainder(a)
<1>1. Whole \in Nat /\ Whole > 0
  BY WholePositive
<1>2. pot \in Nat /\ weights[a] \in Nat
  BY DEF Division
<1>3. pot * weights[a] \in Nat
  BY <1>2
<1> DEFINE x == pot * weights[a]
<1>4. Base(a) = x \div Whole /\ Remainder(a) = x % Whole
  BY DEF Base, Remainder, Whole
<1>5. x \in Nat
  BY <1>3
<1> HIDE DEF x
<1>6. /\ x \div Whole \in Nat
      /\ x % Whole \in Nat
      /\ x % Whole < Whole
      /\ x = Whole * (x \div Whole) + (x % Whole)
  BY <1>1, <1>5, DivMod
<1>7. x = Whole * Base(a) + Remainder(a)
  BY <1>4, <1>6
<1> QED BY <1>4, <1>6, <1>7 DEF x

(* The columns as functions. *)
LEMMA Columns ==
    ASSUME Division
    PROVE  \A a \in live : /\ Bases[a] = Base(a) /\ Bases[a] \in Nat
                           /\ Remainders[a] = Remainder(a)
                           /\ Remainders[a] \in Nat
<1>1. \A a \in live : a \in Providers
  BY DEF Division
<1> QED BY <1>1, Parts DEF Bases, Remainders

(* What the floors leave over is what the remainders make together. *)
LEMMA LeftoverSum ==
    ASSUME Division
    PROVE  /\ Leftover \in Int
           /\ Leftover = pot - SumFunctionOnSet(Bases, live)
           /\ Whole * Leftover = SumFunctionOnSet(Remainders, live)
<1> DEFINE SB == SumFunctionOnSet(Bases, live)
           SR == SumFunctionOnSet(Remainders, live)
           Exact == [a \in Providers |-> pot * weights[a]]
           Floors == [a \in Providers |-> Whole * Bases[a]]
<1>1. /\ IsFiniteSet(live) /\ live \subseteq Providers
      /\ Whole \in Int /\ pot \in Int
      /\ Whole = SumFunctionOnSet(weights, live)
  BY WholePositive DEF Division
<1>2. Leftover = pot - SB
  BY <1>1, BaseSum DEF Leftover
<1>3. SB \in Int /\ SR \in Int
  BY <1>1, Columns, SumInt
<1>4. SumFunctionOnSet(Exact, live) = pot * Whole
  <2>1. \A a \in live : weights[a] \in Int /\ Exact[a] = pot * weights[a]
    BY <1>1 DEF Division
  <2> HIDE DEF Exact
  <2>2. SumFunctionOnSet(Exact, live) = pot * SumFunctionOnSet(weights, live)
    BY <1>1, <2>1, SumScale
  <2> QED BY <2>2, <1>1
<1>5. SumFunctionOnSet(Floors, live) = Whole * SB
  <2>1. \A a \in live : Bases[a] \in Int /\ Floors[a] = Whole * Bases[a]
    BY <1>1, Columns
  <2> HIDE DEF Floors
  <2> QED BY <1>1, <2>1, SumScale
<1>6. SumFunctionOnSet(Exact, live) = SumFunctionOnSet(Floors, live) + SR
  <2>1. ASSUME NEW a \in live
        PROVE  /\ Floors[a] \in Int /\ Remainders[a] \in Int
               /\ Exact[a] = Floors[a] + Remainders[a]
    <3>1. a \in Providers
      BY <1>1
    <3>2. /\ Bases[a] = Base(a) /\ Base(a) \in Int
          /\ Remainders[a] = Remainder(a) /\ Remainder(a) \in Int
          /\ pot * weights[a] = Whole * Base(a) + Remainder(a)
      BY <3>1, Columns, Parts
    <3>3. Exact[a] = pot * weights[a] /\ Floors[a] = Whole * Bases[a]
      BY <3>1
    <3> HIDE DEF Exact, Floors
    <3>4. Floors[a] \in Int
      BY <1>1, <3>2, <3>3
    <3> QED BY <3>2, <3>3, <3>4
  <2> HIDE DEF Exact, Floors
  <2> QED BY <1>1, <2>1, SumPlus
<1> HIDE DEF SB, SR, Exact, Floors
<1>7. pot * Whole = Whole * SB + SR
  BY <1>4, <1>5, <1>6
<1>8. Whole * (pot - SB) = pot * Whole - Whole * SB
  BY <1>1, <1>3
<1>9. Whole * SB \in Int /\ pot * Whole \in Int
  BY <1>1, <1>3
<1>10. Whole * Leftover = SR
  BY <1>2, <1>3, <1>7, <1>8, <1>9
<1>11. Leftover \in Int
  BY <1>1, <1>2, <1>3
<1> QED BY <1>2, <1>10, <1>11 DEF SB, SR

(* Fewer units are left over than there are remainders. *)
LEMMA LeftoverBound ==
    ASSUME Division
    PROVE  /\ Leftover \in Nat
           /\ Leftover <= Cardinality({a \in live : Remainder(a) > 0})
<1> DEFINE P == {a \in live : Remainder(a) > 0}
           One == [a \in Providers |-> IF a \in P THEN 1 ELSE 0]
           Cap == [a \in Providers |-> (Whole - 1) * One[a]]
           SR == SumFunctionOnSet(Remainders, live)
           p == Cardinality(P)
           u == Whole - 1
<1>1. /\ IsFiniteSet(live) /\ live \subseteq Providers
      /\ Whole \in Nat /\ Whole > 0
  BY WholePositive DEF Division
<1>2. P \subseteq live /\ p \in Nat
  BY <1>1, FS_Subset, FS_CardinalityType
<1>3. SumFunctionOnSet(One, live) = p
  <2>1. \A a \in live : One[a] = IF a \in P THEN 1 ELSE 0
    BY <1>1
  <2>2. P \subseteq live
    OBVIOUS
  <2> HIDE DEF One, P
  <2> QED BY <1>1, <2>1, <2>2, SumCount
<1>4. SumFunctionOnSet(Cap, live) = u * SumFunctionOnSet(One, live)
  <2>1. \A a \in live : One[a] \in Int
    BY <1>1
  <2>2. \A a \in live : Cap[a] = u * One[a]
    BY <1>1
  <2>3. u \in Int
    BY <1>1
  <2> HIDE DEF One, Cap, u
  <2> QED BY <1>1, <2>1, <2>2, <2>3, SumScale
<1>5. SR <= SumFunctionOnSet(Cap, live)
  <2>1. ASSUME NEW a \in live
        PROVE  /\ Remainders[a] \in Int /\ Cap[a] \in Int
               /\ Remainders[a] <= Cap[a]
    <3>1. a \in Providers
      BY <1>1
    <3>2. /\ Remainders[a] = Remainder(a) /\ Remainder(a) \in Nat
          /\ Remainder(a) < Whole
      BY <3>1, Columns, Parts
    <3>3. Cap[a] = u * One[a] /\ One[a] = IF a \in P THEN 1 ELSE 0
      BY <3>1
    <3>4. u \in Int /\ u * 1 = u /\ u * 0 = 0
      BY <1>1
    <3>5. CASE a \in P
      <4>1. Cap[a] = u
        BY <3>3, <3>4, <3>5
      <4> HIDE DEF Cap, One, P
      <4> QED BY <1>1, <3>2, <4>1
    <3>6. CASE a \notin P
      <4>1. Cap[a] = 0
        BY <3>3, <3>4, <3>6
      <4>2. ~(Remainder(a) > 0)
        BY <3>6
      <4> HIDE DEF Cap, One, P
      <4> QED BY <3>2, <4>1, <4>2
    <3> QED BY <3>5, <3>6
  <2> HIDE DEF Cap
  <2> QED BY <1>1, <2>1, SumMonotone
<1>6. SR \in Nat
  BY <1>1, Columns, SumNat
<1>7. Leftover \in Int /\ Whole * Leftover = SR
  BY LeftoverSum
<1> HIDE DEF P, One, Cap, SR, p
<1>8. Whole * Leftover <= (Whole - 1) * p /\ Whole * Leftover >= 0
  BY <1>3, <1>4, <1>5, <1>6, <1>7
<1>9. Leftover >= 0
  BY <1>1, <1>7, <1>8
<1>10. Leftover <= p
  <2>1. SUFFICES ASSUME Leftover >= p + 1 PROVE FALSE
    BY <1>2, <1>7
  <2>2. Whole * Leftover >= Whole * (p + 1)
    BY <1>1, <1>2, <1>7, <2>1
  <2>3. Whole * (p + 1) = Whole * p + Whole /\ (Whole - 1) * p = Whole * p - p
    BY <1>1, <1>2
  <2>4. Whole * p \in Int /\ Whole * Leftover \in Int
    BY <1>1, <1>2, <1>7
  <2> QED BY <1>1, <1>2, <1>8, <2>2, <2>3, <2>4
<1> QED BY <1>7, <1>9, <1>10 DEF p, P

(* Who is sorted earlier has the smaller place. *)
LEMMA RankStep ==
    ASSUME Division, NEW a \in live, NEW b \in live, a \in Before(b)
    PROVE  Rank(a) < Rank(b)
<1>1. IsFiniteSet(live)
  BY WholePositive
<1>2. \A c \in live : c \in Nat /\ Remainder(c) \in Nat
  BY Parts, AllocationAssumption DEF Division
<1>3. Before(a) \subseteq Before(b) /\ a \notin Before(a)
  <2>1. ASSUME NEW c \in Before(a) PROVE c \in Before(b)
    BY <1>2, <2>1 DEF Before
  <2>2. a \notin Before(a)
    BY <1>2 DEF Before
  <2> QED BY <2>1, <2>2
<1>4. IsFiniteSet(Before(b))
  BY <1>1, FS_Subset DEF Before
<1>5. /\ Cardinality(Before(a)) <= Cardinality(Before(b))
      /\ Cardinality(Before(a)) # Cardinality(Before(b))
      /\ IsFiniteSet(Before(a))
  BY <1>3, <1>4, FS_Subset
<1>6. Cardinality(Before(a)) \in Nat /\ Cardinality(Before(b)) \in Nat
  BY <1>4, <1>5, FS_CardinalityType
<1>7. Rank(a) = Cardinality(Before(a)) /\ Rank(b) = Cardinality(Before(b))
  BY DEF Rank, Before
<1> QED BY <1>5, <1>6, <1>7

(* The places are 0, 1, ... and no two share one. *)
LEMMA RankInjective ==
    ASSUME Division
    PROVE  /\ \A a \in live : Rank(a) \in 0 .. Cardinality(live) - 1
           /\ \A a, b \in live : Rank(a) = Rank(b) => a = b
<1>1. IsFiniteSet(live)
  BY WholePositive
<1>2. \A c \in live : c \in Nat /\ Remainder(c) \in Nat
  BY Parts, AllocationAssumption DEF Division
<1>3. ASSUME NEW a \in live
      PROVE  Rank(a) \in 0 .. Cardinality(live) - 1
  <2>1. Before(a) \subseteq live /\ a \notin Before(a)
    BY <1>2 DEF Before
  <2>2. /\ Cardinality(Before(a)) <= Cardinality(live)
        /\ Cardinality(Before(a)) # Cardinality(live)
        /\ IsFiniteSet(Before(a))
    BY <1>1, <2>1, FS_Subset
  <2>3. Cardinality(Before(a)) \in Nat /\ Cardinality(live) \in Nat
    BY <1>1, <2>2, FS_CardinalityType
  <2>4. Rank(a) = Cardinality(Before(a))
    BY DEF Rank, Before
  <2> QED BY <2>2, <2>3, <2>4
<1>4. ASSUME NEW a \in live, NEW b \in live, a # b
      PROVE  Rank(a) # Rank(b)
  <2>1. a \in Before(b) \/ b \in Before(a)
    BY <1>2, <1>4 DEF Before
  <2>2. Rank(a) \in Int /\ Rank(b) \in Int
    BY <1>3
  <2> QED BY <2>1, <2>2, RankStep
<1> QED BY <1>3, <1>4

(* Handing out k units serves exactly k providers. *)
LEMMA Served ==
    ASSUME Division, NEW k \in 0 .. Cardinality(live)
    PROVE  Cardinality({a \in live : Rank(a) < k}) = k
<1> DEFINE n == Cardinality(live)
           R == [a \in live |-> Rank(a)]
           A == {a \in live : Rank(a) < k}
           Q == [a \in A |-> Rank(a)]
<1>1. IsFiniteSet(live) /\ n \in Nat
  BY WholePositive, FS_CardinalityType
<1>2. IsFiniteSet(0 .. n - 1) /\ Cardinality(0 .. n - 1) = n
  <2> HIDE DEF n
  <2>1. 0 \in Int /\ n - 1 \in Int
    BY <1>1
  <2>2. /\ IsFiniteSet(0 .. (n - 1))
        /\ Cardinality(0 .. (n - 1)) = IF 0 > n - 1 THEN 0 ELSE (n - 1) - 0 + 1
    BY <2>1, FS_Interval
  <2> QED BY <1>1, <2>2
<1>3. \A a \in live : Rank(a) \in 0 .. n - 1
  BY RankInjective
<1>4. \A a, b \in live : Rank(a) = Rank(b) => a = b
  BY RankInjective
<1>5. R \in Injection(live, 0 .. n - 1)
  <2> HIDE DEF n
  <2> QED BY <1>3, <1>4 DEF Injection, IsInjective
<1>6. R \in Surjection(live, 0 .. n - 1)
  <2> HIDE DEF R
  <2> QED BY <1>1, <1>2, <1>5, FS_Injection DEF n
<1>7. \A i \in 0 .. n - 1 : \E a \in live : Rank(a) = i
  BY <1>6 DEF Surjection
<1>8. Q \in Bijection(A, 0 .. k - 1)
  <2>1. \A a \in A : a \in live /\ Rank(a) \in 0 .. k - 1
    <3> HIDE DEF n
    <3> QED BY <1>1, <1>3
  <2>2. Q \in Injection(A, 0 .. k - 1)
    <3>1. \A a, b \in A : Q[a] = Q[b] => a = b
      BY <1>4
    <3>2. Q \in [A -> 0 .. k - 1]
      BY <2>1
    <3> HIDE DEF Q
    <3> QED BY <3>1, <3>2 DEF Injection, IsInjective
  <2>3. ASSUME NEW i \in 0 .. k - 1 PROVE \E a \in A : Q[a] = i
    <3>1. i \in 0 .. n - 1 /\ i < k
      BY <1>1
    <3>2. PICK a \in live : Rank(a) = i
      BY <1>7, <3>1
    <3>3. a \in A
      BY <3>1, <3>2
    <3> QED BY <3>2, <3>3
  <2>4. Q \in [A -> 0 .. k - 1]
    BY <2>1
  <2> HIDE DEF Q, A
  <2>5. Q \in Surjection(A, 0 .. k - 1)
    BY <2>3, <2>4 DEF Surjection
  <2> QED BY <2>2, <2>5 DEF Bijection
<1>9. IsFiniteSet(A)
  BY <1>1, FS_Subset
<1>10. Cardinality(0 .. k - 1) = Cardinality(A)
  <2>1. ExistsBijection(A, 0 .. k - 1)
    BY <1>8 DEF ExistsBijection
  <2> HIDE DEF A
  <2> QED BY <1>9, <2>1, FS_Bijection
<1>11. Cardinality(0 .. k - 1) = k
  <2>1. k \in Nat
    BY <1>1
  <2>2. 0 \in Int /\ k - 1 \in Int
    BY <2>1
  <2>3. Cardinality(0 .. (k - 1)) = IF 0 > k - 1 THEN 0 ELSE (k - 1) - 0 + 1
    BY <2>2, FS_Interval
  <2> QED BY <2>1, <2>3
<1> QED BY <1>10, <1>11

(* The shares of one division, as a column. *)
Shares == [a \in Providers |-> IF a \in live THEN Share(a) ELSE 0]

(* A division spends the pot: the floors and the units left over are all of *)
(* it.                                                                      *)
LEMMA SharesSum ==
    ASSUME Division
    PROVE  /\ \A a \in live : Shares[a] = Share(a) /\ Share(a) \in Nat
           /\ SumFunctionOnSet(Shares, live) = pot
<1> DEFINE A == {a \in live : Rank(a) < Leftover}
           One == [a \in Providers |-> IF a \in A THEN 1 ELSE 0]
           P == {a \in live : Remainder(a) > 0}
<1>1. /\ IsFiniteSet(live) /\ live \subseteq Providers /\ pot \in Nat
  BY WholePositive DEF Division
<1>2. Leftover \in 0 .. Cardinality(live)
  <2>1. Cardinality(P) <= Cardinality(live) /\ IsFiniteSet(P)
    BY <1>1, FS_Subset
  <2>2. Cardinality(P) \in Nat /\ Cardinality(live) \in Nat
    BY <1>1, <2>1, FS_CardinalityType
  <2>3. Leftover \in Nat /\ Leftover <= Cardinality(P)
    BY LeftoverBound
  <2> HIDE DEF P
  <2> QED BY <2>1, <2>2, <2>3
<1>3. Cardinality(A) = Leftover
  BY <1>2, Served
<1>4. SumFunctionOnSet(One, live) = Leftover
  <2>1. \A a \in live : One[a] = IF a \in A THEN 1 ELSE 0
    BY <1>1
  <2>2. A \subseteq live
    OBVIOUS
  <2> HIDE DEF One, A
  <2>3. SumFunctionOnSet(One, live) = Cardinality(A)
    BY <1>1, <2>1, <2>2, SumCount
  <2> QED BY <1>3, <2>3
<1>5. ASSUME NEW a \in live
      PROVE  /\ Bases[a] \in Int /\ One[a] \in Int
             /\ Shares[a] = Bases[a] + One[a]
             /\ Shares[a] = Share(a) /\ Share(a) \in Nat
  <2>1. a \in Providers /\ Bases[a] = Base(a) /\ Bases[a] \in Nat
    BY <1>1, Columns
  <2>2. Shares[a] = Share(a)
    BY <2>1 DEF Shares
  <2>3. CASE a \in A
    <3>1. One[a] = 1 /\ Share(a) = Base(a) + 1
      BY <2>1, <2>3 DEF Share
    <3> QED BY <2>1, <2>2, <3>1
  <2>4. CASE a \notin A
    <3>1. One[a] = 0 /\ Share(a) = Base(a) + 0
      BY <2>1, <2>4 DEF Share
    <3> QED BY <2>1, <2>2, <3>1
  <2> QED BY <2>3, <2>4
<1>6. SumFunctionOnSet(Shares, live)
        = SumFunctionOnSet(Bases, live) + SumFunctionOnSet(One, live)
  <2> HIDE DEF One
  <2> QED BY <1>1, <1>5, SumPlus
<1>7. Leftover = pot - SumFunctionOnSet(Bases, live)
  BY LeftoverSum
<1>8. SumFunctionOnSet(Bases, live) \in Int
  BY <1>1, <1>5, SumInt
<1>9. SumFunctionOnSet(Shares, live) = pot
  BY <1>1, <1>2, <1>4, <1>6, <1>7, <1>8
<1> QED BY <1>5, <1>9

(* A unit left over goes only to somebody whose floor lost something. *)
LEMMA ServedHasRemainder ==
    ASSUME Division, NEW a \in live, Rank(a) < Leftover
    PROVE  Remainder(a) > 0
<1> DEFINE P == {b \in live : Remainder(b) > 0}
<1>1. SUFFICES ASSUME ~(Remainder(a) > 0) PROVE FALSE
  OBVIOUS
<1>2. \A c \in live : c \in Nat /\ Remainder(c) \in Nat
  BY Parts, AllocationAssumption DEF Division
<1>3. P \subseteq Before(a)
  BY <1>1, <1>2 DEF Before
<1>4. IsFiniteSet(Before(a))
  BY WholePositive, FS_Subset DEF Before
<1>5. Cardinality(P) <= Cardinality(Before(a)) /\ IsFiniteSet(P)
  BY <1>3, <1>4, FS_Subset
<1>6. Cardinality(P) \in Nat /\ Cardinality(Before(a)) \in Nat
  BY <1>4, <1>5, FS_CardinalityType
<1>7. Leftover \in Nat /\ Leftover <= Cardinality(P)
  BY LeftoverBound
<1>8. Rank(a) = Cardinality(Before(a))
  BY DEF Rank, Before
<1> HIDE DEF P
<1> QED BY <1>5, <1>6, <1>7, <1>8

(* A share is the exact proportion to less than one unit. *)
LEMMA ShareExact ==
    ASSUME Division, NEW a \in live
    PROVE  /\ Share(a) * Whole < pot * weights[a] + Whole
           /\ pot * weights[a] < Share(a) * Whole + Whole
<1>1. a \in Providers /\ Whole \in Nat /\ Whole > 0
  BY WholePositive DEF Division
<1>2. /\ Base(a) \in Nat /\ Remainder(a) \in Nat /\ Remainder(a) < Whole
      /\ pot * weights[a] = Whole * Base(a) + Remainder(a)
  BY <1>1, Parts
<1> DEFINE x == Whole * Base(a)
<1>3. x \in Int
  BY <1>1, <1>2
<1>4. CASE Rank(a) < Leftover
  <2>1. Share(a) = Base(a) + 1 /\ Remainder(a) > 0
    BY <1>4, ServedHasRemainder DEF Share
  <2>2. Share(a) * Whole = x + Whole
    BY <1>1, <1>2, <2>1
  <2>3. pot * weights[a] = x + Remainder(a)
    BY <1>2
  <2> HIDE DEF x
  <2> QED BY <1>1, <1>2, <1>3, <2>1, <2>2, <2>3
<1>5. CASE ~(Rank(a) < Leftover)
  <2>1. Share(a) = Base(a)
    BY <1>2, <1>5 DEF Share
  <2>2. Share(a) * Whole = x
    BY <1>1, <1>2, <2>1
  <2>3. pot * weights[a] = x + Remainder(a)
    BY <1>2
  <2> HIDE DEF x
  <2> QED BY <1>1, <1>2, <1>3, <2>2, <2>3
<1> QED BY <1>4, <1>5

(* In one division, more settled value never earns less. *)
LEMMA ShareMonotone ==
    ASSUME Division, pot > 0, NEW a \in live, NEW b \in live,
           weights[a] > weights[b]
    PROVE  Share(a) >= Share(b)
<1>1. a \in Providers /\ b \in Providers /\ Whole \in Nat /\ Whole > 0
  BY WholePositive DEF Division
<1>2. pot \in Nat /\ weights[a] \in Nat /\ weights[b] \in Nat
  BY <1>1 DEF Division
<1>3. pot * weights[a] > pot * weights[b]
  BY <1>2
<1>4. pot * weights[a] \in Nat /\ pot * weights[b] \in Nat
  BY <1>2
<1>5. Base(a) >= Base(b)
  <2> DEFINE x == pot * weights[a]
             y == pot * weights[b]
  <2>1. Base(a) = x \div Whole /\ Base(b) = y \div Whole
    BY DEF Base, Whole
  <2>2. x \in Nat /\ y \in Nat /\ y <= x
    BY <1>3, <1>4
  <2> HIDE DEF x, y
  <2>3. y \div Whole <= x \div Whole
    BY <1>1, <2>2, DivMonotone
  <2>4. y \div Whole \in Nat /\ x \div Whole \in Nat
    BY <1>1, <2>2, DivMod
  <2> QED BY <2>1, <2>3, <2>4
<1>6. /\ Base(a) \in Nat /\ Base(b) \in Nat
      /\ Remainder(a) \in Nat /\ Remainder(b) \in Nat
      /\ pot * weights[a] = Whole * Base(a) + Remainder(a)
      /\ pot * weights[b] = Whole * Base(b) + Remainder(b)
  BY <1>1, Parts
<1>7. /\ Share(a) \in {Base(a), Base(a) + 1}
      /\ Share(b) \in {Base(b), Base(b) + 1}
  BY <1>6 DEF Share
<1>8. CASE Base(a) > Base(b)
  BY <1>6, <1>7, <1>8
<1>9. CASE Base(a) = Base(b)
  <2>1. Remainder(a) > Remainder(b)
    <3>1. Whole * Base(a) \in Int /\ Whole * Base(a) = Whole * Base(b)
      BY <1>1, <1>6, <1>9
    <3> QED BY <1>3, <1>4, <1>6, <3>1
  <2>2. a \in Before(b)
    BY <2>1 DEF Before
  <2>3. Rank(a) < Rank(b)
    BY <2>2, RankStep
  <2>4. Rank(a) \in Int /\ Rank(b) \in Int /\ Leftover \in Int
    BY RankInjective, LeftoverSum
  <2>5. Rank(b) < Leftover => Rank(a) < Leftover
    BY <2>3, <2>4
  <2>6. Share(b) = Base(b) + 1 => Share(a) = Base(a) + 1
    BY <1>6, <2>5 DEF Share
  <2> QED BY <1>6, <1>7, <1>9, <2>6
<1> QED BY <1>5, <1>6, <1>8, <1>9

--------------------------------------------------------------------------------
(* The loop.  Who works more than one who still takes part takes part too.  *)
Upward ==
    \A a \in Providers, b \in live : weights[a] > weights[b] => a \in live

(* Who was dropped had not earned one whole unit. *)
Dropped ==
    \A a \in Providers \ live :
        weights[a] > 0 => pot * weights[a] < Total(weights, Providers)

(* The result of the loop is the division among those who are left. *)
Result ==
    done => IF pot = 0 \/ live = {} THEN shares = Zero
            ELSE shares = Shares /\ \A a \in live : Share(a) > 0

(* What holds before and after every turn of the loop. *)
LoopInv ==
    /\ weights \in [Providers -> Nat]
    /\ pot \in Nat
    /\ live \subseteq Providers
    /\ \A a \in live : weights[a] > 0
    /\ live = {} => \A a \in Providers : weights[a] = 0
    /\ ~done => live # {} /\ pot > 0
    /\ Upward
    /\ Dropped
    /\ Result

(* The sum of all weights bounds the sum of those who take part. *)
LEMMA WholeBound ==
    ASSUME Division
    PROVE  /\ Total(weights, Providers) \in Nat
           /\ Whole <= Total(weights, Providers)
<1>1. \A a \in Providers : weights[a] \in Nat
  BY DEF Division
<1>2. Total(weights, Providers) = SumFunctionOnSet(weights, Providers)
  BY TotalIsSum
<1>3. SumFunctionOnSet(weights, Providers) \in Nat
  BY <1>1, AllocationAssumption, SumNat
<1>4. live \subseteq Providers
  BY DEF Division
<1>5. SumFunctionOnSet(weights, live) <= SumFunctionOnSet(weights, Providers)
  BY <1>1, <1>4, AllocationAssumption, SumSuperset
<1> QED BY <1>2, <1>3, <1>5, WholePositive

(* The loop starts right. *)
LEMMA LoopInit ==
    ASSUME Init
    PROVE  LoopInv
<1>1. weights \in [Providers -> Nat] /\ pot \in Nat
  BY AllocationAssumption DEF Init
<1>2. live = {a \in Providers : weights[a] > 0}
  BY DEF Init
<1>3. live = {} => \A a \in Providers : weights[a] = 0
  BY <1>1, <1>2
<1>4. ~done => live # {} /\ pot > 0
  <2>1. ~done => live # {} /\ pot # 0
    BY Zenon DEF Init
  <2> QED BY <1>1, <2>1
<1>5. Upward
  BY <1>1, <1>2 DEF Upward
<1>6. Dropped
  BY <1>2 DEF Dropped
<1>7. Result
  BY DEF Init, Result
<1> QED BY <1>1, <1>2, <1>3, <1>4, <1>5, <1>6, <1>7 DEF LoopInv

(* With the same people the division is the same. *)
LEMMA SameDivision ==
    ASSUME live' = live, weights' = weights, pot' = pot
    PROVE  Shares' = Shares /\ \A a \in live : Share(a)' = Share(a)
<1>1. \A a : Base(a)' = Base(a) /\ Remainder(a)' = Remainder(a)
  BY DEF Base, Remainder, Total, MapThenSumSet, MapThenFoldSet
<1>2. Leftover' = Leftover
  BY <1>1 DEF Leftover, MapThenSumSet, MapThenFoldSet
<1>3. \A a : Rank(a)' = Rank(a)
  BY <1>1 DEF Rank
<1>4. \A a : Share(a)' = Share(a)
  BY <1>1, <1>2, <1>3 DEF Share
<1> QED BY <1>4 DEF Shares

(* A turn of the loop keeps the invariant. *)
LEMMA LoopStep ==
    ASSUME LoopInv, [Turn]_vars
    PROVE  LoopInv'
<1>1. CASE UNCHANGED vars
  <2>1. live' = live /\ weights' = weights /\ pot' = pot /\ shares' = shares
        /\ done' = done
    BY <1>1 DEF vars
  <2>2. Upward' /\ Dropped'
    <3>1. Total(weights, Providers)' = Total(weights, Providers)
      BY <2>1 DEF Total, MapThenSumSet, MapThenFoldSet
    <3> QED BY <2>1, <3>1 DEF LoopInv, Upward, Dropped
  <2>3. Result'
    BY <2>1, SameDivision DEF LoopInv, Result
  <2> QED BY <2>1, <2>2, <2>3 DEF LoopInv
<1>2. CASE Turn
  <2>1. Division /\ pot > 0
    BY <1>2 DEF Turn, LoopInv, Division
  <2>2. weights' = weights /\ pot' = pot
    BY <1>2 DEF Turn
  <2>3. live' = {a \in live : Share(a) > 0}
    BY <1>2 DEF Turn
  <2>4. live' # {}
    <3>1. SUFFICES ASSUME live' = {} PROVE FALSE
      OBVIOUS
    <3>2. \A a \in live : Shares[a] = Share(a) /\ Share(a) \in Nat
      BY <2>1, SharesSum
    <3>3. \A a \in live : Shares[a] = 0
      BY <2>3, <3>1, <3>2
    <3>4. SumFunctionOnSet(Shares, live) = 0
      BY <2>1, <3>3, SumZero, WholePositive
    <3>5. SumFunctionOnSet(Shares, live) = pot
      BY <2>1, SharesSum
    <3> QED BY <2>1, <3>4, <3>5
  <2>5. /\ (weights \in [Providers -> Nat])'
        /\ (pot \in Nat)'
        /\ (live \subseteq Providers)'
        /\ (\A a \in live : weights[a] > 0)'
    BY <2>1, <2>2, <2>3 DEF Division
  <2>6. Upward'
    <3>1. SUFFICES ASSUME NEW a \in Providers, NEW b \in live',
                          weights[a] > weights[b]
                   PROVE  a \in live'
      BY <2>2 DEF Upward
    <3>2. b \in live /\ Share(b) > 0
      BY <2>3
    <3>3. a \in live
      BY <3>1, <3>2 DEF LoopInv, Upward
    <3>4. Share(a) >= Share(b)
      BY <2>1, <3>1, <3>2, <3>3, ShareMonotone
    <3>5. Share(a) \in Nat /\ Share(b) \in Nat
      BY <2>1, <3>2, <3>3, SharesSum
    <3>6. Share(a) > 0
      BY <3>2, <3>4, <3>5
    <3> QED BY <2>3, <3>3, <3>6
  <2>7. Dropped'
    <3>1. Total(weights, Providers)' = Total(weights, Providers)
      BY <2>2 DEF Total, MapThenSumSet, MapThenFoldSet
    <3>2. SUFFICES ASSUME NEW a \in Providers, a \notin live', weights[a] > 0
                   PROVE  pot * weights[a] < Total(weights, Providers)
      BY <2>2, <3>1 DEF Dropped
    <3>3. CASE a \notin live
      BY <3>2, <3>3 DEF LoopInv, Dropped
    <3>4. CASE a \in live
      <4>1. Share(a) \in Nat /\ ~(Share(a) > 0)
        BY <2>1, <2>3, <3>2, <3>4, SharesSum
      <4>2. /\ Base(a) \in Nat /\ Remainder(a) \in Nat /\ Remainder(a) < Whole
            /\ pot * weights[a] = Whole * Base(a) + Remainder(a)
        BY <2>1, Parts
      <4>3. Base(a) = 0
        BY <4>1, <4>2 DEF Share
      <4>4. Whole \in Nat /\ Total(weights, Providers) \in Nat
            /\ Whole <= Total(weights, Providers)
        BY <2>1, WholePositive, WholeBound
      <4>5. pot * weights[a] = Remainder(a)
        BY <4>2, <4>3, <4>4
      <4> QED BY <4>2, <4>4, <4>5
    <3> QED BY <3>3, <3>4
  <2>8. Result'
    <3>1. SUFFICES ASSUME done'
                   PROVE  shares' = Shares' /\ \A a \in live' : Share(a)' > 0
      BY <2>1, <2>2, <2>4 DEF Result
    <3>2. live' = live
      BY <1>2, <2>4, <3>1 DEF Turn
    <3>3. Shares' = Shares /\ \A a \in live : Share(a)' = Share(a)
      BY <2>2, <3>2, SameDivision
    <3>4. shares' = Shares
      BY <1>2 DEF Turn, Shares
    <3> QED BY <2>3, <3>2, <3>3, <3>4
  <2> QED BY <2>1, <2>2, <2>4, <2>5, <2>6, <2>7, <2>8 DEF LoopInv
<1> QED BY <1>1, <1>2

(* The loop keeps its invariant for ever. *)
LEMMA LoopAlways == Spec => []LoopInv
  BY LoopInit, LoopStep, PTL DEF Spec

(* Nobody who is left out is paid. *)
LEMMA PaidAreLive ==
    ASSUME LoopInv, done
    PROVE  \A a \in Providers :
               IF pot > 0 /\ a \in live THEN shares[a] = Share(a) ELSE shares[a] = 0
<1>1. CASE pot = 0 \/ live = {}
  BY <1>1 DEF LoopInv, Result, Zero
<1>2. CASE pot # 0 /\ live # {}
  <2>1. pot > 0 /\ shares = Shares
    BY <1>2 DEF LoopInv, Result
  <2> QED BY <2>1 DEF Shares
<1> QED BY <1>1, <1>2

--------------------------------------------------------------------------------
(* The entitlements that allocate_pro_rata returns sum to the pot exactly   *)
(* and none of them is zero, however often providers were dropped and the   *)
(* pot divided again: the assertion at its end never fails.                 *)
THEOREM PotIsSpent == Spec => []SpendsThePot
<1>1. ASSUME LoopInv PROVE SpendsThePot
  <2>1. SUFFICES ASSUME done, pot > 0, Total(weights, Providers) > 0
                 PROVE  /\ Total(shares, Providers) = pot
                        /\ \A a \in live : shares[a] > 0
    BY DEF SpendsThePot
  <2>2. live # {}
    <3>1. SUFFICES ASSUME live = {} PROVE FALSE
      OBVIOUS
    <3>2. \A a \in Providers : weights[a] = 0
      BY <1>1, <3>1 DEF LoopInv
    <3>3. SumFunctionOnSet(weights, Providers) = 0
      BY <3>2, AllocationAssumption, SumZero
    <3>4. Total(weights, Providers) = 0
      BY <3>3, TotalIsSum
    <3> QED BY <2>1, <3>4
  <2>3. Division
    BY <1>1, <2>2 DEF LoopInv, Division
  <2>4. shares = Shares /\ \A a \in live : Share(a) > 0
    BY <1>1, <2>1, <2>2 DEF LoopInv, Result
  <2>5. /\ \A a \in live : Shares[a] = Share(a) /\ Share(a) \in Nat
        /\ SumFunctionOnSet(Shares, live) = pot
    BY <2>3, SharesSum
  <2>6. /\ \A a \in Providers : Shares[a] \in Nat
        /\ \A a \in Providers \ live : Shares[a] = 0
    <3>1. \A a \in Providers : a \notin live => Shares[a] = 0
      BY DEF Shares
    <3> QED BY <2>5, <3>1
  <2>7. live \subseteq Providers
    BY <2>3 DEF Division
  <2>8. SumFunctionOnSet(Shares, live) = SumFunctionOnSet(Shares, Providers)
    BY <2>6, <2>7, AllocationAssumption, SumSuperset
  <2>9. Total(shares, Providers) = pot
    BY <2>4, <2>5, <2>8, TotalIsSum
  <2> QED BY <2>4, <2>5, <2>9
<1> QED BY LoopAlways, <1>1, PTL

(* Everybody whom an epoch pays gets the exact proportion among the paid to *)
(* less than one unit.                                                      *)
THEOREM SharesAreExact == Spec => []WithinOneUnit
<1>1. ASSUME LoopInv PROVE WithinOneUnit
  <2>1. SUFFICES ASSUME done, NEW a \in live
                 PROVE  /\ shares[a] * Whole < pot * weights[a] + Whole
                        /\ pot * weights[a] < shares[a] * Whole + Whole
    BY DEF WithinOneUnit, Whole
  <2>2. Division
    BY <1>1, <2>1 DEF LoopInv, Division
  <2>3. a \in Providers /\ Whole \in Nat /\ Whole > 0
    BY <2>2, WholePositive DEF Division
  <2>4. CASE pot > 0
    <3>1. shares[a] = Share(a)
      BY <1>1, <2>1, <2>3, <2>4, PaidAreLive
    <3> QED BY <2>2, <3>1, ShareExact
  <2>5. CASE ~(pot > 0)
    <3>1. shares[a] = 0 /\ pot = 0 /\ weights[a] \in Nat
      BY <1>1, <2>1, <2>2, <2>3, <2>5, PaidAreLive DEF Division
    <3> QED BY <2>3, <3>1
  <2> QED BY <2>4, <2>5
<1> QED BY LoopAlways, <1>1, PTL

(* More settled value never earns less, also when the lightest providers    *)
(* are dropped and their part is divided again.                             *)
THEOREM WorkIsRewarded == Spec => []MoreWorkNoLess
<1>1. ASSUME LoopInv PROVE MoreWorkNoLess
  <2>1. SUFFICES ASSUME done, NEW a \in Providers, NEW b \in Providers,
                        weights[a] > weights[b]
                 PROVE  shares[a] >= shares[b]
    BY DEF MoreWorkNoLess
  <2>2. CASE pot > 0 /\ b \in live
    <3>1. a \in live
      BY <1>1, <2>1, <2>2 DEF LoopInv, Upward
    <3>2. Division
      BY <1>1, <2>2 DEF LoopInv, Division
    <3>3. shares[a] = Share(a) /\ shares[b] = Share(b)
      BY <1>1, <2>1, <2>2, <3>1, PaidAreLive
    <3> QED BY <2>1, <2>2, <3>1, <3>2, <3>3, ShareMonotone
  <2>3. CASE ~(pot > 0 /\ b \in live)
    <3>1. shares[b] = 0
      BY <1>1, <2>1, <2>3, PaidAreLive
    <3>2. shares[a] \in Nat
      <4>1. CASE pot > 0 /\ a \in live
        <5>1. Division
          BY <1>1, <4>1 DEF LoopInv, Division
        <5> QED BY <1>1, <2>1, <4>1, <5>1, PaidAreLive, SharesSum
      <4>2. CASE ~(pot > 0 /\ a \in live)
        BY <1>1, <2>1, <4>2, PaidAreLive
      <4> QED BY <4>1, <4>2
    <3> QED BY <3>1, <3>2
  <2> QED BY <2>2, <2>3
<1> QED BY LoopAlways, <1>1, PTL

(* Dropping the lightest never takes from anybody what was earned in whole  *)
(* units of the first division.                                             *)
THEOREM WholeUnitsAreKept == Spec => []WholeUnitsKept
<1>1. ASSUME LoopInv PROVE WholeUnitsKept
  <2> DEFINE all == Total(weights, Providers)
  <2>1. SUFFICES ASSUME done, NEW a \in Providers, weights[a] > 0
                 PROVE  shares[a] >= (pot * weights[a]) \div all
    BY DEF WholeUnitsKept
  <2>2. pot \in Nat /\ weights[a] \in Nat /\ live # {}
    BY <1>1, <2>1 DEF LoopInv
  <2>3. Division
    BY <1>1, <2>2 DEF LoopInv, Division
  <2>4. all \in Nat /\ Whole \in Nat /\ Whole > 0 /\ Whole <= all
    BY <2>3, WholePositive, WholeBound
  <2> DEFINE x == pot * weights[a]
  <2>5. x \in Nat
    BY <2>2
  <2>6. CASE pot > 0 /\ a \in live
    <3>1. shares[a] = Share(a) /\ Base(a) = x \div Whole
      BY <1>1, <2>1, <2>6, PaidAreLive DEF Base, Whole
    <3>2. Base(a) \in Nat /\ Share(a) >= Base(a)
      BY <2>3, Parts DEF Share
    <3>3. Share(a) \in Nat
      BY <2>3, <2>6, SharesSum
    <3> HIDE DEF x, all
    <3>4. x \div all <= x \div Whole
      BY <2>4, <2>5, DivAntitone
    <3>5. x \div all \in Nat
      BY <2>4, <2>5, DivMod
    <3>6. shares[a] >= x \div all
      BY <3>1, <3>2, <3>3, <3>4, <3>5
    <3> QED BY <3>6 DEF x, all
  <2>7. CASE ~(pot > 0 /\ a \in live)
    <3>1. shares[a] = 0
      BY <1>1, <2>1, <2>7, PaidAreLive
    <3>2. x < all
      <4>1. CASE pot = 0
        BY <2>2, <2>4, <4>1
      <4>2. CASE a \notin live
        BY <1>1, <2>1, <4>2 DEF LoopInv, Dropped
      <4> QED BY <2>2, <2>7, <4>1, <4>2
    <3> HIDE DEF x, all
    <3>3. x \div all = 0
      BY <2>4, <2>5, <3>2
    <3>4. shares[a] >= x \div all
      BY <3>1, <3>3
    <3> QED BY <3>4 DEF x, all
  <2> QED BY <2>6, <2>7
<1> QED BY LoopAlways, <1>1, PTL
================================================================================
