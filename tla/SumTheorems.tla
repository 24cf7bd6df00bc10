------------------------------ MODULE SumTheorems ------------------------------
(****************************************************************************)
(* Sums over finite sets, for the proofs about money: what is owed to many  *)
(* accounts is the sum of their balances.  SumFunctionOnSet and             *)
(* MapThenSumSet of the community modules take the elements away one at a   *)
(* time, in an order nobody knows; the lemmas below are the laws that do    *)
(* not depend on it.  Each is proved on a smallest subset for which it      *)
(* would fail, which exists because strict inclusion of finite sets is well *)
(* founded.                                                                 *)
(****************************************************************************)
EXTENDS Integers, FiniteSetsExt, FiniteSetTheorems, WellFoundedInduction, TLAPS

(* The element that is taken away first. *)
Pick(s) == CHOOSE x \in s : TRUE

(* g maps every subset of T to the sum of f over it. *)
IsSum(g, f, T) ==
    g = [s \in SUBSET T |-> IF s = {} THEN 0 ELSE f[Pick(s)] + g[s \ {Pick(s)}]]

(* Among some subsets of a finite set, one has none of the others inside it. *)
LEMMA SmallestSubset ==
    ASSUME NEW S, IsFiniteSet(S), NEW B, B \subseteq SUBSET S, B # {}
    PROVE  \E s \in B : \A t \in B : ~(t \subseteq s /\ t # s)
<1>1. IsWellFoundedOn(StrictSubsetOrdering(S), SUBSET S)
  BY FS_StrictSubsetOrderingWellFounded, FS_FiniteSubsetsOfFinite
<1>2. PICK s \in B : \A t \in B : ~(<<t, s>> \in StrictSubsetOrdering(S))
  BY <1>1, WFMin
<1> QED BY <1>2 DEF StrictSubsetOrdering

(* The element taken away is one of the set. *)
LEMMA PickedFrom ==
    ASSUME NEW s, s # {}
    PROVE  /\ Pick(s) \in s
           /\ s \ {Pick(s)} \subseteq s
           /\ s \ {Pick(s)} # s
  BY DEF Pick

(* Two tables of sums of f agree wherever both are defined. *)
LEMMA SumUnique ==
    ASSUME NEW f, NEW T, NEW U, NEW g, NEW h, IsSum(g, f, T), IsSum(h, f, U),
           NEW S, S \subseteq T, S \subseteq U, IsFiniteSet(S)
    PROVE  g[S] = h[S]
<1> DEFINE B == {s \in SUBSET S : g[s] # h[s]}
<1>1. SUFFICES ASSUME B # {} PROVE FALSE
  OBVIOUS
<1>2. PICK s \in B : \A t \in B : ~(t \subseteq s /\ t # s)
  <2>1. B \subseteq SUBSET S
    OBVIOUS
  <2> HIDE DEF B
  <2> QED BY <1>1, <2>1, SmallestSubset
<1>3. s \subseteq S /\ g[s] # h[s]
  BY <1>2
<1>4. /\ g[s] = IF s = {} THEN 0 ELSE f[Pick(s)] + g[s \ {Pick(s)}]
      /\ h[s] = IF s = {} THEN 0 ELSE f[Pick(s)] + h[s \ {Pick(s)}]
  <2>1. s \in SUBSET T /\ s \in SUBSET U
    BY <1>3
  <2> QED BY <2>1 DEF IsSum
<1>5. s # {}
  BY <1>3, <1>4
<1>6. s \ {Pick(s)} \notin B
  BY <1>2, <1>5, PickedFrom
<1>7. g[s \ {Pick(s)}] = h[s \ {Pick(s)}]
  BY <1>3, <1>6
<1> QED BY <1>3, <1>4, <1>7

(* Every finite set has its table of sums. *)
LEMMA SumExists ==
    ASSUME NEW f, NEW S, IsFiniteSet(S)
    PROVE  \E g : IsSum(g, f, S)
<1> DEFINE B == {s \in SUBSET S : ~\E g : IsSum(g, f, s)}
<1>1. SUFFICES ASSUME B # {} PROVE FALSE
  OBVIOUS
<1>2. PICK T \in B : \A t \in B : ~(t \subseteq T /\ t # T)
  <2>1. B \subseteq SUBSET S
    OBVIOUS
  <2> HIDE DEF B
  <2> QED BY <1>1, <2>1, SmallestSubset
<1>3. T \subseteq S /\ IsFiniteSet(T)
  BY <1>2, FS_Subset
<1> DEFINE H(u) == CHOOSE g : IsSum(g, f, u)
           G == [s \in SUBSET T |->
                    IF s = {} THEN 0 ELSE f[Pick(s)] + H(s \ {Pick(s)})[s \ {Pick(s)}]]
<1>4. ASSUME NEW u, u \subseteq T, u # T
      PROVE  IsSum(H(u), f, u)
  <2>1. u \notin B
    BY <1>2, <1>4
  <2>2. \E g : IsSum(g, f, u)
    BY <2>1, <1>3, <1>4
  <2> QED BY <2>2
<1>5. ASSUME NEW u, u \subseteq T, u # T
      PROVE  G[u] = H(u)[u]
  <2>1. H(u) = [s \in SUBSET u |-> IF s = {} THEN 0
                                   ELSE f[Pick(s)] + H(u)[s \ {Pick(s)}]]
    BY <1>4, <1>5 DEF IsSum
  <2>2. H(u)[u] = IF u = {} THEN 0 ELSE f[Pick(u)] + H(u)[u \ {Pick(u)}]
    BY <2>1
  <2>3. G[u] = IF u = {} THEN 0 ELSE f[Pick(u)] + H(u \ {Pick(u)})[u \ {Pick(u)}]
    BY <1>5
  <2>4. ASSUME u # {}
        PROVE  H(u)[u \ {Pick(u)}] = H(u \ {Pick(u)})[u \ {Pick(u)}]
    <3> DEFINE v == u \ {Pick(u)}
    <3>1. v \subseteq u /\ v \subseteq T /\ v # T
      BY <2>4, <1>5, PickedFrom
    <3>2. IsSum(H(v), f, v) /\ IsSum(H(u), f, u)
      BY <1>4, <1>5, <3>1
    <3>3. IsFiniteSet(v)
      BY <1>3, <3>1, FS_Subset
    <3> HIDE DEF v, H
    <3>4. H(u)[v] = H(v)[v]
      BY <3>1, <3>2, <3>3, SumUnique
    <3> QED BY <3>4 DEF v
  <2> QED BY <2>2, <2>3, <2>4
<1>6. IsSum(G, f, T)
  <2>1. ASSUME NEW s \in SUBSET T, s # {}
        PROVE  G[s \ {Pick(s)}] = H(s \ {Pick(s)})[s \ {Pick(s)}]
    <3> DEFINE v == s \ {Pick(s)}
    <3>1. v \subseteq T /\ v # T
      BY <2>1, PickedFrom
    <3> HIDE DEF v, H, G
    <3>2. G[v] = H(v)[v]
      BY <3>1, <1>5
    <3> QED BY <3>2 DEF v
  <2>2. G = [s \in SUBSET T |-> IF s = {} THEN 0
                                ELSE f[Pick(s)] + G[s \ {Pick(s)}]]
    <3> DEFINE F == [s \in SUBSET T |-> IF s = {} THEN 0
                                ELSE f[Pick(s)] + G[s \ {Pick(s)}]]
    <3>1. ASSUME NEW s \in SUBSET T
          PROVE  G[s] = F[s]
      <4>1. G[s] = IF s = {} THEN 0 ELSE f[Pick(s)] + H(s \ {Pick(s)})[s \ {Pick(s)}]
        OBVIOUS
      <4> HIDE DEF G, H
      <4> QED BY <4>1, <2>1
    <3>2. DOMAIN G = SUBSET T /\ G = [s \in SUBSET T |-> G[s]]
      OBVIOUS
    <3> HIDE DEF G, H
    <3> QED BY <3>1, <3>2
  <2> HIDE DEF G
  <2> QED BY <2>2 DEF IsSum
<1> HIDE DEF G, H
<1>7. \E g : IsSum(g, f, T)
  BY <1>6
<1> QED BY <1>2, <1>7

(* What SumFunctionOnSet computes can be read off any larger table. *)
LEMMA SumIsTable ==
    ASSUME NEW f, NEW T, NEW g, IsSum(g, f, T), NEW S, S \subseteq T, IsFiniteSet(S)
    PROVE  SumFunctionOnSet(f, S) = g[S]
<1> DEFINE h == CHOOSE k : IsSum(k, f, S)
<1>1. SumFunctionOnSet(f, S) = h[S]
  BY DEF SumFunctionOnSet, FoldFunctionOnSet, MapThenFoldSet, IsSum, Pick
<1>2. IsSum(h, f, S)
  BY SumExists
<1> HIDE DEF h
<1> QED BY <1>1, <1>2, SumUnique

(* Nothing adds up to zero. *)
LEMMA SumEmpty ==
    ASSUME NEW f
    PROVE  SumFunctionOnSet(f, {}) = 0
<1>1. PICK g : IsSum(g, f, {})
  BY SumExists, FS_EmptySet
<1>2. g[{}] = 0
  BY <1>1 DEF IsSum
<1> QED BY <1>1, <1>2, SumIsTable, FS_EmptySet

(* A sum is its first term and the sum of the rest. *)
LEMMA SumPick ==
    ASSUME NEW f, NEW S, IsFiniteSet(S), S # {}
    PROVE  SumFunctionOnSet(f, S) = f[Pick(S)] + SumFunctionOnSet(f, S \ {Pick(S)})
<1> DEFINE V == S \ {Pick(S)}
<1>1. PICK g : IsSum(g, f, S)
  BY SumExists
<1>2. g[S] = f[Pick(S)] + g[V]
  BY <1>1 DEF IsSum
<1>3. V \subseteq S /\ IsFiniteSet(V)
  BY FS_Subset
<1> HIDE DEF V
<1>4. SumFunctionOnSet(f, S) = g[S] /\ SumFunctionOnSet(f, V) = g[V]
  BY <1>1, <1>3, SumIsTable
<1> QED BY <1>2, <1>4 DEF V

(* Numbers add up to a number. *)
LEMMA SumInt ==
    ASSUME NEW f, NEW S, IsFiniteSet(S), \A x \in S : f[x] \in Int
    PROVE  SumFunctionOnSet(f, S) \in Int
<1> DEFINE B == {s \in SUBSET S : SumFunctionOnSet(f, s) \notin Int}
<1>1. SUFFICES ASSUME B # {} PROVE FALSE
  OBVIOUS
<1>2. PICK s \in B : \A t \in B : ~(t \subseteq s /\ t # s)
  <2>1. B \subseteq SUBSET S
    OBVIOUS
  <2> HIDE DEF B
  <2> QED BY <1>1, <2>1, SmallestSubset
<1>3. s \subseteq S /\ IsFiniteSet(s) /\ SumFunctionOnSet(f, s) \notin Int
  BY <1>2, FS_Subset
<1>4. s # {}
  BY <1>3, SumEmpty
<1> DEFINE v == s \ {Pick(s)}
<1>5. v \notin B /\ v \subseteq S /\ Pick(s) \in S
  BY <1>2, <1>3, <1>4, PickedFrom
<1>6. SumFunctionOnSet(f, v) \in Int
  BY <1>5
<1>7. SumFunctionOnSet(f, s) = f[Pick(s)] + SumFunctionOnSet(f, v)
  BY <1>3, <1>4, SumPick
<1> HIDE DEF v
<1> QED BY <1>3, <1>5, <1>6, <1>7

(* Natural numbers add up to a natural number. *)
LEMMA SumNat ==
    ASSUME NEW f, NEW S, IsFiniteSet(S), \A x \in S : f[x] \in Nat
    PROVE  SumFunctionOnSet(f, S) \in Nat
<1> DEFINE B == {s \in SUBSET S : SumFunctionOnSet(f, s) \notin Nat}
<1>1. SUFFICES ASSUME B # {} PROVE FALSE
  OBVIOUS
<1>2. PICK s \in B : \A t \in B : ~(t \subseteq s /\ t # s)
  <2>1. B \subseteq SUBSET S
    OBVIOUS
  <2> HIDE DEF B
  <2> QED BY <1>1, <2>1, SmallestSubset
<1>3. s \subseteq S /\ IsFiniteSet(s) /\ SumFunctionOnSet(f, s) \notin Nat
  BY <1>2, FS_Subset
<1>4. s # {}
  BY <1>3, SumEmpty
<1> DEFINE v == s \ {Pick(s)}
<1>5. v \notin B /\ v \subseteq S /\ Pick(s) \in S
  BY <1>2, <1>3, <1>4, PickedFrom
<1>6. SumFunctionOnSet(f, v) \in Nat
  BY <1>5
<1>7. SumFunctionOnSet(f, s) = f[Pick(s)] + SumFunctionOnSet(f, v)
  BY <1>3, <1>4, SumPick
<1> HIDE DEF v
<1> QED BY <1>3, <1>5, <1>6, <1>7

(* Any term may come first: the order of the summation does not matter. *)
LEMMA SumSplit ==
    ASSUME NEW f, NEW S, IsFiniteSet(S), \A x \in S : f[x] \in Int, NEW x \in S
    PROVE  SumFunctionOnSet(f, S) = f[x] + SumFunctionOnSet(f, S \ {x})
<1> DEFINE Total(s) == SumFunctionOnSet(f, s)
           B == {s \in SUBSET S : \E y \in s : Total(s) # f[y] + Total(s \ {y})}
<1>1. SUFFICES ASSUME B # {} PROVE FALSE
  <2>1. S \notin B
    BY <1>1
  <2> HIDE DEF Total
  <2>2. Total(S) = f[x] + Total(S \ {x})
    BY <2>1
  <2> QED BY <2>2 DEF Total
<1>2. PICK s \in B : \A t \in B : ~(t \subseteq s /\ t # s)
  <2>1. B \subseteq SUBSET S
    OBVIOUS
  <2> HIDE DEF B
  <2> QED BY <1>1, <2>1, SmallestSubset
<1>3. s \subseteq S /\ IsFiniteSet(s) /\ \E y \in s : Total(s) # f[y] + Total(s \ {y})
  BY <1>2, FS_Subset
<1>4. PICK y \in s : Total(s) # f[y] + Total(s \ {y})
  BY <1>3
<1> DEFINE z == Pick(s)
           sz == s \ {z}
           sy == s \ {y}
           syz == s \ {y, z}
<1>5. z \in s /\ Total(s) = f[z] + Total(sz)
  BY <1>3, <1>4, SumPick, PickedFrom
<1>6. z # y
  BY <1>4, <1>5
<1>7. /\ sz \notin B /\ sz \subseteq S /\ y \in sz /\ sz \ {y} = syz
      /\ sy \notin B /\ sy \subseteq S /\ z \in sy /\ sy \ {z} = syz
  <2> HIDE DEF B, Total
  <2> QED BY <1>2, <1>3, <1>4, <1>5, <1>6
<1>8. Total(syz) \in Int
  <2>1. syz \subseteq S /\ IsFiniteSet(syz)
    BY <1>3, FS_Subset
  <2> HIDE DEF syz
  <2> QED BY <2>1, SumInt
<1> HIDE DEF Total
<1>9. Total(sz) = f[y] + Total(syz) /\ Total(sy) = f[z] + Total(syz)
  BY <1>7
<1>10. f[y] \in Int /\ f[z] \in Int
  BY <1>3, <1>4, <1>5
<1> HIDE DEF z, sz, sy, syz, B
<1>11. Total(s) = f[y] + Total(sy)
  BY <1>5, <1>8, <1>9, <1>10
<1> QED BY <1>4, <1>11 DEF sy

(* Equal terms add up to the same. *)
LEMMA SumSame ==
    ASSUME NEW f, NEW g, NEW S, IsFiniteSet(S), \A x \in S : f[x] = g[x]
    PROVE  SumFunctionOnSet(f, S) = SumFunctionOnSet(g, S)
<1> DEFINE B == {s \in SUBSET S : SumFunctionOnSet(f, s) # SumFunctionOnSet(g, s)}
<1>1. SUFFICES ASSUME B # {} PROVE FALSE
  OBVIOUS
<1>2. PICK s \in B : \A t \in B : ~(t \subseteq s /\ t # s)
  <2>1. B \subseteq SUBSET S
    OBVIOUS
  <2> HIDE DEF B
  <2> QED BY <1>1, <2>1, SmallestSubset
<1>3. /\ s \subseteq S /\ IsFiniteSet(s)
      /\ SumFunctionOnSet(f, s) # SumFunctionOnSet(g, s)
  BY <1>2, FS_Subset
<1>4. s # {}
  BY <1>3, SumEmpty
<1> DEFINE v == s \ {Pick(s)}
<1>5. v \notin B /\ v \subseteq S /\ Pick(s) \in S
  BY <1>2, <1>3, <1>4, PickedFrom
<1>6. SumFunctionOnSet(f, v) = SumFunctionOnSet(g, v)
  BY <1>5
<1>7. /\ SumFunctionOnSet(f, s) = f[Pick(s)] + SumFunctionOnSet(f, v)
      /\ SumFunctionOnSet(g, s) = g[Pick(s)] + SumFunctionOnSet(g, v)
  BY <1>3, <1>4, SumPick
<1> HIDE DEF v
<1> QED BY <1>3, <1>5, <1>6, <1>7

(* Changing one term changes the sum by the difference. *)
LEMMA SumChange ==
    ASSUME NEW f, NEW g, NEW S, IsFiniteSet(S), NEW x \in S,
           \A y \in S : f[y] \in Int /\ g[y] \in Int,
           \A y \in S \ {x} : g[y] = f[y]
    PROVE  SumFunctionOnSet(g, S) = SumFunctionOnSet(f, S) - f[x] + g[x]
<1> DEFINE V == S \ {x}
<1>1. IsFiniteSet(V) /\ V \subseteq S
  BY FS_Subset
<1>2. /\ SumFunctionOnSet(f, S) = f[x] + SumFunctionOnSet(f, V)
      /\ SumFunctionOnSet(g, S) = g[x] + SumFunctionOnSet(g, V)
  BY SumSplit
<1>3. SumFunctionOnSet(g, V) = SumFunctionOnSet(f, V)
  BY <1>1, SumSame
<1>4. SumFunctionOnSet(f, V) \in Int /\ f[x] \in Int /\ g[x] \in Int
  BY <1>1, SumInt
<1> HIDE DEF V
<1> QED BY <1>2, <1>3, <1>4

(* A new element adds its term. *)
LEMMA SumAdd ==
    ASSUME NEW f, NEW S, IsFiniteSet(S), NEW x, x \notin S,
           \A y \in S \cup {x} : f[y] \in Int
    PROVE  SumFunctionOnSet(f, S \cup {x}) = SumFunctionOnSet(f, S) + f[x]
<1> DEFINE T == S \cup {x}
<1>1. IsFiniteSet(T) /\ x \in T /\ T \ {x} = S
  BY FS_AddElement
<1>2. \A y \in T : f[y] \in Int
  OBVIOUS
<1> HIDE DEF T
<1>3. SumFunctionOnSet(f, T) = f[x] + SumFunctionOnSet(f, S)
  <2>1. SumFunctionOnSet(f, T) = f[x] + SumFunctionOnSet(f, T \ {x})
    BY <1>1, <1>2, SumSplit
  <2> QED BY <1>1, <2>1
<1>4. SumFunctionOnSet(f, S) \in Int /\ f[x] \in Int
  BY SumInt
<1> QED BY <1>3, <1>4 DEF T

(* Zeros add up to zero. *)
LEMMA SumZero ==
    ASSUME NEW f, NEW S, IsFiniteSet(S), \A x \in S : f[x] = 0
    PROVE  SumFunctionOnSet(f, S) = 0
<1> DEFINE B == {s \in SUBSET S : SumFunctionOnSet(f, s) # 0}
<1>1. SUFFICES ASSUME B # {} PROVE FALSE
  OBVIOUS
<1>2. PICK s \in B : \A t \in B : ~(t \subseteq s /\ t # s)
  <2>1. B \subseteq SUBSET S
    OBVIOUS
  <2> HIDE DEF B
  <2> QED BY <1>1, <2>1, SmallestSubset
<1>3. s \subseteq S /\ IsFiniteSet(s) /\ SumFunctionOnSet(f, s) # 0
  BY <1>2, FS_Subset
<1>4. s # {}
  BY <1>3, SumEmpty
<1> DEFINE v == s \ {Pick(s)}
<1>5. v \notin B /\ v \subseteq S /\ Pick(s) \in S
  BY <1>2, <1>3, <1>4, PickedFrom
<1>6. SumFunctionOnSet(f, v) = 0
  BY <1>5
<1>7. SumFunctionOnSet(f, s) = f[Pick(s)] + SumFunctionOnSet(f, v)
  BY <1>3, <1>4, SumPick
<1> HIDE DEF v
<1> QED BY <1>3, <1>5, <1>6, <1>7

(* A term is at most the sum when none is negative. *)
LEMMA SumBounds ==
    ASSUME NEW f, NEW S, IsFiniteSet(S), \A x \in S : f[x] \in Nat, NEW x \in S
    PROVE  f[x] <= SumFunctionOnSet(f, S)
<1> DEFINE V == S \ {x}
<1>1. IsFiniteSet(V) /\ V \subseteq S
  BY FS_Subset
<1>2. SumFunctionOnSet(f, S) = f[x] + SumFunctionOnSet(f, V)
  BY SumSplit
<1>3. SumFunctionOnSet(f, V) \in Nat /\ f[x] \in Nat
  BY <1>1, SumNat
<1> HIDE DEF V
<1> QED BY <1>2, <1>3

(* Induction over the subsets of a finite set, for a set G of good ones. *)
LEMMA SubsetInduction ==
    ASSUME NEW S, IsFiniteSet(S), NEW G, {} \in G,
           \A s \in SUBSET S, x \in S : s \in G /\ x \notin s => s \cup {x} \in G
    PROVE  S \in G
<1> DEFINE B == {s \in SUBSET S : s \notin G}
<1>1. SUFFICES ASSUME B # {} PROVE FALSE
  OBVIOUS
<1>2. PICK s \in B : \A t \in B : ~(t \subseteq s /\ t # s)
  <2>1. B \subseteq SUBSET S
    OBVIOUS
  <2> HIDE DEF B
  <2> QED BY <1>1, <2>1, SmallestSubset
<1>3. s \subseteq S /\ s \notin G /\ s # {}
  BY <1>2
<1> DEFINE v == s \ {Pick(s)}
<1>4. v \notin B /\ v \subseteq S /\ Pick(s) \in S /\ Pick(s) \notin v
      /\ v \cup {Pick(s)} = s
  BY <1>2, <1>3, PickedFrom
<1>5. v \in G
  BY <1>4
<1> HIDE DEF v
<1>6. s \in G
  BY <1>4, <1>5
<1> QED BY <1>3, <1>6

(* Sums add up term by term. *)
LEMMA SumPlus ==
    ASSUME NEW S, IsFiniteSet(S), NEW f, NEW g, NEW h,
           \A x \in S : f[x] \in Int /\ g[x] \in Int /\ h[x] = f[x] + g[x]
    PROVE  SumFunctionOnSet(h, S) = SumFunctionOnSet(f, S) + SumFunctionOnSet(g, S)
<1> DEFINE T(k, s) == SumFunctionOnSet(k, s)
           G == {s \in SUBSET S : T(h, s) = T(f, s) + T(g, s)}
<1>1. {} \in G
  BY SumEmpty
<1>2. ASSUME NEW s \in SUBSET S, NEW x \in S, s \in G, x \notin s
      PROVE  s \cup {x} \in G
  <2>1. IsFiniteSet(s)
    BY FS_Subset
  <2>2. \A y \in s \cup {x} : f[y] \in Int /\ g[y] \in Int /\ h[y] \in Int
    OBVIOUS
  <2>3. /\ T(f, s \cup {x}) = T(f, s) + f[x]
        /\ T(g, s \cup {x}) = T(g, s) + g[x]
        /\ T(h, s \cup {x}) = T(h, s) + h[x]
    BY <1>2, <2>1, <2>2, SumAdd
  <2>4. T(f, s) \in Int /\ T(g, s) \in Int
    BY <2>1, <2>2, SumInt
  <2>5. T(h, s) = T(f, s) + T(g, s)
    BY <1>2
  <2> HIDE DEF T
  <2> QED BY <2>3, <2>4, <2>5
<1> HIDE DEF G
<1>3. S \in G
  BY <1>1, <1>2, SubsetInduction
<1> QED BY <1>3 DEF G

(* A common factor comes out of a sum. *)
LEMMA SumScale ==
    ASSUME NEW S, IsFiniteSet(S), NEW c \in Int, NEW f, NEW h,
           \A x \in S : f[x] \in Int /\ h[x] = c * f[x]
    PROVE  SumFunctionOnSet(h, S) = c * SumFunctionOnSet(f, S)
<1> DEFINE T(k, s) == SumFunctionOnSet(k, s)
           G == {s \in SUBSET S : T(h, s) = c * T(f, s)}
<1>1. {} \in G
  BY SumEmpty
<1>2. ASSUME NEW s \in SUBSET S, NEW x \in S, s \in G, x \notin s
      PROVE  s \cup {x} \in G
  <2>1. IsFiniteSet(s)
    BY FS_Subset
  <2>2. \A y \in s \cup {x} : f[y] \in Int /\ h[y] \in Int
    OBVIOUS
  <2>3. /\ T(f, s \cup {x}) = T(f, s) + f[x]
        /\ T(h, s \cup {x}) = T(h, s) + h[x]
    BY <1>2, <2>1, <2>2, SumAdd
  <2>4. T(f, s) \in Int /\ f[x] \in Int /\ h[x] = c * f[x]
    BY <2>1, <2>2, SumInt
  <2>5. T(h, s) = c * T(f, s)
    BY <1>2
  <2> HIDE DEF T
  <2>6. c * (T(f, s) + f[x]) = c * T(f, s) + c * f[x]
    BY <2>4
  <2> QED BY <2>3, <2>4, <2>5, <2>6
<1> HIDE DEF G
<1>3. S \in G
  BY <1>1, <1>2, SubsetInduction
<1> QED BY <1>3 DEF G

(* Smaller terms have a smaller sum. *)
LEMMA SumMonotone ==
    ASSUME NEW S, IsFiniteSet(S), NEW f, NEW g,
           \A x \in S : f[x] \in Int /\ g[x] \in Int /\ f[x] <= g[x]
    PROVE  SumFunctionOnSet(f, S) <= SumFunctionOnSet(g, S)
<1> DEFINE T(k, s) == SumFunctionOnSet(k, s)
           G == {s \in SUBSET S : T(f, s) <= T(g, s)}
<1>1. {} \in G
  BY SumEmpty
<1>2. ASSUME NEW s \in SUBSET S, NEW x \in S, s \in G, x \notin s
      PROVE  s \cup {x} \in G
  <2>1. IsFiniteSet(s)
    BY FS_Subset
  <2>2. \A y \in s \cup {x} : f[y] \in Int /\ g[y] \in Int
    OBVIOUS
  <2>3. /\ T(f, s \cup {x}) = T(f, s) + f[x]
        /\ T(g, s \cup {x}) = T(g, s) + g[x]
    BY <1>2, <2>1, <2>2, SumAdd
  <2>4. T(f, s) \in Int /\ T(g, s) \in Int
    BY <2>1, <2>2, SumInt
  <2>5. T(f, s) <= T(g, s)
    BY <1>2
  <2> HIDE DEF T
  <2> QED BY <2>3, <2>4, <2>5
<1> HIDE DEF G
<1>3. S \in G
  BY <1>1, <1>2, SubsetInduction
<1> QED BY <1>3 DEF G

(* One for each member of a set adds up to its size. *)
LEMMA SumCount ==
    ASSUME NEW S, IsFiniteSet(S), NEW A, A \subseteq S, NEW f,
           \A x \in S : f[x] = IF x \in A THEN 1 ELSE 0
    PROVE  SumFunctionOnSet(f, S) = Cardinality(A)
<1> DEFINE T(s) == SumFunctionOnSet(f, s)
           G == {s \in SUBSET S : T(s) = Cardinality(A \cap s)}
<1>1. {} \in G
  <2>1. A \cap {} = {} /\ Cardinality({}) = 0
    BY FS_EmptySet
  <2> QED BY <2>1, SumEmpty
<1>2. ASSUME NEW s \in SUBSET S, NEW x \in S, s \in G, x \notin s
      PROVE  s \cup {x} \in G
  <2>1. IsFiniteSet(s) /\ IsFiniteSet(A \cap s)
    BY FS_Subset
  <2>2. \A y \in s \cup {x} : f[y] \in Int
    OBVIOUS
  <2>3. T(s \cup {x}) = T(s) + f[x]
    BY <1>2, <2>1, <2>2, SumAdd
  <2>4. T(s) = Cardinality(A \cap s) /\ T(s) \in Int
    BY <1>2, <2>1, <2>2, SumInt
  <2> HIDE DEF T
  <2>5. CASE x \in A
    <3>1. A \cap (s \cup {x}) = (A \cap s) \cup {x} /\ x \notin A \cap s
      BY <1>2, <2>5
    <3>2. Cardinality((A \cap s) \cup {x}) = Cardinality(A \cap s) + 1
      BY <2>1, <3>1, FS_AddElement
    <3> QED BY <2>3, <2>4, <2>5, <3>1, <3>2
  <2>6. CASE x \notin A
    <3>1. A \cap (s \cup {x}) = A \cap s /\ f[x] = 0
      BY <2>6
    <3>2. T(s \cup {x}) = T(s)
      BY <2>3, <2>4, <3>1
    <3> QED BY <2>4, <3>1, <3>2
  <2> QED BY <2>5, <2>6
<1> HIDE DEF G
<1>3. S \in G
  BY <1>1, <1>2, SubsetInduction
<1>4. A \cap S = A
  OBVIOUS
<1> QED BY <1>3, <1>4 DEF G

(* A larger set adds what is not negative, and nothing if it is zero. *)
LEMMA SumSuperset ==
    ASSUME NEW T, IsFiniteSet(T), NEW S, S \subseteq T, NEW f,
           \A x \in T : f[x] \in Nat
    PROVE  /\ SumFunctionOnSet(f, S) <= SumFunctionOnSet(f, T)
           /\ (\A x \in T \ S : f[x] = 0)
                 => SumFunctionOnSet(f, S) = SumFunctionOnSet(f, T)
<1> DEFINE Tot(s) == SumFunctionOnSet(f, s)
           U == T \ S
           Zero(s) == \A x \in s : f[x] = 0
           G == {s \in SUBSET U : /\ Tot(S) <= Tot(S \cup s)
                                  /\ Zero(s) => Tot(S) = Tot(S \cup s)}
<1>0. IsFiniteSet(U) /\ IsFiniteSet(S) /\ Tot(S) \in Nat
  BY FS_Subset, SumNat
<1>1. {} \in G
  <2>1. S \cup {} = S
    OBVIOUS
  <2> HIDE DEF Tot
  <2> QED BY <1>0, <2>1
<1>2. ASSUME NEW s \in SUBSET U, NEW x \in U, s \in G, x \notin s
      PROVE  s \cup {x} \in G
  <2> DEFINE V == S \cup s
  <2>1. IsFiniteSet(V) /\ V \subseteq T /\ x \notin V /\ x \in T
    BY <1>2, FS_Subset
  <2>2. S \cup (s \cup {x}) = V \cup {x}
    OBVIOUS
  <2>3. \A y \in V \cup {x} : f[y] \in Int /\ f[y] \in Nat
    BY <2>1
  <2>4. (Tot(S) <= Tot(V)) /\ (Zero(s) => Tot(S) = Tot(V))
    BY <1>2
  <2> HIDE DEF V
  <2>5. Tot(V \cup {x}) = Tot(V) + f[x] /\ Tot(V) \in Nat
    BY <2>1, <2>3, SumAdd, SumNat
  <2>6. f[x] \in Nat /\ (Zero(s \cup {x}) => Zero(s) /\ f[x] = 0)
    BY <2>1
  <2> HIDE DEF Tot, Zero
  <2>7. /\ Tot(S) <= Tot(V \cup {x})
        /\ Zero(s \cup {x}) => Tot(S) = Tot(V \cup {x})
    BY <1>0, <2>4, <2>5, <2>6
  <2> QED BY <2>2, <2>7
<1> HIDE DEF G
<1>3. U \in G
  BY <1>0, <1>1, <1>2, SubsetInduction
<1>4. S \cup U = T
  OBVIOUS
<1> HIDE DEF Tot
<1>5. Tot(S) <= Tot(T) /\ (Zero(U) => Tot(S) = Tot(T))
  BY <1>3, <1>4 DEF G
<1> QED BY <1>5 DEF Tot, Zero, U
================================================================================
