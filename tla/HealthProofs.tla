---------------------------- MODULE HealthProofs ----------------------------
(***************************************************************************)
(* What the scoring functions promise, for pods with any containers, any   *)
(* restart rate and any number of replicas.                                *)
(***************************************************************************)
EXTENDS Damage, TLAPS, FiniteSetTheorems, WellFoundedInduction

(* The four states are different, and their ranks are in order. *)
LEMMA Ranks ==
    /\ Healthy # Degraded /\ Healthy # Unhealthy /\ Degraded # Unhealthy
    /\ stateRank(Healthy) = 0 /\ stateRank(Degraded) = 1 /\ stateRank(Unhealthy) = 2
BY DEF Healthy, Degraded, Unhealthy, stateRank

LEMMA ElevatedFrom20 ==
    ASSUME NEW rate \in Nat
    PROVE  Elevated(rate) = {} <=> ~(rate >= 20)
<1>1. CASE rate >= 20
  <2>1. <<"elevated restarts">> \in Elevated(rate)
    BY <1>1, Zenon DEF Elevated
  <2> QED BY <1>1, <2>1
<1>2. CASE ~(rate >= 20)
  BY <1>2, Zenon DEF Elevated
<1> QED BY <1>1, <1>2

-----------------------------------------------------------------------------
(***************************************************************************)
(* Sets of numbers, and induction: over the natural numbers, and over the  *)
(* subsets of a finite set, in the order in which the folds of the         *)
(* community modules take their elements out.                              *)
(***************************************************************************)
(* The least of a non-empty set of numbers is one of them. *)
LEMMA MinIsIn ==
    ASSUME NEW S, S \subseteq Nat, S # {}
    PROVE  Min(S) \in S
<1>1. PICK m \in S : \A j \in S : <<j, m>> \notin OpToRel(<, Nat)
  BY NatLessThanWellFounded, WFMin
<1>2. \A j \in S : ~(j < m)
  <2>1. \A j \in Nat : j < m => <<j, m>> \in OpToRel(<, Nat)
    BY DEF OpToRel
  <2> QED BY <1>1, <2>1
<1>3. \A j \in S : m <= j
  BY <1>2
<1> QED BY <1>3 DEF Min

(* Induction without a predicate: with the set of which it holds. *)
LEMMA NatInductionOnSets ==
    ASSUME NEW S, 0 \in S, \A n \in S \cap Nat : n + 1 \in S
    PROVE  Nat \subseteq S
<1> SUFFICES ASSUME Nat \ S # {} PROVE FALSE
  OBVIOUS
<1>1. PICK m \in Nat \ S : \A j \in Nat \ S : <<j, m>> \notin OpToRel(<, Nat)
  BY NatLessThanWellFounded, WFMin
<1>2. m # 0
  OBVIOUS
<1>3. m - 1 \in Nat /\ m - 1 < m /\ (m - 1) + 1 = m
  BY <1>2
<1>4. <<m - 1, m>> \in OpToRel(<, Nat)
  BY <1>3 DEF OpToRel
<1>5. m - 1 \in S
  BY <1>1, <1>3, <1>4
<1>6. (m - 1) + 1 \in S
  BY <1>3, <1>5
<1> QED BY <1>3, <1>6

(* Quotients are rounded down. *)
LEMMA Quotient ==
    ASSUME NEW a \in Nat, NEW b \in Nat, b >= 1
    PROVE  a \div b \in Nat /\ (a \div b) * b <= a /\ a \div b <= a
OBVIOUS

LEMMA QuotientIsLargest ==
    ASSUME NEW a \in Nat, NEW b \in Nat, b >= 1, NEW q \in Nat, q * b <= a
    PROVE  q <= a \div b
OBVIOUS

(* The element that a fold takes next, and what is left then. *)
OneOf(S) == CHOOSE x \in S : TRUE
Rest(S) == S \ {OneOf(S)}
LEMMA OneOfIsIn == ASSUME NEW S, S # {} PROVE OneOf(S) \in S
BY DEF OneOf

(* Of the subsets of a finite set that are not in G, one has no smaller. *)
LEMMA SmallestOutside ==
    ASSUME NEW S, IsFiniteSet(S), NEW G, (SUBSET S) \ G # {}
    PROVE  \E T \in (SUBSET S) \ G : \A U \in SUBSET T : U # T => U \in G
<1>1. IsWellFoundedOn(StrictSubsetOrdering(S), SUBSET S)
  BY FS_StrictSubsetOrderingWellFounded, FS_FiniteSubsetsOfFinite
<1>2. PICK T \in (SUBSET S) \ G : \A U \in (SUBSET S) \ G : <<U, T>> \notin StrictSubsetOrdering(S)
  BY <1>1, WFMin
<1>3. ASSUME NEW U \in SUBSET T, U # T PROVE U \in G
  <2>1. U \in SUBSET S /\ <<U, T>> \in StrictSubsetOrdering(S)
    BY <1>3, Zenon DEF StrictSubsetOrdering
  <2> QED BY <1>2, <2>1
<1> QED BY <1>3

(* What holds of a set as soon as it holds of every smaller one holds of
   every finite set. *)
Inherits(G, S) == \A T \in SUBSET S : (\A U \in SUBSET T : U # T => U \in G) => T \in G

LEMMA SmallerFirst ==
    ASSUME NEW S, IsFiniteSet(S), NEW G, Inherits(G, S)
    PROVE  SUBSET S \subseteq G
<1> SUFFICES ASSUME (SUBSET S) \ G # {} PROVE FALSE
  OBVIOUS
<1>1. PICK T \in (SUBSET S) \ G : \A U \in SUBSET T : U # T => U \in G
  BY SmallestOutside
<1> QED BY <1>1 DEF Inherits

(* What holds of the empty set, and of a set as soon as it holds without one
   of its elements, holds of a finite set. *)
LEMMA FiniteInduction ==
    ASSUME NEW S, IsFiniteSet(S), NEW G, {} \in G,
           \A T \in SUBSET S : T # {} /\ Rest(T) \in G => T \in G
    PROVE  SUBSET S \subseteq G
<1>1. ASSUME NEW T \in SUBSET S, \A U \in SUBSET T : U # T => U \in G
      PROVE  T \in G
  <2>1. CASE T = {}
    BY <2>1
  <2>2. CASE T # {}
    <3>1. Rest(T) \in SUBSET T /\ Rest(T) # T
      BY <2>2, OneOfIsIn DEF Rest
    <3> QED BY <1>1, <2>2, <3>1
  <2> QED BY <2>1, <2>2
<1>2. Inherits(G, S)
  BY <1>1 DEF Inherits
<1> QED BY <1>2, SmallerFirst

LEMMA Smaller ==
    ASSUME NEW S, NEW T \in SUBSET S, T # {}
    PROVE  T \ {OneOf(T)} \in SetLessThan(T, StrictSubsetOrdering(S), SUBSET S)
BY OneOfIsIn, Zenon DEF SetLessThan, StrictSubsetOrdering

-----------------------------------------------------------------------------
(***************************************************************************)
(* Sums over the elements of a finite set, as MapThenSumSet takes them,    *)
(* one element after the other: in which order makes no difference.        *)
(***************************************************************************)
PlusStep(f, g, T) == IF T = {} THEN 0 ELSE f[OneOf(T)] + g[T \ {OneOf(T)}]
Sums(f, S) == CHOOSE g : g = [T \in SUBSET S |-> PlusStep(f, g, T)]
Total(f, S) == Sums(f, S)[S]

LEMMA SumsEquation ==
    ASSUME NEW S, IsFiniteSet(S), NEW f
    PROVE  Sums(f, S) = [T \in SUBSET S |-> PlusStep(f, Sums(f, S), T)]
<1> DEFINE R == StrictSubsetOrdering(S)
           Step(g, T) == PlusStep(f, g, T)
           it == CHOOSE g : g = [T \in SUBSET S |-> Step(g, T)]
<1>1. IsWellFoundedOn(R, SUBSET S)
  BY FS_StrictSubsetOrderingWellFounded, FS_FiniteSubsetsOfFinite
<1>2. WFDefOn(R, SUBSET S, Step)
  BY Smaller, Zenon DEF WFDefOn, PlusStep
<1>3. OpDefinesFcn(it, SUBSET S, Step)
  BY DEF OpDefinesFcn
<1>4. WFInductiveDefines(it, SUBSET S, Step)
  <2> HIDE DEF it, Step
  <2> QED BY <1>1, <1>2, <1>3, WFInductiveDef
<1>5. it = Sums(f, S)
  BY Zenon DEF Sums
<1> QED BY <1>4, <1>5 DEF WFInductiveDefines

LEMMA SumOfNone ==
    ASSUME NEW S, IsFiniteSet(S), NEW f
    PROVE  {} \in SUBSET S /\ Sums(f, S)[{}] = 0
<1> DEFINE it == Sums(f, S)
<1>1. it = [T \in SUBSET S |-> PlusStep(f, it, T)]
  BY SumsEquation
<1> HIDE DEF it
<1>2. {} \in SUBSET S
  OBVIOUS
<1>3. it[{}] = PlusStep(f, it, {})
  BY <1>1, <1>2, Zenon
<1> QED BY <1>2, <1>3 DEF PlusStep, it

IsPart(T, S) == T # {} /\ T \subseteq S

LEMMA PartSplits ==
    ASSUME NEW S, NEW T, IsPart(T, S)
    PROVE  /\ OneOf(T) \in T /\ OneOf(T) \in S /\ Rest(T) \subseteq S
           /\ T = Rest(T) \cup {OneOf(T)} /\ OneOf(T) \notin Rest(T)
BY OneOfIsIn DEF IsPart, Rest

LEMMA SumsStep ==
    ASSUME NEW S, IsFiniteSet(S), NEW f, NEW T, IsPart(T, S)
    PROVE  Sums(f, S)[T] = f[OneOf(T)] + Sums(f, S)[Rest(T)]
<1> DEFINE it == Sums(f, S)
<1>1. it = [U \in SUBSET S |-> PlusStep(f, it, U)]
  BY SumsEquation
<1> HIDE DEF it
<1>2. T \in SUBSET S /\ T # {}
  BY DEF IsPart
<1>3. it[T] = PlusStep(f, it, T)
  BY <1>1, <1>2, Zenon
<1>4. it[T] = f[OneOf(T)] + it[Rest(T)]
  BY <1>2, <1>3 DEF PlusStep, Rest
<1> QED BY <1>4 DEF it

(* Of two functions f and g, at the elements of S: natural numbers, where
   they agree, and how they compare. *)
Counts(f, S) == \A x \in S : f[x] \in Nat
Agree(f, g, S) == \A x \in S : f[x] = g[x]
NowhereAbove(f, g, S) == \A x \in S : f[x] <= g[x]
IsMultiple(g, k, f, S) == k \in Nat /\ \A x \in S : g[x] = k * f[x]

LEMMA SumsAreNumbers ==
    ASSUME NEW S, IsFiniteSet(S), NEW f, Counts(f, S)
    PROVE  \A T \in SUBSET S : Sums(f, S)[T] \in Nat
<1> DEFINE G == {T \in SUBSET S : Sums(f, S)[T] \in Nat}
<1>1. {} \in G
  BY SumOfNone
<1>2. ASSUME NEW T \in SUBSET S, T # {}, Rest(T) \in G PROVE T \in G
  <2>1. IsPart(T, S)
    BY <1>2 DEF IsPart
  <2>2. OneOf(T) \in S
    BY <2>1, PartSplits
  <2>3. Sums(f, S)[T] = f[OneOf(T)] + Sums(f, S)[Rest(T)]
    BY <2>1, SumsStep
  <2> QED BY <1>2, <2>2, <2>3 DEF Counts
<1> HIDE DEF G
<1>3. SUBSET S \subseteq G
  BY <1>1, <1>2, FiniteInduction
<1> QED BY <1>3 DEF G

(* Any element may be taken first. *)
LEMMA SumsAnyOrder ==
    ASSUME NEW S, IsFiniteSet(S), NEW f, Counts(f, S)
    PROVE  \A T \in SUBSET S : \A x \in T : Sums(f, S)[T] = f[x] + Sums(f, S)[T \ {x}]
<1> DEFINE G == {T \in SUBSET S : \A x \in T : Sums(f, S)[T] = f[x] + Sums(f, S)[T \ {x}]}
<1>1. ASSUME NEW T \in SUBSET S, \A U \in SUBSET T : U # T => U \in G
      PROVE  T \in G
  <2> SUFFICES ASSUME NEW x \in T PROVE Sums(f, S)[T] = f[x] + Sums(f, S)[T \ {x}]
    OBVIOUS
  <2> DEFINE y == OneOf(T)
  <2>0. IsPart(T, S)
    BY DEF IsPart
  <2>1. y \in T /\ Sums(f, S)[T] = f[y] + Sums(f, S)[T \ {y}]
    BY <2>0, SumsStep, PartSplits DEF Rest
  <2>2. CASE x = y
    BY <2>1, <2>2
  <2>3. CASE x # y
    <3>1. T \ {y} \in G /\ T \ {x} \in G
      BY <1>1, <2>1
    <3>2. x \in T \ {y} /\ y \in T \ {x}
      BY <2>1, <2>3
    <3> HIDE DEF y
    <3>3. Sums(f, S)[T \ {y}] = f[x] + Sums(f, S)[(T \ {y}) \ {x}]
      BY <3>1, <3>2
    <3>4. Sums(f, S)[T \ {x}] = f[y] + Sums(f, S)[(T \ {x}) \ {y}]
      BY <3>1, <3>2
    <3>5. (T \ {y}) \ {x} = (T \ {x}) \ {y}
      OBVIOUS
    <3>6. (T \ {y}) \ {x} \in SUBSET S
      OBVIOUS
    <3>7. Sums(f, S)[(T \ {y}) \ {x}] \in Nat /\ f[x] \in Nat /\ f[y] \in Nat
      BY <3>6, <2>1, SumsAreNumbers DEF Counts
    <3> DEFINE rest == Sums(f, S)[(T \ {y}) \ {x}]
    <3>8. /\ Sums(f, S)[T \ {y}] = f[x] + rest
          /\ Sums(f, S)[T \ {x}] = f[y] + rest
          /\ rest \in Nat
      BY <3>3, <3>4, <3>5, <3>7
    <3> HIDE DEF rest
    <3> QED BY <2>1, <3>7, <3>8
  <2> QED BY <2>2, <2>3
<1> HIDE DEF G
<1>2. Inherits(G, S)
  BY <1>1 DEF Inherits
<1>3. SUBSET S \subseteq G
  BY <1>2, SmallerFirst
<1> QED BY <1>3 DEF G

LEMMA SumsSplit ==
    ASSUME NEW S, IsFiniteSet(S), NEW f, Counts(f, S), NEW x \in S
    PROVE  /\ Sums(f, S)[S] = f[x] + Sums(f, S)[S \ {x}]
           /\ Sums(f, S)[S \ {x}] \in Nat
<1>1. S \in SUBSET S /\ S \ {x} \in SUBSET S
  OBVIOUS
<1>2. Sums(f, S)[S] = f[x] + Sums(f, S)[S \ {x}]
  BY <1>1, SumsAnyOrder
<1>3. Sums(f, S)[S \ {x}] \in Nat
  BY <1>1, SumsAreNumbers
<1> QED BY <1>2, <1>3

(* Only the values at the elements of a set matter for its sum. *)
LEMMA SumsAgree ==
    ASSUME NEW S, IsFiniteSet(S), NEW f, NEW R, IsFiniteSet(R), NEW g,
           NEW T \in SUBSET S, T \subseteq R, Agree(f, g, T)
    PROVE  Sums(f, S)[T] = Sums(g, R)[T]
<1> DEFINE G == {U \in SUBSET T : Sums(f, S)[U] = Sums(g, R)[U]}
<1>0. IsFiniteSet(T)
  BY FS_Subset
<1>1. {} \in G
  BY SumOfNone
<1>2. ASSUME NEW U \in SUBSET T, U # {}, Rest(U) \in G PROVE U \in G
  <2>0. IsPart(U, S) /\ IsPart(U, R) /\ IsPart(U, T)
    BY <1>2 DEF IsPart
  <2>1. Sums(f, S)[U] = f[OneOf(U)] + Sums(f, S)[Rest(U)]
    BY <2>0, SumsStep
  <2>2. Sums(g, R)[U] = g[OneOf(U)] + Sums(g, R)[Rest(U)]
    BY <2>0, SumsStep
  <2>3. OneOf(U) \in T
    BY <2>0, PartSplits
  <2> QED BY <1>2, <2>1, <2>2, <2>3 DEF Agree
<1> HIDE DEF G
<1>3. SUBSET T \subseteq G
  BY <1>0, <1>1, <1>2, FiniteInduction
<1> QED BY <1>3 DEF G

(* h carries the elements of K over to some of R, no two of them to one,
   and g is there what f is here. *)
Carries(h, K, R, f, g) ==
    /\ \A k \in K : h[k] \in R /\ g[h[k]] = f[k]
    /\ \A k, l \in K : h[k] = h[l] => k = l

LEMMA SumsTake ==
    ASSUME NEW S, IsFiniteSet(S), NEW f, Counts(f, S), NEW T \in SUBSET S, NEW x \in T
    PROVE  Sums(f, S)[T] = f[x] + Sums(f, S)[T \ {x}]
BY SumsAnyOrder

LEMMA SumsCarried ==
    ASSUME NEW K, IsFiniteSet(K), NEW f, NEW R, IsFiniteSet(R), NEW g, Counts(g, R),
           NEW h, Carries(h, K, R, f, g)
    PROVE  \A T \in SUBSET K : Sums(g, R)[{h[k] : k \in T}] = Sums(f, K)[T]
<1> DEFINE Image(T) == {h[k] : k \in T}
           G == {T \in SUBSET K : Sums(g, R)[Image(T)] = Sums(f, K)[T]}
<1>1. {} \in G
  <2>1. Image({}) = {}
    OBVIOUS
  <2> QED BY <2>1, SumOfNone
<1>2. ASSUME NEW T \in SUBSET K, T # {}, Rest(T) \in G PROVE T \in G
  <2> DEFINE y == OneOf(T)
             U == Rest(T)
  <2>1. IsPart(T, K)
    BY <1>2 DEF IsPart
  <2>2. y \in T /\ y \in K /\ U \subseteq K /\ T = U \cup {y} /\ y \notin U
    BY <2>1, PartSplits
  <2>3. Sums(f, K)[T] = f[y] + Sums(f, K)[U]
    BY <2>1, SumsStep
  <2>4. Sums(g, R)[Image(U)] = Sums(f, K)[U]
    BY <1>2
  <2> HIDE DEF y, U
  <2>5. h[y] \in Image(T) /\ Image(T) \in SUBSET R /\ g[h[y]] = f[y]
    BY <2>2 DEF Carries
  <2>6. Image(T) \ {h[y]} = Image(U)
    BY <2>2 DEF Carries
  <2> HIDE DEF Image
  <2>7. Sums(g, R)[Image(T)] = g[h[y]] + Sums(g, R)[Image(T) \ {h[y]}]
    <3>1. PICK I \in SUBSET R : I = Image(T)
      BY <2>5
    <3>2. PICK e \in I : e = h[y]
      BY <2>5, <3>1
    <3>3. Sums(g, R)[I] = g[e] + Sums(g, R)[I \ {e}]
      BY SumsTake
    <3> QED BY <3>1, <3>2, <3>3, Zenon
  <2>8. Sums(g, R)[Image(T)] = Sums(f, K)[T]
    BY <2>3, <2>4, <2>5, <2>6, <2>7
  <2> QED BY <2>8
<1> HIDE DEF G
<1>3. SUBSET K \subseteq G
  BY <1>1, <1>2, FiniteInduction
<1> QED BY <1>3 DEF G

LEMMA SumsMonotone ==
    ASSUME NEW S, IsFiniteSet(S), NEW f, NEW g,
           Counts(f, S), Counts(g, S), NowhereAbove(f, g, S)
    PROVE  \A T \in SUBSET S : Sums(f, S)[T] <= Sums(g, S)[T]
<1> DEFINE G == {T \in SUBSET S : Sums(f, S)[T] <= Sums(g, S)[T]}
<1>1. {} \in G
  BY SumOfNone
<1>2. ASSUME NEW T \in SUBSET S, T # {}, Rest(T) \in G PROVE T \in G
  <2>0. IsPart(T, S)
    BY <1>2 DEF IsPart
  <2>1. /\ Sums(f, S)[T] = f[OneOf(T)] + Sums(f, S)[Rest(T)]
        /\ Sums(g, S)[T] = g[OneOf(T)] + Sums(g, S)[Rest(T)]
    BY <2>0, SumsStep
  <2>2. OneOf(T) \in S /\ Rest(T) \in SUBSET S
    BY <2>0, PartSplits
  <2>3. Sums(f, S)[Rest(T)] \in Nat /\ Sums(g, S)[Rest(T)] \in Nat
    BY <2>2, SumsAreNumbers
  <2> QED BY <1>2, <2>1, <2>2, <2>3 DEF Counts, NowhereAbove
<1> HIDE DEF G
<1>3. SUBSET S \subseteq G
  BY <1>1, <1>2, FiniteInduction
<1> QED BY <1>3 DEF G

LEMMA Distributes ==
    \A k, a, b \in Nat : k * (a + b) = k * a + k * b /\ k * a \in Nat
OBVIOUS

LEMMA SumsTimes ==
    ASSUME NEW S, IsFiniteSet(S), NEW f, NEW g, NEW k,
           Counts(f, S), IsMultiple(g, k, f, S)
    PROVE  \A T \in SUBSET S : Sums(g, S)[T] = k * Sums(f, S)[T]
<1> DEFINE G == {T \in SUBSET S : Sums(g, S)[T] = k * Sums(f, S)[T]}
<1>1. {} \in G
  BY SumOfNone DEF IsMultiple
<1>2. ASSUME NEW T \in SUBSET S, T # {}, Rest(T) \in G PROVE T \in G
  <2>0. IsPart(T, S)
    BY <1>2 DEF IsPart
  <2> HIDE DEF G
  <2>1. /\ Sums(f, S)[T] = f[OneOf(T)] + Sums(f, S)[Rest(T)]
        /\ Sums(g, S)[T] = g[OneOf(T)] + Sums(g, S)[Rest(T)]
    BY <2>0, SumsStep
  <2>2. OneOf(T) \in S /\ Rest(T) \in SUBSET S
    BY <2>0, PartSplits
  <2>3. /\ Sums(f, S)[Rest(T)] \in Nat /\ f[OneOf(T)] \in Nat /\ k \in Nat
        /\ g[OneOf(T)] = k * f[OneOf(T)]
    BY <2>2, SumsAreNumbers DEF Counts, IsMultiple
  <2>4. Sums(g, S)[Rest(T)] = k * Sums(f, S)[Rest(T)]
    BY <1>2 DEF G
  <2>5. Sums(g, S)[T] = k * Sums(f, S)[T]
    BY <2>1, <2>3, <2>4, Distributes
  <2> QED BY <2>5 DEF G
<1> HIDE DEF G
<1>3. SUBSET S \subseteq G
  BY <1>1, <1>2, FiniteInduction
<1> QED BY <1>3 DEF G

(* Elements with value zero add nothing. *)
LEMMA SumsPadded ==
    ASSUME NEW S, IsFiniteSet(S), NEW f, Counts(f, S),
           NEW P \in SUBSET S, Agree(f, [x \in S |-> 0], S \ P)
    PROVE  Sums(f, S)[S] = Sums(f, S)[P]
<1> DEFINE G == {T \in SUBSET S : Sums(f, S)[T] = Sums(f, S)[T \cap P]}
<1>1. {} \in G
  BY {} \cap P = {}
<1>2. ASSUME NEW T \in SUBSET S, T # {}, Rest(T) \in G PROVE T \in G
  <2> DEFINE y == OneOf(T)
             U == Rest(T)
  <2>0. IsPart(T, S)
    BY <1>2 DEF IsPart
  <2>1. Sums(f, S)[T] = f[y] + Sums(f, S)[U]
    BY <2>0, SumsStep
  <2>2. y \in T /\ U \in SUBSET S /\ T = U \cup {y} /\ y \notin U
    BY <2>0, PartSplits
  <2>3. Sums(f, S)[U] = Sums(f, S)[U \cap P] /\ Sums(f, S)[U] \in Nat
    BY <1>2, <2>2, SumsAreNumbers
  <2> HIDE DEF y, U
  <2>4. CASE y \in P
    <3>1. T \cap P \in SUBSET S /\ y \in T \cap P
      BY <2>2, <2>4
    <3>2. Sums(f, S)[T \cap P] = f[y] + Sums(f, S)[(T \cap P) \ {y}]
      BY <3>1, SumsAnyOrder
    <3>3. (T \cap P) \ {y} = U \cap P
      BY <2>2
    <3> QED BY <2>1, <2>3, <3>2, <3>3
  <2>5. CASE y \notin P
    <3>1. T \cap P = U \cap P
      BY <2>2, <2>5
    <3>2. f[y] = 0
      BY <2>2, <2>5 DEF Agree
    <3>3. Sums(f, S)[T] = Sums(f, S)[U]
      BY <2>1, <2>3, <3>2
    <3>4. Sums(f, S)[T] = Sums(f, S)[T \cap P]
      BY <2>3, <3>1, <3>3, Zenon
    <3> QED BY <3>4
  <2> QED BY <2>4, <2>5
<1> HIDE DEF G
<1>3. SUBSET S \subseteq G
  BY <1>1, <1>2, FiniteInduction
<1>4. S \cap P = P /\ S \in G
  BY <1>3
<1> QED BY <1>4 DEF G

-----------------------------------------------------------------------------
(***************************************************************************)
(* The two sums of Aggregate, over a bag of results.                       *)
(***************************************************************************)
IsBag(b) ==
    /\ IsFiniteSet(DOMAIN b)
    /\ \A r \in DOMAIN b : b[r] \in Nat /\ r.score \in 0..Unit

CountAt(b) == [r \in DOMAIN b |-> IF r.state = Unknown THEN 0 ELSE b[r]]
ScoreAt(b) == [r \in DOMAIN b |-> IF r.state = Unknown THEN 0 ELSE b[r] * r.score]

LEMMA Products == \A a, b \in Nat : a * b \in Nat /\ (b = 0 => a * b = 0) /\ (a = 0 => a * b = 0)
OBVIOUS

LEMMA UnitIsNat == Unit \in Nat /\ Unit >= 10 /\ Unit \div 10 \in Nat /\ Unit = 10 * (Unit \div 10) /\ Unit \div 10 >= 1
BY UnitAssumption

LEMMA BagCounts ==
    ASSUME NEW b, IsBag(b)
    PROVE  /\ Counts(CountAt(b), DOMAIN b) /\ Counts(ScoreAt(b), DOMAIN b)
           /\ Scored(b) \in SUBSET DOMAIN b
           /\ Agree(CountAt(b), [r \in DOMAIN b |-> 0], DOMAIN b \ Scored(b))
           /\ Agree(ScoreAt(b), [r \in DOMAIN b |-> 0], DOMAIN b \ Scored(b))
<1>1. \A r \in DOMAIN b : b[r] \in Nat /\ r.score \in Nat
  BY UnitIsNat DEF IsBag
<1>2. \A r \in DOMAIN b : b[r] * r.score \in Nat /\ (b[r] = 0 => b[r] * r.score = 0)
  BY <1>1, Products
<1>3. Counts(CountAt(b), DOMAIN b)
  BY <1>1 DEF Counts, CountAt
<1>4. Counts(ScoreAt(b), DOMAIN b)
  BY <1>2 DEF Counts, ScoreAt
<1>5. Scored(b) \in SUBSET DOMAIN b
  BY DEF Scored
<1>6. \A r \in DOMAIN b \ Scored(b) : b[r] = 0 \/ r.state = Unknown
  BY <1>1 DEF Scored
<1>7. Agree(CountAt(b), [r \in DOMAIN b |-> 0], DOMAIN b \ Scored(b))
  BY <1>6 DEF Agree, CountAt
<1>8. Agree(ScoreAt(b), [r \in DOMAIN b |-> 0], DOMAIN b \ Scored(b))
  BY <1>2, <1>6 DEF Agree, ScoreAt
<1> QED BY <1>3, <1>4, <1>5, <1>7, <1>8

LEMMA CountIsTotal ==
    ASSUME NEW b, IsBag(b)
    PROVE  CountOf(b) = Total(CountAt(b), DOMAIN b) /\ CountOf(b) \in Nat
<1> DEFINE S == Scored(b)
           f == [r \in S |-> b[r]]
           A(g) == [T \in SUBSET S |-> PlusStep(f, g, T)]
           B(g) == [T \in SUBSET S |-> IF T = {} THEN 0 ELSE b[OneOf(T)] + g[T \ {OneOf(T)}]]
<1> HIDE DEF S
<1>1. ASSUME NEW g PROVE A(g) = B(g)
  <2>1. \A T \in SUBSET S : T # {} => f[OneOf(T)] = b[OneOf(T)]
    BY OneOfIsIn
  <2> HIDE DEF f
  <2>2. \A T \in SUBSET S : PlusStep(f, g, T) = B(g)[T]
    BY <2>1, Zenon DEF PlusStep
  <2> QED BY <2>2
<1>2. (CHOOSE g : g = A(g)) = (CHOOSE g : g = B(g))
  <2> HIDE DEF A, B
  <2> QED BY <1>1
<1>3. MapThenSumSet(LAMBDA r : b[r], S) = (CHOOSE g : g = B(g))[S]
  BY Zenon DEF MapThenSumSet, MapThenFoldSet, OneOf
<1>4. CountOf(b) = Sums(f, S)[S]
  BY <1>2, <1>3 DEF CountOf, S, Sums
<1>5. S \in SUBSET DOMAIN b /\ Counts(CountAt(b), DOMAIN b) /\ IsFiniteSet(DOMAIN b)
  BY BagCounts DEF S, IsBag
<1>6. IsFiniteSet(S)
  BY <1>5, FS_Subset
<1>7. Agree(f, CountAt(b), S)
  BY DEF Agree, S, Scored, CountAt
<1>8. Sums(f, S)[S] = Sums(CountAt(b), DOMAIN b)[S]
  <2> HIDE DEF f
  <2> QED BY <1>5, <1>6, <1>7, SumsAgree
<1>9. Sums(CountAt(b), DOMAIN b)[DOMAIN b] = Sums(CountAt(b), DOMAIN b)[S]
  BY <1>5, BagCounts, SumsPadded DEF S
<1>10. Total(CountAt(b), DOMAIN b) \in Nat
  BY <1>5, SumsAreNumbers DEF Total
<1> QED BY <1>4, <1>8, <1>9, <1>10 DEF Total

LEMMA SumIsTotal ==
    ASSUME NEW b, IsBag(b)
    PROVE  SumOf(b) = Total(ScoreAt(b), DOMAIN b) /\ SumOf(b) \in Nat
<1> DEFINE S == Scored(b)
           f == [r \in S |-> b[r] * r.score]
           A(g) == [T \in SUBSET S |-> PlusStep(f, g, T)]
           B(g) == [T \in SUBSET S |-> IF T = {} THEN 0
                                     ELSE b[OneOf(T)] * OneOf(T).score + g[T \ {OneOf(T)}]]
<1> HIDE DEF S
<1>1. ASSUME NEW g PROVE A(g) = B(g)
  <2>1. \A T \in SUBSET S : T # {} => f[OneOf(T)] = b[OneOf(T)] * OneOf(T).score
    BY OneOfIsIn
  <2> HIDE DEF f
  <2>2. \A T \in SUBSET S : PlusStep(f, g, T) = B(g)[T]
    BY <2>1, Zenon DEF PlusStep
  <2> QED BY <2>2
<1>2. (CHOOSE g : g = A(g)) = (CHOOSE g : g = B(g))
  <2> HIDE DEF A, B
  <2> QED BY <1>1
<1>3. MapThenSumSet(LAMBDA r : b[r] * r.score, S) = (CHOOSE g : g = B(g))[S]
  BY Zenon DEF MapThenSumSet, MapThenFoldSet, OneOf
<1>4. SumOf(b) = Sums(f, S)[S]
  BY <1>2, <1>3 DEF SumOf, S, Sums
<1>5. S \in SUBSET DOMAIN b /\ Counts(ScoreAt(b), DOMAIN b) /\ IsFiniteSet(DOMAIN b)
  BY BagCounts DEF S, IsBag
<1>6. IsFiniteSet(S)
  BY <1>5, FS_Subset
<1>7. Agree(f, ScoreAt(b), S)
  BY DEF Agree, S, Scored, ScoreAt
<1>8. Sums(f, S)[S] = Sums(ScoreAt(b), DOMAIN b)[S]
  <2> HIDE DEF f
  <2> QED BY <1>5, <1>6, <1>7, SumsAgree
<1>9. Sums(ScoreAt(b), DOMAIN b)[DOMAIN b] = Sums(ScoreAt(b), DOMAIN b)[S]
  BY <1>5, BagCounts, SumsPadded DEF S
<1>10. Total(ScoreAt(b), DOMAIN b) \in Nat
  BY <1>5, SumsAreNumbers DEF Total
<1> QED BY <1>4, <1>8, <1>9, <1>10 DEF Total

-----------------------------------------------------------------------------
(***************************************************************************)
(* Roll-ups: how the mean, the worst child and the reasons go together.    *)
(***************************************************************************)
IsResult(r) ==
    /\ r.state \in States
    /\ r.state = Healthy => 100 * r.score >= 99 * Unit
    /\ r.state \in {Degraded, Unhealthy} => r.reasons # {}

LEMMA Means ==
    ASSUME NEW n \in Nat, NEW u \in Nat
    PROVE  99 * n * u = (99 * u) * n /\ (99 * u) * n \in Nat
OBVIOUS

LEMMA NobodyCounted ==
    ASSUME NEW b, IsBag(b), NEW r \in DOMAIN b, b[r] > 0, r.state # Unknown
    PROVE  CountOf(b) > 0
<1> DEFINE R == DOMAIN b
           f == CountAt(b)
<1>1. IsFiniteSet(R) /\ Counts(f, R) /\ f[r] = b[r] /\ b[r] \in Nat
  BY BagCounts DEF IsBag, CountAt
<1>2. CountOf(b) = Sums(f, R)[R]
  BY CountIsTotal DEF Total
<1> HIDE DEF f, R
<1>3. r \in R
  BY DEF R
<1>4. Sums(f, R)[R] = f[r] + Sums(f, R)[R \ {r}]
  BY <1>1, <1>3, SumsAnyOrder
<1>5. Sums(f, R)[R \ {r}] \in Nat
  BY <1>1, SumsAreNumbers
<1> QED BY <1>1, <1>2, <1>4, <1>5

(* If all the scored children are healthy, the mean is too. *)
LEMMA HealthyMean ==
    ASSUME NEW b, IsBag(b), \A r \in Scored(b) : 100 * r.score >= 99 * Unit
    PROVE  100 * SumOf(b) >= 99 * CountOf(b) * Unit
<1> DEFINE R == DOMAIN b
           f == CountAt(b)
           g == ScoreAt(b)
           ff == [r \in R |-> (99 * Unit) * f[r]]
           gg == [r \in R |-> 100 * g[r]]
<1>1. IsFiniteSet(R) /\ Counts(f, R) /\ Counts(g, R)
  BY BagCounts DEF IsBag
<1>2. IsMultiple(ff, 99 * Unit, f, R) /\ IsMultiple(gg, 100, g, R)
  BY UnitIsNat DEF IsMultiple
<1>3. Counts(ff, R) /\ Counts(gg, R)
  BY <1>1, UnitIsNat, Products DEF Counts
<1>4. ASSUME NEW r \in R PROVE ff[r] <= gg[r]
  <2>1. b[r] \in Nat /\ r.score \in Nat /\ Unit \in Nat
    BY UnitIsNat DEF IsBag
  <2>2. CASE r.state = Unknown
    BY <2>1, <2>2 DEF CountAt, ScoreAt
  <2>3. CASE r.state # Unknown /\ b[r] = 0
    BY <2>1, <2>3, Products DEF CountAt, ScoreAt
  <2>4. CASE r.state # Unknown /\ b[r] > 0
    <3>1. 100 * r.score >= 99 * Unit
      BY <2>4 DEF Scored
    <3>2. ff[r] = (99 * Unit) * b[r] /\ gg[r] = 100 * (b[r] * r.score)
      BY <2>4 DEF CountAt, ScoreAt
    <3>3. \A k, x, y \in Nat : 100 * x >= 99 * y => (99 * y) * k <= 100 * (k * x)
      OBVIOUS
    <3> QED BY <2>1, <3>1, <3>2, <3>3
  <2> QED BY <2>1, <2>2, <2>3, <2>4
<1>5. NowhereAbove(ff, gg, R)
  BY <1>4, Zenon DEF NowhereAbove
<1>6. CountOf(b) = Sums(f, R)[R] /\ SumOf(b) = Sums(g, R)[R] /\ CountOf(b) \in Nat /\ SumOf(b) \in Nat
  BY CountIsTotal, SumIsTotal DEF Total
<1> HIDE DEF ff, gg, f, g, R
<1>7. Sums(ff, R)[R] <= Sums(gg, R)[R]
  BY <1>1, <1>3, <1>5, SumsMonotone
<1>8. Sums(ff, R)[R] = (99 * Unit) * Sums(f, R)[R]
  BY <1>1, <1>2, SumsTimes
<1>9. Sums(gg, R)[R] = 100 * Sums(g, R)[R]
  BY <1>1, <1>2, SumsTimes
<1> QED BY <1>6, <1>7, <1>8, <1>9, Means, UnitIsNat

(* The scores of alike children, against the best that they could be. *)
LEMMA ScoreBelowUnit ==
    ASSUME NEW b, IsBag(b), NEW r \in DOMAIN b
    PROVE  ScoreAt(b)[r] <= [q \in DOMAIN b |-> Unit * CountAt(b)[q]][r]
<1>1. b[r] \in Nat /\ r.score \in Nat /\ r.score <= Unit /\ Unit \in Nat
  BY UnitIsNat DEF IsBag
<1>2. CASE r.state = Unknown
  BY <1>1, <1>2 DEF CountAt, ScoreAt
<1>3. CASE r.state # Unknown
  <2>1. \A k, y, z \in Nat : y <= z => k * y <= z * k
    OBVIOUS
  <2> QED BY <1>1, <1>3, <2>1 DEF CountAt, ScoreAt
<1> QED BY <1>2, <1>3

(* What one scored child lacks, the sum lacks. *)
LEMMA SumIsBounded ==
    ASSUME NEW b, IsBag(b)
    PROVE  SumOf(b) <= Unit * CountOf(b)
<1> DEFINE R == DOMAIN b
           f == CountAt(b)
           g == ScoreAt(b)
           ff == [r \in R |-> Unit * f[r]]
<1>1. IsFiniteSet(R) /\ Counts(f, R) /\ Counts(g, R)
  BY BagCounts DEF IsBag
<1>2. IsMultiple(ff, Unit, f, R)
  BY UnitIsNat DEF IsMultiple
<1>3. Counts(ff, R)
  BY <1>1, UnitIsNat, Products DEF Counts
<1>4. NowhereAbove(g, ff, R)
  BY ScoreBelowUnit, Zenon DEF NowhereAbove
<1>5. CountOf(b) = Sums(f, R)[R] /\ SumOf(b) = Sums(g, R)[R]
  BY CountIsTotal, SumIsTotal DEF Total
<1> HIDE DEF ff, f, g, R
<1>6. Sums(g, R)[R] <= Sums(ff, R)[R]
  BY <1>1, <1>3, <1>4, SumsMonotone
<1>7. Sums(ff, R)[R] = Unit * Sums(f, R)[R]
  BY <1>1, <1>2, SumsTimes
<1> QED BY <1>5, <1>6, <1>7

LEMMA OneLowScore ==
    ASSUME NEW b, IsBag(b), NEW x \in Scored(b), NEW gap \in Nat, x.score + gap <= Unit
    PROVE  SumOf(b) + gap <= Unit * CountOf(b)
<1> DEFINE R == DOMAIN b
           f == CountAt(b)
           g == ScoreAt(b)
           ff == [r \in R |-> Unit * f[r]]
<1>1. IsFiniteSet(R) /\ Counts(f, R) /\ Counts(g, R)
  BY BagCounts DEF IsBag
<1>2. IsMultiple(ff, Unit, f, R)
  BY UnitIsNat DEF IsMultiple
<1>3. Counts(ff, R)
  BY <1>1, UnitIsNat, Products DEF Counts
<1>4. NowhereAbove(g, ff, R)
  BY ScoreBelowUnit, Zenon DEF NowhereAbove
<1>5. CountOf(b) = Sums(f, R)[R] /\ SumOf(b) = Sums(g, R)[R] /\ CountOf(b) \in Nat /\ SumOf(b) \in Nat
  BY CountIsTotal, SumIsTotal DEF Total
<1>6. /\ x \in R /\ b[x] \in Nat /\ b[x] >= 1 /\ x.score \in Nat
      /\ f[x] = b[x] /\ g[x] = b[x] * x.score
  BY UnitIsNat DEF Scored, IsBag, CountAt, ScoreAt, Unknown
<1>7. g[x] + gap <= ff[x] /\ g[x] \in Nat /\ ff[x] \in Nat
  <2>1. \A k, y, t, u \in Nat : k >= 1 /\ y + t <= u => k * y + t <= u * k
    <3> SUFFICES ASSUME NEW k \in Nat, NEW y \in Nat, NEW t \in Nat, NEW u \in Nat,
                        k >= 1, y + t <= u
                 PROVE  k * y + t <= u * k
      OBVIOUS
    <3>1. PICK i \in Nat : k = i + 1
      BY k - 1 \in Nat
    <3>2. i * y <= i * u /\ i * y \in Nat /\ i * u \in Nat
      OBVIOUS
    <3>3. k * y = i * y + y /\ u * k = i * u + u
      BY <3>1
    <3> QED BY <3>2, <3>3
  <2>2. ff[x] = Unit * b[x]
    BY <1>6, UnitIsNat
  <2>3. g[x] \in Nat /\ ff[x] \in Nat
    BY <1>1, <1>3, <1>6 DEF Counts
  <2> QED BY <1>6, <2>1, <2>2, <2>3, UnitIsNat
<1> HIDE DEF ff, f, g, R
<1>8. Sums(g, R)[R \ {x}] <= Sums(ff, R)[R \ {x}]
  BY <1>1, <1>3, <1>4, SumsMonotone
<1>9. Sums(g, R)[R] = g[x] + Sums(g, R)[R \ {x}] /\ Sums(ff, R)[R] = ff[x] + Sums(ff, R)[R \ {x}]
  BY <1>1, <1>3, <1>6, SumsSplit
<1>10. Sums(g, R)[R \ {x}] \in Nat /\ Sums(ff, R)[R \ {x}] \in Nat
  BY <1>1, <1>3, <1>6, SumsSplit
<1>11. Sums(ff, R)[R] = Unit * Sums(f, R)[R]
  BY <1>1, <1>2, SumsTimes
<1> QED BY <1>5, <1>7, <1>8, <1>9, <1>10, <1>11, UnitIsNat

(* The mean of fewer than 80 scored children falls below the limit if one
   of them is a hard failure, whatever the others score. *)
LEMMA FailureLowersMean ==
    ASSUME NEW b, IsBag(b), NEW x \in Scored(b), HardFailure(x), CountOf(b) < 80
    PROVE  100 * SumOf(b) < 99 * CountOf(b) * Unit
<1> DEFINE tenth == Unit \div 10
<1>1. CountOf(b) \in Nat /\ SumOf(b) \in Nat
  BY CountIsTotal, SumIsTotal
<1>2. x.score \in Nat /\ x.score <= 2 * tenth
  BY UnitIsNat DEF Scored, IsBag, HardFailure, Tenths
<1>3. 8 * tenth \in Nat /\ x.score + 8 * tenth <= Unit
  BY <1>2, UnitIsNat
<1> HIDE DEF tenth
<1>4. SumOf(b) + 8 * tenth <= Unit * CountOf(b)
  BY <1>3, OneLowScore
<1>5. \A n, t, v \in Nat : n < 80 /\ t >= 1 /\ v + 8 * t <= (10 * t) * n => 100 * v < 99 * n * (10 * t)
  <2> SUFFICES ASSUME NEW n \in Nat, NEW t \in Nat, NEW v \in Nat, n < 80, t >= 1,
                      v + 8 * t <= (10 * t) * n
               PROVE  100 * v < 99 * n * (10 * t)
    OBVIOUS
  <2>1. n * t \in Nat /\ n * t <= 79 * t
    OBVIOUS
  <2>2. (10 * t) * n = 10 * (n * t) /\ 99 * n * (10 * t) = 990 * (n * t)
    OBVIOUS
  <2> QED BY <2>1, <2>2
<1> QED BY <1>1, <1>4, <1>5, UnitIsNat DEF tenth

LEMMA WorstIsWorst ==
    ASSUME NEW b, \A r \in Scored(b) : r.state \in States
    PROVE  /\ WorstOf(b) \in {Healthy, Degraded, Unhealthy}
           /\ \A r \in Scored(b) : stateRank(r.state) <= stateRank(WorstOf(b))
           /\ (\E r \in Scored(b) : r.state = Unhealthy) <=> WorstOf(b) = Unhealthy
<1> DEFINE S == {r.state : r \in Scored(b)} \cup {Healthy}
           Tops(s) == \A t \in S : stateRank(t) <= stateRank(s)
<1>1. S \subseteq {Healthy, Degraded, Unhealthy}
  BY DEF Scored, States
<1>2. \E s \in S : Tops(s)
  <2>1. CASE Unhealthy \in S
    BY <1>1, <2>1, Ranks
  <2>2. CASE Unhealthy \notin S /\ Degraded \in S
    BY <1>1, <2>2, Ranks
  <2>3. CASE S = {Healthy}
    BY <2>3, Ranks
  <2> QED BY <1>1, <2>1, <2>2, <2>3
<1>3. WorstOf(b) = CHOOSE s \in S : Tops(s)
  BY DEF WorstOf
<1>4. \A r \in Scored(b) : r.state \in S
  OBVIOUS
<1>5. Unhealthy \in S => \E r \in Scored(b) : r.state = Unhealthy
  BY Ranks
<1> HIDE DEF S
<1>6. WorstOf(b) \in S /\ Tops(WorstOf(b))
  BY <1>2, <1>3, Zenon
<1> QED BY <1>1, <1>4, <1>5, <1>6, Ranks

LEMMA AggregateState ==
    ASSUME NEW b, CountOf(b) # 0
    PROVE  /\ Aggregate(b).state =
                 IF 100 * SumOf(b) >= 99 * CountOf(b) * Unit THEN Healthy
                 ELSE IF WorstOf(b) = Healthy THEN Degraded ELSE WorstOf(b)
           /\ Aggregate(b).score = SumOf(b) \div CountOf(b)
           /\ Aggregate(b).reasons =
                 UNION {r.reasons : r \in {c \in Scored(b) : c.state # Healthy}}
BY DEF Aggregate, Result

(* A roll-up that is not healthy gives the reasons of some child. *)
LEMMA RollUpExplained ==
    ASSUME NEW b, IsBag(b), \A r \in DOMAIN b : IsResult(r),
           Aggregate(b).state \in {Degraded, Unhealthy}
    PROVE  Aggregate(b).reasons # {}
<1>1. CountOf(b) # 0
  BY DEF Aggregate, Plain, Result, Unknown, Degraded, Unhealthy
<1>2. ~(100 * SumOf(b) >= 99 * CountOf(b) * Unit)
  BY <1>1, AggregateState, Ranks
<1>3. PICK r \in Scored(b) : ~(100 * r.score >= 99 * Unit)
  BY <1>2, HealthyMean
<1>4. r \in DOMAIN b /\ r.state # Unknown
  BY DEF Scored
<1>5. r.state # Healthy /\ r.reasons # {}
  BY <1>3, <1>4 DEF IsResult, States
<1>6. PICK w : w \in r.reasons
  BY <1>5
<1>7. w \in Aggregate(b).reasons
  BY <1>1, <1>5, <1>6, AggregateState
<1> QED BY <1>7

(* A small roll-up over a hard failure is unhealthy. *)
LEMMA RollUpShowsFailure ==
    ASSUME NEW b, IsBag(b), \A r \in DOMAIN b : r.state \in States,
           CountOf(b) < 80, NEW x \in Scored(b), HardFailure(x)
    PROVE  Aggregate(b).state = Unhealthy
<1>1. CountOf(b) # 0
  BY NobodyCounted, CountIsTotal DEF Scored
<1>2. 100 * SumOf(b) < 99 * CountOf(b) * Unit
  BY FailureLowersMean
<1>3. 100 * SumOf(b) \in Nat /\ 99 * CountOf(b) * Unit \in Nat
  BY CountIsTotal, SumIsTotal, UnitIsNat, Products, Means
<1>4. WorstOf(b) = Unhealthy
  <2>1. \A r \in Scored(b) : r.state \in States
    BY DEF Scored
  <2> QED BY <2>1, WorstIsWorst DEF HardFailure
<1> QED BY <1>1, <1>2, <1>3, <1>4, AggregateState, Ranks

-----------------------------------------------------------------------------
(* A pod called healthy has ended well, or every container is ready, none
   is failing to start or starting, and it restarts less than once in five
   minutes. *)
THEOREM HealthyPodIsSound ==
    ASSUME NEW p, NEW rate \in Nat, Pod(p, rate).state = Healthy
    PROVE  \/ p.phase = "Succeeded"
           \/ /\ p.phase # "Failed" /\ p.phase # "Pending" /\ rate < 20
              /\ \A n \in DOMAIN p.containers :
                    /\ p.containers[n].ready
                    /\ ~IsDown(p.containers[n]) /\ ~IsStarting(p.containers[n])
<1> DEFINE down == {n \in DOMAIN p.containers : IsDown(p.containers[n])}
           idle == {n \in DOMAIN p.containers : ~p.containers[n].ready}
           why  == Complaints(p) \cup Elevated(rate)
           starting == \E n \in DOMAIN p.containers : IsStarting(p.containers[n])
<1> USE Ranks DEF Result
<1> SUFFICES ASSUME p.phase # "Succeeded"
             PROVE  /\ p.phase # "Failed" /\ p.phase # "Pending" /\ rate < 20
                    /\ down = {} /\ idle = {} /\ ~starting
  OBVIOUS
<1>1. p.phase # "Failed"
  BY DEF Pod
<1>2. down = {}
  BY <1>1 DEF Pod
<1>3. p.phase # "Pending" /\ ~starting
  BY <1>1, <1>2 DEF Pod
<1>4. ~(rate >= 100)
  BY <1>1, <1>2, <1>3 DEF Pod
<1>5. idle = {}
  BY <1>1, <1>2, <1>3, <1>4 DEF Pod
<1>6. why = {}
  BY <1>1, <1>2, <1>3, <1>4, <1>5 DEF Pod
<1>7. rate < 20
  BY <1>6, ElevatedFrom20
<1> QED BY <1>1, <1>2, <1>3, <1>5, <1>7

(* A rising restart rate never moves a pod towards healthy. *)
THEOREM RateOnlyHurts ==
    ASSUME NEW p, NEW r \in Nat, NEW s \in Nat, r <= s
    PROVE  stateRank(Pod(p, r).state) <= stateRank(Pod(p, s).state)
<1> DEFINE idle == {n \in DOMAIN p.containers : ~p.containers[n].ready}
           early == \/ p.phase \in {"Succeeded", "Failed", "Pending"}
                    \/ \E n \in DOMAIN p.containers :
                          IsDown(p.containers[n]) \/ IsStarting(p.containers[n])
<1> USE Ranks DEF Result
<1>1. CASE early
  <2>1. Pod(p, r).state = Pod(p, s).state
    BY <1>1 DEF Pod
  <2>2. Pod(p, r).state \in {Healthy, Degraded, Unhealthy}
    BY <1>1 DEF Pod
  <2> QED BY <2>1, <2>2
<1>2. CASE ~early
  <2>1. CASE s >= 100
    <3>1. Pod(p, s).state = Unhealthy
      BY <1>2, <2>1 DEF Pod
    <3>2. Pod(p, r).state \in {Healthy, Degraded, Unhealthy}
      BY <1>2 DEF Pod, Plain
    <3> QED BY <3>1, <3>2
  <2>2. CASE s < 100
    <3>1. ~(r >= 100) /\ ~(s >= 100)
      BY <2>2
    <3>2. Elevated(r) # {} => Elevated(s) # {}
      BY ElevatedFrom20
    <3>3. CASE idle # {}
      BY <1>2, <3>1, <3>3 DEF Pod
    <3>4. CASE idle = {} /\ Complaints(p) \cup Elevated(r) = {}
      <4>1. Pod(p, r).state = Healthy
        BY <1>2, <3>1, <3>4 DEF Pod, Plain
      <4>2. Pod(p, s).state \in {Healthy, Degraded}
        BY <1>2, <3>1, <3>4 DEF Pod, Plain
      <4> QED BY <4>1, <4>2
    <3>5. CASE idle = {} /\ Complaints(p) \cup Elevated(r) # {}
      <4>1. Complaints(p) \cup Elevated(s) # {}
        BY <3>2, <3>5
      <4>2. Pod(p, r).state = Degraded /\ Pod(p, s).state = Degraded
        BY <1>2, <3>1, <3>5, <4>1 DEF Pod
      <4> QED BY <4>2
    <3> QED BY <3>3, <3>4, <3>5
  <2> QED BY <2>1, <2>2
<1> QED BY <1>1, <1>2

(* A workload is healthy exactly when it is scaled to nothing or has all
   the replicas it wants, both ready and available; unhealthy exactly when
   it wants some and one of the two counts is zero. *)
THEOREM WorkloadStates ==
    ASSUME NEW desired \in Nat, NEW ready \in Nat, NEW available \in Nat
    PROVE  LET s == Workload(desired, ready, available).state IN
           /\ s = Healthy <=> ready >= desired /\ available >= desired
           /\ s = Unhealthy <=> desired > 0 /\ (ready = 0 \/ available = 0)
<1> DEFINE eff == Lesser(ready, available)
<1>1. /\ eff \in Nat /\ eff <= ready /\ eff <= available
      /\ eff = ready \/ eff = available
  BY DEF Lesser
<1> HIDE DEF eff
<1>2. CASE desired = 0
  BY <1>1, <1>2, Ranks DEF Workload, Result
<1>3. CASE desired > 0 /\ eff >= desired
  <2>1. Workload(desired, ready, available).state = Healthy
    BY <1>1, <1>3 DEF Workload, Plain, Result, eff
  <2> QED BY <1>1, <1>3, <2>1, Ranks
<1>4. CASE desired > 0 /\ eff < desired /\ eff = 0
  <2>1. Workload(desired, ready, available).state = Unhealthy
    BY <1>1, <1>4 DEF Workload, Result, eff
  <2> QED BY <1>1, <1>4, <2>1, Ranks
<1>5. CASE desired > 0 /\ eff < desired /\ eff # 0
  <2>1. Workload(desired, ready, available).state = Degraded
    BY <1>1, <1>5 DEF Workload, Result, eff
  <2> QED BY <1>1, <1>5, <2>1, Ranks
<1> QED BY <1>1, <1>2, <1>3, <1>4, <1>5
-----------------------------------------------------------------------------
(***************************************************************************)
(* Damage, step by step.                                                   *)
(***************************************************************************)
LEMMA InputOfKind ==
    ASSUME DamageTypeOK
    PROVE  /\ input.kind \in {"Pod", "Node", "Workload", "Claim", "Volume", "Service", "Children"}
           /\ input.kind = "Pod" => input \in PodInputs
           /\ input.kind = "Node" => input \in NodeInputs
           /\ input.kind = "Workload" => input \in WorkloadInputs
           /\ input.kind = "Claim" => input \in ClaimInputs
           /\ input.kind = "Volume" => input \in VolumeInputs
           /\ input.kind = "Service" => input \in ServiceInputs
           /\ input.kind = "Children" => input \in RollUpInputs
<1>1. \A i \in PodInputs : i.kind = "Pod"
  BY DEF PodInputs
<1>2. \A i \in NodeInputs : i.kind = "Node"
  BY DEF NodeInputs
<1>3. \A i \in WorkloadInputs : i.kind = "Workload"
  BY DEF WorkloadInputs
<1>4. \A i \in ClaimInputs : i.kind = "Claim"
  BY DEF ClaimInputs
<1>5. \A i \in VolumeInputs : i.kind = "Volume"
  BY DEF VolumeInputs
<1>6. \A i \in ServiceInputs : i.kind = "Service"
  BY DEF ServiceInputs
<1>7. \A i \in RollUpInputs : i.kind = "Children"
  BY DEF RollUpInputs
<1> QED BY <1>1, <1>2, <1>3, <1>4, <1>5, <1>6, <1>7 DEF DamageTypeOK

LEMMA InitDamageTypeOK == DamageInit => DamageTypeOK
BY DamageAssumption DEF DamageInit, DamageTypeOK, RollUpInputs

(* What an update deep in a record amounts to. *)
LEMMA ContainerUpdate ==
    ASSUME NEW phase, NEW cs, NEW rate, NEW n, NEW d
    PROVE  [[kind |-> "Pod", pod |-> [phase |-> phase, containers |-> cs], rate |-> rate]
              EXCEPT !.pod.containers[n] = d] =
           [kind |-> "Pod", pod |-> [phase |-> phase, containers |-> [cs EXCEPT ![n] = d]],
            rate |-> rate]
<1>1. [[phase |-> phase, containers |-> cs] EXCEPT !.containers[n] = d] =
      [phase |-> phase, containers |-> [cs EXCEPT ![n] = d]]
  OBVIOUS
<1> QED BY <1>1

LEMMA NodeUpdate ==
    ASSUME NEW n, NEW v
    PROVE  [[kind |-> "Node", node |-> n] EXCEPT !.node.unschedulable = v] =
           [kind |-> "Node", node |-> [n EXCEPT !.unschedulable = v]]
OBVIOUS

(* What a step does to an input of its kind. *)
LEMMA ContainerDamageEffect ==
    ASSUME DamageTypeOK, ContainerDamage
    PROVE  \E p, q \in PodStates, r \in RestartRates : \E n \in DOMAIN p.containers :
              /\ input = [kind |-> "Pod", pod |-> p, rate |-> r]
              /\ input' = [kind |-> "Pod", pod |-> q, rate |-> r]
              /\ p.phase \in {"Pending", "Running"} /\ q.phase = p.phase
              /\ DOMAIN q.containers = DOMAIN p.containers
              /\ \A m \in DOMAIN p.containers \ {n} : q.containers[m] = p.containers[m]
              /\ q.containers[n] \in Worsened(p.containers[n])
<1> DEFINE p == input.pod
           phase == input.pod.phase
<1>0. PICK n \in DOMAIN p.containers : \E d \in Worsened(p.containers[n]) :
         input' = [input EXCEPT !.pod.containers[n] = d]
  BY DEF ContainerDamage
<1>1. PICK d \in Worsened(p.containers[n]) : input' = [input EXCEPT !.pod.containers[n] = d]
  BY <1>0
<1>2. input \in PodInputs /\ phase \in {"Pending", "Running"}
  BY InputOfKind DEF ContainerDamage
<1>3. /\ p \in PodStates /\ input.rate \in RestartRates
      /\ input = [kind |-> "Pod", pod |-> p, rate |-> input.rate]
  BY <1>2 DEF PodInputs
<1>4. PICK S \in SUBSET ContainerNames : p.containers \in [S -> ContainerStates]
  BY <1>3 DEF PodStates
<1>5. d \in ContainerStates
  BY DEF Worsened
<1> DEFINE cs == [p.containers EXCEPT ![n] = d]
           q == [phase |-> phase, containers |-> cs]
<1>6. cs \in [S -> ContainerStates] /\ DOMAIN cs = DOMAIN p.containers /\ cs[n] = d
  BY <1>4, <1>5
<1>7. \A m \in DOMAIN p.containers \ {n} : cs[m] = p.containers[m]
  BY <1>4
<1>8. input' = [kind |-> "Pod", pod |-> q, rate |-> input.rate]
  <2> DEFINE old == p.containers
             rate == input.rate
  <2>1. p = [phase |-> phase, containers |-> old]
    BY <1>3 DEF PodStates
  <2>2. input = [kind |-> "Pod", pod |-> [phase |-> phase, containers |-> old], rate |-> rate]
    BY <1>3, <2>1
  <2>3. input' = [[kind |-> "Pod", pod |-> [phase |-> phase, containers |-> old], rate |-> rate]
                    EXCEPT !.pod.containers[n] = d]
    BY <1>1, <2>2, Zenon
  <2> HIDE DEF old, rate, phase
  <2>4. input' = [kind |-> "Pod", pod |-> [phase |-> phase, containers |-> [old EXCEPT ![n] = d]],
                  rate |-> rate]
    BY <2>3, ContainerUpdate, Zenon
  <2> QED BY <2>4 DEF old, rate
<1>9. p.phase = phase
  OBVIOUS
<1> HIDE DEF cs, p, phase
<1>10. q \in PodStates
  BY <1>2, <1>6 DEF PodStates
<1>11. /\ input = [kind |-> "Pod", pod |-> p, rate |-> input.rate]
       /\ input' = [kind |-> "Pod", pod |-> q, rate |-> input.rate]
       /\ p.phase \in {"Pending", "Running"} /\ q.phase = p.phase
       /\ DOMAIN q.containers = DOMAIN p.containers
       /\ \A m \in DOMAIN p.containers \ {n} : q.containers[m] = p.containers[m]
       /\ q.containers[n] \in Worsened(p.containers[n])
  BY <1>1, <1>2, <1>3, <1>6, <1>7, <1>8, <1>9
<1> HIDE DEF q
<1> QED BY <1>3, <1>10, <1>11, Zenon

LEMMA PodDamageEffect ==
    ASSUME DamageTypeOK, PodDamage
    PROVE  \E p \in PodStates, r \in RestartRates, ph \in {"Failed", "Unknown"} :
              /\ input = [kind |-> "Pod", pod |-> p, rate |-> r]
              /\ input' = [kind |-> "Pod", pod |-> [p EXCEPT !.phase = ph], rate |-> r]
              /\ p.phase \in {"Pending", "Running", "Unknown"}
              /\ ph = "Unknown" => p.phase = "Running"
<1> DEFINE p == input.pod
<1>1. PICK ph \in {"Failed", "Unknown"} :
         /\ input' = [input EXCEPT !.pod.phase = ph]
         /\ p.phase \in {"Pending", "Running", "Unknown"}
         /\ ph = "Unknown" => p.phase = "Running"
  BY DEF PodDamage
<1>2. p \in PodStates /\ input.rate \in RestartRates
  BY InputOfKind DEF PodInputs, PodDamage
<1>3. input = [kind |-> "Pod", pod |-> p, rate |-> input.rate]
  BY InputOfKind DEF PodInputs, PodDamage
<1>4. input' = [kind |-> "Pod", pod |-> [p EXCEPT !.phase = ph], rate |-> input.rate]
  BY <1>1, <1>3
<1> HIDE DEF p
<1> QED BY <1>1, <1>2, <1>3, <1>4

(* The bag c is b, but for one r that has become a t. *)
Exchange(b, c, r, t) ==
    /\ c \in [ChildResults -> Nat] /\ r # t /\ b[r] > 0
    /\ c[r] = b[r] - 1 /\ c[t] = b[t] + 1
    /\ \A x \in ChildResults \ {r, t} : c[x] = b[x]

LEMMA ChildDamageEffect ==
    ASSUME DamageTypeOK, ChildDamage
    PROVE  \E b \in [ChildResults -> Nat], r, t \in ChildResults :
              /\ Exchange(b, input'.bag, r, t) /\ (NoBetter(r, t) \/ Unscores(r, t))
              /\ input = [kind |-> "Children", bag |-> b]
              /\ input' = [kind |-> "Children", bag |-> input'.bag]
<1> DEFINE b == input.bag
<1>1. input \in RollUpInputs
  BY InputOfKind DEF ChildDamage
<1>2. b \in [ChildResults -> Nat] /\ input = [kind |-> "Children", bag |-> b]
  BY <1>1 DEF RollUpInputs
<1>3. PICK r, t \in ChildResults :
         /\ r # t /\ (NoBetter(r, t) \/ Unscores(r, t)) /\ b[r] > 0
         /\ input' = [input EXCEPT !.bag = [b EXCEPT ![r] = b[r] - 1, ![t] = b[t] + 1]]
  BY DEF ChildDamage
<1> DEFINE c == [b EXCEPT ![r] = b[r] - 1, ![t] = b[t] + 1]
<1>4. input' = [kind |-> "Children", bag |-> c]
  <2>1. input' = [input EXCEPT !.bag = c]
    BY <1>3, Zenon
  <2> HIDE DEF b, c
  <2> QED BY <1>2, <2>1
<1> HIDE DEF b
<1>5. Exchange(b, c, r, t)
  BY <1>2, <1>3 DEF Exchange
<1> HIDE DEF c
<1>6. input'.bag = c
  BY <1>4
<1> QED BY <1>2, <1>3, <1>4, <1>5, <1>6

LEMMA StepDamageTypeOK == DamageTypeOK /\ [DamageNext]_input => DamageTypeOK'
<1> SUFFICES ASSUME DamageTypeOK, [DamageNext]_input PROVE DamageTypeOK'
  OBVIOUS
<1>1. CASE ContainerDamage
  <2>1. PICK q \in PodStates, r \in RestartRates :
           input' = [kind |-> "Pod", pod |-> q, rate |-> r]
    BY <1>1, ContainerDamageEffect
  <2>2. input' \in PodInputs
    BY <2>1 DEF PodInputs
  <2> QED BY <2>2 DEF DamageTypeOK
<1>2. CASE RateRises
  <2>1. input \in PodInputs
    BY <1>2, InputOfKind DEF RateRises
  <2>2. input' \in PodInputs
    BY <1>2, <2>1 DEF RateRises, PodInputs
  <2> QED BY <2>2 DEF DamageTypeOK
<1>3. CASE NodeDamage
  <2>1. input \in NodeInputs
    BY <1>3, InputOfKind DEF NodeDamage
  <2>2. input.node \in NodeStates /\ input = [kind |-> "Node", node |-> input.node]
    BY <2>1 DEF NodeInputs
  <2>3. PICK m \in NodeStates : input' = [kind |-> "Node", node |-> m]
    <3> DEFINE n == input.node
    <3>0. n = [ready |-> n.ready, pressures |-> n.pressures, unschedulable |-> n.unschedulable]
      BY <2>2 DEF NodeStates
    <3>1. ASSUME NEW r \in {"False", "Unknown"}, input' = [input EXCEPT !.node.ready = r]
          PROVE  \E m \in NodeStates : input' = [kind |-> "Node", node |-> m]
      <4>1. input' = [kind |-> "Node", node |-> [n EXCEPT !.ready = r]]
        BY <2>2, <3>1
      <4>2. [n EXCEPT !.ready = r] \in NodeStates
        BY <2>2 DEF NodeStates
      <4> QED BY <4>1, <4>2
    <3>2. ASSUME NEW c \in Conditions, input' = [input EXCEPT !.node.pressures = @ \cup {c}]
          PROVE  \E m \in NodeStates : input' = [kind |-> "Node", node |-> m]
      <4>1. input' = [kind |-> "Node", node |-> [n EXCEPT !.pressures = @ \cup {c}]]
        BY <2>2, <3>2
      <4>2. [n EXCEPT !.pressures = @ \cup {c}] \in NodeStates
        BY <2>2 DEF NodeStates
      <4> QED BY <4>1, <4>2
    <3>3. CASE input' = [input EXCEPT !.node.unschedulable = TRUE]
      <4>1. input' = [[kind |-> "Node", node |-> n] EXCEPT !.node.unschedulable = TRUE]
        BY <2>2, <3>3, Zenon
      <4> HIDE DEF n
      <4>2. input' = [kind |-> "Node", node |-> [n EXCEPT !.unschedulable = TRUE]]
        BY <4>1, NodeUpdate, Zenon
      <4>3. [n EXCEPT !.unschedulable = TRUE] \in NodeStates
        BY <2>2 DEF NodeStates, n
      <4> QED BY <4>2, <4>3, Zenon
    <3> QED BY <1>3, <3>1, <3>2, <3>3 DEF NodeDamage
  <2>4. input' \in NodeInputs
    BY <2>3 DEF NodeInputs
  <2> QED BY <2>4 DEF DamageTypeOK
<1>4. CASE ReplicaLost
  <2>1. input \in WorkloadInputs
    BY <1>4, InputOfKind DEF ReplicaLost
  <2>2. input' \in WorkloadInputs
    BY <1>4, <2>1, DamageAssumption DEF ReplicaLost, WorkloadInputs
  <2> QED BY <2>2 DEF DamageTypeOK
<1>5. CASE EndpointLost
  <2>1. input \in ServiceInputs
    BY <1>5, InputOfKind DEF EndpointLost
  <2>2. input' \in ServiceInputs
    BY <1>5, <2>1, DamageAssumption DEF EndpointLost, ServiceInputs
  <2> QED BY <2>2 DEF DamageTypeOK
<1>6. CASE ClaimAges
  <2>1. input \in ClaimInputs
    BY <1>6, InputOfKind DEF ClaimAges
  <2>2. input' \in ClaimInputs
    BY <1>6, <2>1, DamageAssumption DEF ClaimAges, ClaimInputs
  <2> QED BY <2>2 DEF DamageTypeOK
<1>7. CASE ChildDamage
  <2>1. PICK b \in [ChildResults -> Nat], r, t \in ChildResults : Exchange(b, input'.bag, r, t)
                                                        /\ input' = [kind |-> "Children", bag |-> input'.bag]
    BY <1>7, ChildDamageEffect
  <2>2. input' \in RollUpInputs
    BY <2>1 DEF Exchange, RollUpInputs
  <2> QED BY <2>2 DEF DamageTypeOK
<1>8. CASE UNCHANGED input
  BY <1>8 DEF DamageTypeOK
<1>9. CASE PodDamage
  <2>1. PICK p \in PodStates, r \in RestartRates, ph \in {"Failed", "Unknown"} :
           input' = [kind |-> "Pod", pod |-> [p EXCEPT !.phase = ph], rate |-> r]
    BY <1>9, PodDamageEffect
  <2>2. [p EXCEPT !.phase = ph] \in PodStates
    BY DEF PodStates
  <2>3. input' \in PodInputs
    BY <2>1, <2>2 DEF PodInputs
  <2> QED BY <2>3 DEF DamageTypeOK
<1>10. CASE ClaimLost
  <2>1. input \in ClaimInputs
    BY <1>10, InputOfKind DEF ClaimLost
  <2>2. input' \in ClaimInputs
    BY <1>10, <2>1 DEF ClaimLost, ClaimInputs
  <2> QED BY <2>2 DEF DamageTypeOK
<1>11. CASE VolumeFails
  <2>1. input \in VolumeInputs
    BY <1>11, InputOfKind DEF VolumeFails
  <2>2. input' \in VolumeInputs
    BY <1>11, <2>1 DEF VolumeFails, VolumeInputs
  <2> QED BY <2>2 DEF DamageTypeOK
<1> QED BY <1>1, <1>2, <1>3, <1>4, <1>5, <1>6, <1>7, <1>8, <1>9, <1>10, <1>11 DEF DamageNext

LEMMA DamageKeepsTypes == DamageSpec => []DamageTypeOK
BY InitDamageTypeOK, StepDamageTypeOK, PTL DEF DamageSpec

(* At every damage done to it, a pod that is called healthy has ended well
   or shows no sign of trouble. *)
THEOREM HealthyPodsShowNoTrouble == DamageSpec => []HealthyPodShowsNoTrouble
<1>1. ASSUME DamageTypeOK, input.kind = "Pod", ScoreOf(input).state = Healthy,
             input.pod.phase # "Succeeded"
      PROVE  /\ input.pod.phase \in {"Running", "Unknown"} /\ input.rate < 20
             /\ \A n \in DOMAIN input.pod.containers :
                   input.pod.containers[n] \in Running /\ input.pod.containers[n].ready
  <2> DEFINE p == input.pod
  <2>1. input \in PodInputs
    BY <1>1, InputOfKind
  <2>2. p \in PodStates /\ input.rate \in Nat
    BY <2>1, DamageAssumption DEF PodInputs
  <2>3. Pod(p, input.rate).state = Healthy
    BY <1>1 DEF ScoreOf
  <2>4. /\ p.phase # "Failed" /\ p.phase # "Pending" /\ input.rate < 20
        /\ \A n \in DOMAIN p.containers : p.containers[n].ready
    BY <1>1, <2>2, <2>3, HealthyPodIsSound
  <2>5. \A c \in ContainerStates : c.ready => c \in Running
    BY DEF ContainerStates, Container
  <2>6. \A n \in DOMAIN p.containers : p.containers[n] \in ContainerStates
    BY <2>2 DEF PodStates
  <2>7. p.phase \in {"Running", "Unknown"}
    BY <1>1, <2>2, <2>4 DEF PodStates
  <2> QED BY <2>4, <2>5, <2>6, <2>7
<1>2. DamageTypeOK => HealthyPodShowsNoTrouble
  BY <1>1 DEF HealthyPodShowsNoTrouble
<1> QED BY <1>2, DamageKeepsTypes, PTL

LEMMA BagOfResults ==
    ASSUME DamageTypeOK, input.kind = "Children"
    PROVE  /\ input.bag \in [ChildResults -> Nat] /\ IsBag(input.bag)
           /\ \A r \in DOMAIN input.bag : IsResult(r) /\ r.state \in States
<1>1. input.bag \in [ChildResults -> Nat]
  BY InputOfKind DEF RollUpInputs
<1>2. DOMAIN input.bag = ChildResults
  BY <1>1
<1> QED BY <1>1, <1>2, DamageAssumption DEF IsBag, IsResult

(* A hard failure among fewer than 80 scored children makes their roll-up
   unhealthy, at every damage done to the others. *)
THEOREM SmallRollUpsShowFailures == DamageSpec => []SmallRollUpShowsFailure
<1>1. ASSUME DamageTypeOK, input.kind = "Children", CountOf(input.bag) < 80,
             NEW x \in Scored(input.bag), HardFailure(x)
      PROVE  ScoreOf(input).state = Unhealthy
  <2>1. Aggregate(input.bag).state = Unhealthy
    BY <1>1, BagOfResults, RollUpShowsFailure
  <2> QED BY <1>1, <2>1 DEF ScoreOf
<1>2. DamageTypeOK => SmallRollUpShowsFailure
  BY <1>1 DEF SmallRollUpShowsFailure, HasHardFailure
<1> QED BY <1>2, DamageKeepsTypes, PTL

LEMMA PodExplained ==
    ASSUME NEW p, NEW rate, Pod(p, rate).state \in {Degraded, Unhealthy}
    PROVE  Pod(p, rate).reasons # {}
<1> DEFINE down == {n \in DOMAIN p.containers : IsDown(p.containers[n])}
           idle == {n \in DOMAIN p.containers : ~p.containers[n].ready}
           why  == Complaints(p) \cup Elevated(rate)
           starting == \E n \in DOMAIN p.containers : IsStarting(p.containers[n])
<1> USE Ranks DEF Result
<1>1. CASE p.phase = "Succeeded"
  BY <1>1 DEF Pod
<1>2. CASE p.phase = "Failed"
  BY <1>2 DEF Pod
<1>3. CASE p.phase \notin {"Succeeded", "Failed"} /\ down # {}
  BY <1>3 DEF Pod
<1> DEFINE early == p.phase \in {"Succeeded", "Failed"} \/ down # {}
<1>4. CASE ~early /\ (p.phase = "Pending" \/ starting)
  <2>1. <<"Pending/ContainerCreating">> \in Pod(p, rate).reasons
    BY <1>4 DEF Pod
  <2> QED BY <2>1
<1>5. CASE ~early /\ p.phase # "Pending" /\ ~starting /\ rate >= 100
  <2>1. <<"restarting rapidly">> \in Pod(p, rate).reasons
    BY <1>5 DEF Pod
  <2> QED BY <2>1
<1> DEFINE late == ~early /\ p.phase # "Pending" /\ ~starting /\ ~(rate >= 100)
<1>6. CASE late /\ idle # {} /\ idle # DOMAIN p.containers
  <2>1. <<"containers not ready">> \in Pod(p, rate).reasons
    BY <1>6 DEF Pod
  <2> QED BY <2>1
<1>7. CASE late /\ idle # {} /\ idle = DOMAIN p.containers
  <2>1. <<"no containers ready">> \in Pod(p, rate).reasons
    BY <1>7 DEF Pod
  <2> QED BY <2>1
<1>8. CASE late /\ idle = {}
  BY <1>8 DEF Pod, Plain
<1> QED BY <1>1, <1>2, <1>3, <1>4, <1>5, <1>6, <1>7, <1>8

LEMMA NodeExplained ==
    ASSUME NEW n, n.ready \in {"True", "False", "Unknown"},
           Node(n).state \in {Degraded, Unhealthy}
    PROVE  Node(n).reasons # {}
<1> USE Ranks DEF Result
<1>1. CASE n.ready = "Unknown"
  BY <1>1 DEF Node, Unknown, Degraded, Unhealthy
<1>2. CASE n.ready = "False"
  <2>1. <<"NodeReady=False">> \in Node(n).reasons
    BY <1>2 DEF Node
  <2> QED BY <2>1
<1>3. CASE n.ready = "True"
  BY <1>3 DEF Node, Plain
<1> QED BY <1>1, <1>2, <1>3

(* What is degraded or unhealthy says why, whatever is damaged. *)
THEOREM FailuresSayWhy == DamageSpec => []FailuresAreExplained
<1>1. ASSUME DamageTypeOK, ScoreOf(input).state \in {Degraded, Unhealthy}
      PROVE  ScoreOf(input).reasons # {}
  <2> USE Ranks DEF Result
  <2>1. CASE input.kind = "Pod"
    BY <1>1, <2>1, PodExplained DEF ScoreOf
  <2>2. CASE input.kind = "Node"
    <3>1. input.node.ready \in {"True", "False", "Unknown"}
      BY <1>1, <2>2, InputOfKind DEF NodeInputs, NodeStates
    <3>2. ScoreOf(input) = Node(input.node)
      BY <2>2 DEF ScoreOf
    <3> QED BY <1>1, <3>1, <3>2, NodeExplained
  <2>3. CASE input.kind = "Workload"
    BY <1>1, <2>3 DEF ScoreOf, Deployment, Workload, Plain
  <2>4. CASE input.kind = "Claim"
    BY <1>1, <2>4 DEF ScoreOf, PVC, Plain, Unknown, Degraded, Unhealthy
  <2>5. CASE input.kind = "Volume"
    BY <1>1, <2>5 DEF ScoreOf, PV, Plain, Unknown, Degraded, Unhealthy
  <2>6. CASE input.kind = "Service"
    BY <1>1, <2>6 DEF ScoreOf, Service, Plain, Unknown, Degraded, Unhealthy
  <2>7. CASE input.kind = "Children"
    <3>1. ScoreOf(input) = Aggregate(input.bag)
      BY <2>7 DEF ScoreOf
    <3> QED BY <1>1, <2>7, <3>1, BagOfResults, RollUpExplained
  <2> QED BY <1>1, <2>1, <2>2, <2>3, <2>4, <2>5, <2>6, <2>7, InputOfKind
<1>2. DamageTypeOK => FailuresAreExplained
  BY <1>1 DEF FailuresAreExplained
<1> QED BY <1>2, DamageKeepsTypes, PTL

-----------------------------------------------------------------------------
(***************************************************************************)
(* No step of damage makes the result look better, but for the four kinds  *)
(* that DamageNeverLooksBetter names.                                      *)
(***************************************************************************)
LEMMA TenthsInOrder ==
    /\ Tenths(4) \in Nat /\ Tenths(5) \in Nat /\ Tenths(6) \in Nat /\ Tenths(7) \in Nat
    /\ Tenths(4) <= Tenths(4) /\ Tenths(5) <= Tenths(5) /\ Tenths(6) <= Tenths(6)
    /\ Tenths(4) <= Tenths(5) /\ Tenths(4) <= Tenths(6)
    /\ Tenths(5) <= Tenths(6) /\ Tenths(5) <= Tenths(7) /\ Tenths(7) <= Tenths(7)
BY UnitIsNat DEF Tenths

LEMMA QuotientMonotone ==
    ASSUME NEW a \in Nat, NEW b \in Nat, a <= b, NEW n \in Nat, n >= 1
    PROVE  a \div n <= b \div n
<1>1. a \div n \in Nat /\ (a \div n) * n <= a /\ (a \div n) * n \in Nat
  BY Quotient
<1>2. (a \div n) * n <= b
  BY <1>1
<1> QED BY <1>1, <1>2, QuotientIsLargest

LEMMA PodState ==
    ASSUME NEW p, NEW rate
    PROVE  Pod(p, rate).state \in {Healthy, Degraded, Unhealthy}
BY DEF Pod, Plain, Result

(* The containers of q are those of p, but for n, which has worsened. *)
OneWorsened(p, q, n) ==
    /\ DOMAIN q.containers = DOMAIN p.containers /\ n \in DOMAIN p.containers
    /\ \A m \in DOMAIN p.containers \ {n} : q.containers[m] = p.containers[m]
    /\ q.containers[n] \in Worsened(p.containers[n])

(* The results of a pod that has not ended and has no container down. *)
Idle(p) == {n \in DOMAIN p.containers : ~p.containers[n].ready}
Down(p) == {n \in DOMAIN p.containers : IsDown(p.containers[n])}

LEMMA PodCases ==
    ASSUME NEW p, NEW rate, p.phase \notin {"Succeeded", "Failed"}
    PROVE  /\ Down(p) # {} => Pod(p, rate).state = Unhealthy /\ Pod(p, rate).score = 0
           /\ Down(p) = {} /\ (p.phase = "Pending" \/ Starting(p)) =>
                 Pod(p, rate).state = Degraded /\ Pod(p, rate).score = Tenths(4)
           /\ Down(p) = {} /\ p.phase # "Pending" /\ ~Starting(p) =>
                 /\ rate >= 100 =>
                       Pod(p, rate).state = Unhealthy /\ Pod(p, rate).score = Tenths(2)
                 /\ ~(rate >= 100) /\ Idle(p) # {} /\ Idle(p) # DOMAIN p.containers =>
                       Pod(p, rate).state = Degraded /\ Pod(p, rate).score = Tenths(5)
                 /\ ~(rate >= 100) /\ Idle(p) # {} /\ Idle(p) = DOMAIN p.containers =>
                       Pod(p, rate).state = Unhealthy /\ Pod(p, rate).score = Tenths(1)
                 /\ ~(rate >= 100) /\ Idle(p) = {} =>
                       \/ Pod(p, rate).state = Healthy
                       \/ Pod(p, rate).state = Degraded /\ Pod(p, rate).score = Tenths(6)
<1> USE DEF Result, Down, Idle, Starting
<1>1. ASSUME Down(p) # {}
      PROVE  Pod(p, rate).state = Unhealthy /\ Pod(p, rate).score = 0
  BY <1>1 DEF Pod
<1>2. ASSUME Down(p) = {}, p.phase = "Pending" \/ Starting(p)
      PROVE  Pod(p, rate).state = Degraded /\ Pod(p, rate).score = Tenths(4)
  BY <1>2 DEF Pod
<1>3. ASSUME Down(p) = {}, p.phase # "Pending", ~Starting(p), rate >= 100
      PROVE  Pod(p, rate).state = Unhealthy /\ Pod(p, rate).score = Tenths(2)
  BY <1>3 DEF Pod
<1>4. ASSUME Down(p) = {}, p.phase # "Pending", ~Starting(p), ~(rate >= 100),
             Idle(p) # {}, Idle(p) # DOMAIN p.containers
      PROVE  Pod(p, rate).state = Degraded /\ Pod(p, rate).score = Tenths(5)
  BY <1>4 DEF Pod
<1>5. ASSUME Down(p) = {}, p.phase # "Pending", ~Starting(p), ~(rate >= 100),
             Idle(p) # {}, Idle(p) = DOMAIN p.containers
      PROVE  Pod(p, rate).state = Unhealthy /\ Pod(p, rate).score = Tenths(1)
  BY <1>5 DEF Pod
<1>6. ASSUME Down(p) = {}, p.phase # "Pending", ~Starting(p), ~(rate >= 100), Idle(p) = {}
      PROVE  \/ Pod(p, rate).state = Healthy
             \/ Pod(p, rate).state = Degraded /\ Pod(p, rate).score = Tenths(6)
  BY <1>6 DEF Pod, Plain
<1> HIDE DEF Result, Down, Idle, Starting
<1> QED BY <1>1, <1>2, <1>3, <1>4, <1>5, <1>6, Zenon

LEMMA WorsenedSets ==
    ASSUME NEW p, NEW q, NEW n, OneWorsened(p, q, n)
    PROVE  /\ Down(q) = {} => Down(p) = {}
           /\ Idle(p) \subseteq Idle(q) /\ n \in Idle(q) /\ Idle(q) \subseteq DOMAIN q.containers
<1>1. ~q.containers[n].ready
  BY DEF OneWorsened, Worsened
<1>2. IsDown(p.containers[n]) => IsDown(q.containers[n])
  BY DEF OneWorsened, Worsened, IsDown, Waiting
<1>3. Down(p) \subseteq Down(q)
  BY <1>2 DEF OneWorsened, Down
<1>4. Idle(p) \subseteq Idle(q) /\ n \in Idle(q) /\ Idle(q) \subseteq DOMAIN q.containers
  BY <1>1 DEF OneWorsened, Idle
<1> QED BY <1>3, <1>4

LEMMA WorsenedShows ==
    ASSUME NEW p, NEW q, NEW n, NEW rate, OneWorsened(p, q, n),
           p.phase \in {"Pending", "Running"}, q.phase = p.phase,
           NEW old, old = Pod(p, rate), NEW new, new = Pod(q, rate)
    PROVE  \/ NoMilder(old, new)
           \/ /\ ~Starting(p) /\ Starting(q)
              /\ old.state = Unhealthy /\ old.score \in {Tenths(1), Tenths(2)}
              /\ new.state = Degraded /\ new.score = Tenths(4)
           \/ /\ Starting(p) /\ ~Starting(q)
              /\ old.score = Tenths(4) /\ new.state = Degraded /\ new.score = Tenths(5)
<1> DEFINE D == DOMAIN p.containers
<1>1. /\ Down(q) = {} => Down(p) = {}
      /\ Idle(p) \subseteq Idle(q) /\ n \in Idle(q) /\ Idle(q) \subseteq D
      /\ DOMAIN q.containers = D
  BY WorsenedSets DEF OneWorsened
<1>2. old.state \in {Healthy, Degraded, Unhealthy} /\ new.state \in {Healthy, Degraded, Unhealthy}
  BY PodState
<1>3. p.phase \notin {"Succeeded", "Failed"} /\ q.phase \notin {"Succeeded", "Failed"}
  OBVIOUS
<1> HIDE DEF D
<1>4. CASE Down(q) # {} \/ new.state = Unhealthy
  <2>1. new.state = Unhealthy
    BY <1>3, <1>4, PodCases
  <2> QED BY <1>2, <2>1, Ranks DEF NoMilder
<1> DEFINE ok == Down(q) = {} /\ new.state # Unhealthy
<1>5. ASSUME ok, p.phase = "Pending" \/ Starting(p), q.phase = "Pending" \/ Starting(q)
      PROVE  NoMilder(old, new)
  <2>1. old.state = Degraded /\ old.score = Tenths(4) /\ new.state = Degraded /\ new.score = Tenths(4)
    BY <1>1, <1>3, <1>5, PodCases
  <2> QED BY <2>1, Ranks, TenthsInOrder DEF NoMilder
<1>6. ASSUME ok, p.phase # "Pending", ~Starting(p), Starting(q)
      PROVE  \/ NoMilder(old, new)
             \/ /\ old.state = Unhealthy /\ old.score \in {Tenths(1), Tenths(2)}
                /\ new.state = Degraded /\ new.score = Tenths(4)
  <2>1. new.state = Degraded /\ new.score = Tenths(4)
    BY <1>3, <1>6, PodCases
  <2>2. \/ old.state = Unhealthy /\ old.score \in {Tenths(1), Tenths(2)}
        \/ old.state = Healthy
        \/ old.state = Degraded /\ old.score \in {Tenths(5), Tenths(6)}
    BY <1>1, <1>3, <1>6, PodCases
  <2> QED BY <2>1, <2>2, Ranks, TenthsInOrder DEF NoMilder
<1>7. ASSUME ok, p.phase # "Pending", Starting(p), ~Starting(q)
      PROVE  old.score = Tenths(4) /\ new.state = Degraded /\ new.score = Tenths(5)
  <2>1. old.score = Tenths(4)
    BY <1>1, <1>3, <1>7, PodCases
  <2>2. Idle(q) # {} /\ q.phase # "Pending"
    BY <1>1, <1>7
  <2>3. new.state = Degraded /\ new.score = Tenths(5)
    BY <1>3, <1>7, <2>2, PodCases
  <2> QED BY <2>1, <2>3
<1>8. ASSUME ok, p.phase # "Pending", ~Starting(p), ~Starting(q)
      PROVE  NoMilder(old, new)
  <2>1. q.phase # "Pending" /\ Idle(q) # {}
    BY <1>1, <1>8
  <2>2. ~(rate >= 100) /\ Idle(q) # D
    BY <1>1, <1>3, <1>8, <2>1, PodCases
  <2>3. new.state = Degraded /\ new.score = Tenths(5)
    BY <1>1, <1>3, <1>8, <2>1, <2>2, PodCases
  <2>4. Idle(p) # D /\ Down(p) = {}
    BY <1>1, <1>8, <2>2
  <2>5. \/ old.state = Healthy
        \/ old.state = Degraded /\ old.score \in {Tenths(5), Tenths(6)}
    BY <1>3, <1>8, <2>2, <2>4, PodCases DEF D
  <2> QED BY <2>3, <2>5, Ranks, TenthsInOrder DEF NoMilder
<1> QED BY <1>4, <1>5, <1>6, <1>7, <1>8

LEMMA ContainerDamageShows ==
    ASSUME DamageTypeOK, ContainerDamage
    PROVE  \/ NoMilder(ScoreOf(input), ScoreOf(input'))
           \/ StartHidesFailure(input, input') \/ CrashEndsStart(input, input')
<1>1. PICK p \in PodStates, q \in PodStates, rate \in RestartRates :
      \E n \in DOMAIN p.containers :
         /\ input = [kind |-> "Pod", pod |-> p, rate |-> rate]
         /\ input' = [kind |-> "Pod", pod |-> q, rate |-> rate]
         /\ p.phase \in {"Pending", "Running"} /\ q.phase = p.phase
         /\ DOMAIN q.containers = DOMAIN p.containers
         /\ \A m \in DOMAIN p.containers \ {n} : q.containers[m] = p.containers[m]
         /\ q.containers[n] \in Worsened(p.containers[n])
  BY ContainerDamageEffect, Zenon
<1>2. PICK n : OneWorsened(p, q, n)
  BY <1>1, Zenon DEF OneWorsened
<1>3. /\ input.kind = "Pod" /\ input.pod = p /\ input.rate = rate
      /\ input'.kind = "Pod" /\ input'.pod = q /\ input'.rate = rate
      /\ p.phase \in {"Pending", "Running"} /\ q.phase = p.phase
  BY <1>1
<1>4. ScoreOf(input) = Pod(p, rate) /\ ScoreOf(input') = Pod(q, rate)
  BY <1>3 DEF ScoreOf
<1> DEFINE old == ScoreOf(input)
           new == ScoreOf(input')
<1>5. \/ NoMilder(old, new)
      \/ /\ ~Starting(p) /\ Starting(q)
         /\ old.state = Unhealthy /\ old.score \in {Tenths(1), Tenths(2)}
         /\ new.state = Degraded /\ new.score = Tenths(4)
      \/ /\ Starting(p) /\ ~Starting(q)
         /\ old.score = Tenths(4) /\ new.state = Degraded /\ new.score = Tenths(5)
  <2> HIDE DEF old, new
  <2> QED BY <1>2, <1>3, <1>4, WorsenedShows DEF old, new
<1> QED BY <1>3, <1>5, Zenon DEF StartHidesFailure, CrashEndsStart

(* A pod that fails is unhealthy; one whose state is lost keeps its score,
   as the statuses of its containers last were. *)
LEMMA PodDamageShows ==
    ASSUME DamageTypeOK, PodDamage
    PROVE  NoMilder(ScoreOf(input), ScoreOf(input'))
<1>1. PICK p \in PodStates, rate \in RestartRates, ph \in {"Failed", "Unknown"} :
         /\ input = [kind |-> "Pod", pod |-> p, rate |-> rate]
         /\ input' = [kind |-> "Pod", pod |-> [p EXCEPT !.phase = ph], rate |-> rate]
         /\ p.phase \in {"Pending", "Running", "Unknown"}
         /\ ph = "Unknown" => p.phase = "Running"
  BY PodDamageEffect, Zenon
<1> DEFINE q == [p EXCEPT !.phase = ph]
           old == Pod(p, rate)
           new == Pod(q, rate)
<1>2. q.phase = ph /\ q.containers = p.containers
  BY DEF PodStates
<1>3. ScoreOf(input) = old /\ ScoreOf(input') = new
  BY <1>1 DEF ScoreOf
<1>4. old.state \in {Healthy, Degraded, Unhealthy}
  BY PodState
<1>5. CASE ph = "Failed"
  <2>1. new.state = Unhealthy
    BY <1>2, <1>5 DEF Pod, Result
  <2> HIDE DEF old, new, q
  <2> QED BY <1>3, <1>4, <2>1, Ranks DEF NoMilder
<1>6. CASE ph = "Unknown"
  <2>1. p.phase = "Running"
    BY <1>1, <1>6
  <2>2. /\ Down(q) = Down(p) /\ Idle(q) = Idle(p) /\ (Starting(q) <=> Starting(p))
        /\ DOMAIN q.containers = DOMAIN p.containers
    BY <1>2 DEF Down, Idle, Starting
  <2>3. CASE Down(p) = {} /\ ~Starting(p) /\ ~(rate >= 100) /\ Idle(p) = {}
    <3>1. \A n \in DOMAIN p.containers : p.containers[n].ready
      BY <2>3 DEF Idle
    <3>2. \A n \in DOMAIN p.containers : ~Crashed(p.containers[n])
      <4>0. \A c \in Running : c.state = "running"
        <5>1. \A r, s, w : Container(r, s, w).state = s
          BY DEF Container
        <5>2. ASSUME NEW c \in Running PROVE c.state = "running"
          <6>1. PICK r : c = Container(r, "running", "")
            BY Zenon DEF Running
          <6>2. Container(r, "running", "").state = "running"
            BY <5>1, Zenon
          <6> QED BY <6>1, <6>2, Zenon
        <5> QED BY <5>2
      <4>1. \A c \in ContainerStates : c.ready => c \in Running
        BY DEF ContainerStates, Container
      <4>2. \A n \in DOMAIN p.containers : p.containers[n] \in ContainerStates
        BY DEF PodStates
      <4> QED BY <3>1, <4>0, <4>1, <4>2 DEF Crashed
    <3>3. Complaints(q) = Complaints(p)
      BY <1>2, <3>2 DEF Complaints
    <3>4. old = new
      BY <1>2, <1>6, <2>1, <2>2, <2>3, <3>3 DEF Pod, Down, Idle, Starting
    <3>5. \/ old.state = Healthy
          \/ old.state = Degraded /\ old.score = Tenths(6)
      BY <2>1, <2>3, PodCases
    <3> HIDE DEF old, new, q
    <3> QED BY <1>3, <3>4, <3>5, Ranks, TenthsInOrder DEF NoMilder
  <2>4. CASE ~(Down(p) = {} /\ ~Starting(p) /\ ~(rate >= 100) /\ Idle(p) = {})
    <3>1. p.phase \notin {"Succeeded", "Failed", "Pending"} /\ q.phase \notin {"Succeeded", "Failed", "Pending"}
      BY <1>2, <1>6, <2>1
    <3> HIDE DEF q
    <3>2. \/ old.state = Unhealthy /\ new.state = Unhealthy
          \/ /\ old.state = Degraded /\ new.state = Degraded
             /\ old.score = new.score /\ old.score \in {Tenths(4), Tenths(5)}
      <4>1. CASE Down(p) # {}
        BY <2>2, <3>1, <4>1, PodCases
      <4>2. CASE Down(p) = {} /\ Starting(p)
        BY <2>2, <3>1, <4>2, PodCases
      <4>3. CASE Down(p) = {} /\ ~Starting(p) /\ rate >= 100
        BY <2>2, <3>1, <4>3, PodCases
      <4>4. CASE Down(p) = {} /\ ~Starting(p) /\ ~(rate >= 100) /\ Idle(p) # {}
        BY <2>2, <3>1, <4>4, PodCases
      <4> QED BY <2>4, <4>1, <4>2, <4>3, <4>4
    <3> HIDE DEF old, new
    <3> QED BY <1>3, <3>2, Ranks, TenthsInOrder DEF NoMilder
  <2> QED BY <2>3, <2>4
<1> QED BY <1>5, <1>6

LEMMA RateShows ==
    ASSUME NEW p, NEW r \in Nat, NEW s \in Nat, r <= s
    PROVE  NoMilder(Pod(p, r), Pod(p, s))
<1> DEFINE idle == {n \in DOMAIN p.containers : ~p.containers[n].ready}
           down == {n \in DOMAIN p.containers : IsDown(p.containers[n])}
           starting == \E n \in DOMAIN p.containers : IsStarting(p.containers[n])
           old == Pod(p, r)
           new == Pod(p, s)
<1>1. stateRank(new.state) >= stateRank(old.state)
  <2>1. \A a, b \in {0, 1, 2} : a <= b => b >= a
    OBVIOUS
  <2>2. stateRank(new.state) \in {0, 1, 2} /\ stateRank(old.state) \in {0, 1, 2}
    BY PodState, Ranks
  <2> QED BY <2>1, <2>2, RateOnlyHurts
<1> SUFFICES ASSUME old.state = Degraded, new.state = Degraded PROVE new.score <= old.score
  BY <1>1 DEF NoMilder
<1> USE Ranks DEF Result
<1>2. p.phase \notin {"Succeeded", "Failed"} /\ down = {}
  BY DEF Pod
<1>3. CASE p.phase = "Pending" \/ starting
  <2>1. old.score = Tenths(4) /\ new.score = Tenths(4)
    BY <1>2, <1>3 DEF Pod
  <2> QED BY <2>1, TenthsInOrder
<1>4. CASE p.phase # "Pending" /\ ~starting
  <2>1. ~(r >= 100) /\ ~(s >= 100)
    BY <1>2, <1>4 DEF Pod
  <2>2. CASE idle # {}
    <3>1. idle # DOMAIN p.containers
      BY <1>2, <1>4, <2>1, <2>2 DEF Pod
    <3>2. old.score = Tenths(5) /\ new.score = Tenths(5)
      BY <1>2, <1>4, <2>1, <2>2, <3>1 DEF Pod
    <3> QED BY <3>2, TenthsInOrder
  <2>3. CASE idle = {}
    <3>1. old.score = Tenths(6) /\ new.score = Tenths(6)
      BY <1>2, <1>4, <2>1, <2>3 DEF Pod, Plain
    <3> QED BY <3>1, TenthsInOrder
  <2> QED BY <2>2, <2>3
<1> QED BY <1>3, <1>4

LEMMA NodeShows ==
    ASSUME NEW n \in NodeStates, NEW m \in NodeStates,
           \/ n.ready = "True" /\ m.ready = "False"
           \/ /\ m.ready = n.ready /\ n.pressures \subseteq m.pressures
              /\ n.unschedulable => m.unschedulable
    PROVE  NoMilder(Node(n), Node(m))
<1> DEFINE Why(x) == {<<c>> : c \in x.pressures} \cup
                     (IF x.unschedulable THEN {<<"cordoned">>} ELSE {})
<1> USE Ranks DEF Result
<1>1. n.ready \in {"True", "False", "Unknown"} /\ m.ready \in {"True", "False", "Unknown"}
  BY DEF NodeStates
<1>2. CASE m.ready = "Unknown"
  <2>1. n.ready = "Unknown"
    BY <1>2
  <2>2. Node(n).state = Unknown /\ Node(m).state = Unknown
    BY <1>2, <2>1 DEF Node
  <2>3. stateRank(Unknown) >= stateRank(Unknown) /\ Unknown # Degraded
    BY DEF stateRank, Unknown, Degraded, Healthy, Unhealthy
  <2> QED BY <2>2, <2>3 DEF NoMilder
<1>3. CASE m.ready = "False"
  <2>1. Node(m).state = Unhealthy
    BY <1>3 DEF Node
  <2>2. Node(n).state \in {Healthy, Degraded, Unhealthy}
    BY <1>1, <1>3 DEF Node, Plain
  <2> QED BY <2>1, <2>2 DEF NoMilder
<1>4. CASE m.ready = "True"
  <2>1. n.ready = "True" /\ Why(n) \subseteq Why(m)
    BY <1>1, <1>4 DEF NodeStates
  <2>2. IsFiniteSet(Why(m))
    <3> DEFINE T == {<<c>> : c \in m.pressures}
               f == [c \in m.pressures |-> <<c>>]
    <3>1. IsFiniteSet(m.pressures)
      BY DamageAssumption, FS_Subset DEF NodeStates
    <3>2. f \in Surjection(m.pressures, T)
      BY Zenon DEF Surjection
    <3>3. IsFiniteSet(T)
      BY <3>1, <3>2, FS_Surjection
    <3>4. IsFiniteSet(IF m.unschedulable THEN {<<"cordoned">>} ELSE {})
      BY FS_EmptySet, FS_Singleton
    <3> QED BY <3>3, <3>4, FS_Union
  <2>3. /\ Cardinality(Why(n)) \in Nat /\ Cardinality(Why(m)) \in Nat
        /\ Cardinality(Why(n)) <= Cardinality(Why(m))
    BY <2>1, <2>2, FS_Subset, FS_CardinalityType
  <2>4. Node(n) = IF Why(n) = {} THEN Plain(Healthy)
                  ELSE Result(Degraded, IF Cardinality(Why(n)) > 1 THEN Tenths(5) ELSE Tenths(7), Why(n))
    BY <2>1 DEF Node
  <2>5. Node(m) = IF Why(m) = {} THEN Plain(Healthy)
                  ELSE Result(Degraded, IF Cardinality(Why(m)) > 1 THEN Tenths(5) ELSE Tenths(7), Why(m))
    BY <1>4 DEF Node
  <2> HIDE DEF Why
  <2> QED BY <2>1, <2>3, <2>4, <2>5, TenthsInOrder DEF NoMilder, Plain
<1> QED BY <1>1, <1>2, <1>3, <1>4

(* The results of an incomplete workload, by the replicas that count. *)
LEMMA WorkloadCases ==
    ASSUME NEW desired \in Nat, NEW a \in Nat, NEW b \in Nat, NEW eff \in Nat,
           eff = Lesser(a, b)
    PROVE  /\ desired = 0 \/ eff >= desired => Workload(desired, a, b).state = Healthy
           /\ desired # 0 /\ ~(eff >= desired) /\ eff = 0 =>
                 Workload(desired, a, b).state = Unhealthy
           /\ desired # 0 /\ ~(eff >= desired) /\ eff # 0 =>
                 /\ Workload(desired, a, b).state = Degraded
                 /\ Workload(desired, a, b).score = (eff * Unit) \div desired
<1> USE DEF Result
<1>1. CASE desired = 0
  <2>1. Workload(desired, a, b).state = Healthy
    BY <1>1 DEF Workload
  <2> QED BY <1>1, <2>1
<1>2. CASE desired # 0 /\ eff >= desired
  <2>1. Workload(desired, a, b) = Plain(Healthy)
    BY <1>2 DEF Workload
  <2> QED BY <1>2, <2>1 DEF Plain
<1>3. CASE desired # 0 /\ ~(eff >= desired) /\ eff = 0
  <2>1. Workload(desired, a, b).state = Unhealthy
    BY <1>3 DEF Workload
  <2> QED BY <1>3, <2>1
<1>4. CASE desired # 0 /\ ~(eff >= desired) /\ eff # 0
  <2>1. Workload(desired, a, b) =
           Result(Degraded, (eff * Unit) \div desired, {<<"ready", eff, desired>>})
    BY <1>4, Zenon DEF Workload
  <2> QED BY <1>4, <2>1
<1> QED BY <1>1, <1>2, <1>3, <1>4

LEMMA WorkloadShows ==
    ASSUME NEW desired \in Nat, NEW a \in Nat, NEW b \in Nat, NEW c \in Nat, NEW d \in Nat,
           c <= a, d <= b
    PROVE  NoMilder(Workload(desired, a, b), Workload(desired, c, d))
<1> DEFINE old == Lesser(a, b)
           new == Lesser(c, d)
           before == Workload(desired, a, b)
           after == Workload(desired, c, d)
<1>1. old \in Nat /\ new \in Nat /\ new <= old
  BY DEF Lesser
<1>2. /\ desired = 0 \/ old >= desired => before.state = Healthy
      /\ desired # 0 /\ ~(old >= desired) /\ old = 0 => before.state = Unhealthy
      /\ desired # 0 /\ ~(old >= desired) /\ old # 0 =>
            before.state = Degraded /\ before.score = (old * Unit) \div desired
  BY <1>1, WorkloadCases
<1>3. /\ desired = 0 \/ new >= desired => after.state = Healthy
      /\ desired # 0 /\ ~(new >= desired) /\ new = 0 => after.state = Unhealthy
      /\ desired # 0 /\ ~(new >= desired) /\ new # 0 =>
            after.state = Degraded /\ after.score = (new * Unit) \div desired
  BY <1>1, WorkloadCases
<1> HIDE DEF old, new, before, after
<1>4. new * Unit \in Nat /\ old * Unit \in Nat /\ new * Unit <= old * Unit
  <2>1. \A x, y, u \in Nat : x <= y => x * u \in Nat /\ y * u \in Nat /\ x * u <= y * u
    OBVIOUS
  <2> QED BY <1>1, <2>1, UnitIsNat
<1>5. desired # 0 => (new * Unit) \div desired <= (old * Unit) \div desired
  BY <1>4, QuotientMonotone
<1> DEFINE x == (new * Unit) \div desired
           y == (old * Unit) \div desired
<1>6. desired # 0 => x <= y
  BY <1>5
<1>7. desired # 0 /\ ~(old >= desired) /\ old # 0 => before.state = Degraded /\ before.score = y
  BY <1>2
<1>8. desired # 0 /\ ~(new >= desired) /\ new # 0 => after.state = Degraded /\ after.score = x
  BY <1>3
<1> HIDE DEF x, y
<1>9. /\ desired = 0 \/ old >= desired => before.state = Healthy
      /\ desired # 0 /\ ~(old >= desired) /\ old = 0 => before.state = Unhealthy
  BY <1>2
<1>10. /\ desired = 0 \/ new >= desired => after.state = Healthy
       /\ desired # 0 /\ ~(new >= desired) /\ new = 0 => after.state = Unhealthy
  BY <1>3
<1>11. NoMilder(before, after)
  BY <1>1, <1>6, <1>7, <1>8, <1>9, <1>10, Ranks DEF NoMilder
<1> QED BY <1>11 DEF before, after

LEMMA ClaimShows ==
    ASSUME NEW phase, NEW age \in Nat, NEW later \in Nat, age <= later, NEW grace \in Nat
    PROVE  NoMilder(PVC(phase, age, grace), PVC(phase, later, grace))
<1>1. PVC(phase, age, grace).score <= PVC(phase, age, grace).score
  BY UnitIsNat DEF PVC, Plain, Result, stateScore, Tenths
<1>2. stateRank(PVC(phase, age, grace).state) >= stateRank(PVC(phase, age, grace).state)
  BY DEF stateRank
<1>3. CASE PVC(phase, later, grace) = PVC(phase, age, grace)
  BY <1>1, <1>2, <1>3 DEF NoMilder
<1>4. CASE PVC(phase, later, grace) # PVC(phase, age, grace)
  <2>0. phase = "Pending" /\ ~(age > grace <=> later > grace)
    BY <1>4, Zenon DEF PVC
  <2>1. phase = "Pending" /\ ~(age > grace) /\ later > grace
    BY <2>0
  <2>2. PVC(phase, age, grace).state = Degraded /\ PVC(phase, later, grace).state = Unhealthy
    BY <2>1 DEF PVC, Result
  <2> QED BY <2>2, Ranks DEF NoMilder
<1> QED BY <1>3, <1>4

LEMMA ServiceShows ==
    ASSUME NEW selector \in BOOLEAN, NEW few \in Nat, NEW many \in Nat, few <= many
    PROVE  NoMilder(Service(selector, many), Service(selector, few))
<1>1. CASE ~selector
  BY <1>1 DEF Service, NoMilder, Result, stateRank, Unknown, Degraded, Healthy, Unhealthy
<1>2. CASE selector /\ few = 0
  <2>1. Service(selector, few).state = Unhealthy
    BY <1>2 DEF Service, Result
  <2>2. Service(selector, many).state \in {Healthy, Unhealthy}
    BY <1>2 DEF Service, Result, Plain
  <2> QED BY <2>1, <2>2, Ranks DEF NoMilder
<1>3. CASE selector /\ few # 0
  <2>1. Service(selector, few).state = Healthy /\ Service(selector, many).state = Healthy
    BY <1>3 DEF Service, Result, Plain
  <2> QED BY <2>1, Ranks DEF NoMilder
<1> QED BY <1>1, <1>2, <1>3

(* Two elements may be taken apart from the others. *)
LEMMA SumsApart ==
    ASSUME NEW S, IsFiniteSet(S), NEW f, Counts(f, S), NEW x \in S, NEW y \in S, x # y
    PROVE  /\ Sums(f, S)[S] = f[x] + (f[y] + Sums(f, S)[(S \ {x}) \ {y}])
           /\ Sums(f, S)[(S \ {x}) \ {y}] \in Nat
<1>1. S \ {x} \in SUBSET S /\ (S \ {x}) \ {y} \in SUBSET S /\ y \in S \ {x}
  OBVIOUS
<1>2. Sums(f, S)[S] = f[x] + Sums(f, S)[S \ {x}]
  BY SumsSplit
<1>3. Sums(f, S)[S \ {x}] = f[y] + Sums(f, S)[(S \ {x}) \ {y}]
  BY <1>1, SumsAnyOrder
<1>4. Sums(f, S)[(S \ {x}) \ {y}] \in Nat
  BY <1>1, SumsAreNumbers
<1> QED BY <1>2, <1>3, <1>4

LEMMA OneMoves ==
    \A m, n, x, y \in Nat : m > 0 /\ y <= x => (m - 1) * x + (n + 1) * y <= m * x + n * y
<1> SUFFICES ASSUME NEW m \in Nat, NEW n \in Nat, NEW x \in Nat, NEW y \in Nat, m > 0, y <= x
             PROVE  (m - 1) * x + (n + 1) * y <= m * x + n * y
  OBVIOUS
<1>1. PICK k \in Nat : m = k + 1
  BY m - 1 \in Nat
<1>2. m * x = k * x + x /\ (n + 1) * y = n * y + y /\ m - 1 = k
  BY <1>1
<1>3. k * x \in Nat /\ n * y \in Nat
  OBVIOUS
<1> QED BY <1>2, <1>3

(* A child that gets worse leaves the number of children, and the sum of
   their scores no larger. *)
LEMMA ExchangeSums ==
    ASSUME NEW b \in [ChildResults -> Nat], NEW c, NEW r \in ChildResults, NEW t \in ChildResults,
           Exchange(b, c, r, t), NoBetter(r, t)
    PROVE  /\ IsBag(b) /\ IsBag(c) /\ CountOf(c) = CountOf(b) /\ SumOf(c) <= SumOf(b)
           /\ r.state # Unknown /\ t.state # Unknown
<1> DEFINE R == ChildResults
           f == CountAt(b)
           ff == CountAt(c)
           g == ScoreAt(b)
           gg == ScoreAt(c)
           U == (R \ {r}) \ {t}
<1>1. c \in [R -> Nat] /\ DOMAIN b = R /\ DOMAIN c = R /\ r # t
  BY DEF Exchange
<1>2. IsBag(b) /\ IsBag(c)
  BY <1>1, DamageAssumption DEF IsBag
<1>3. r.state # Unknown /\ t.state # Unknown
  <2>1. stateRank(Unknown) = -1
    BY DEF stateRank, Unknown, Healthy, Degraded, Unhealthy
  <2>2. ~(-1 >= 0)
    OBVIOUS
  <2>3. r.state \in States /\ t.state \in States
    BY DamageAssumption
  <2>4. stateRank(r.state) >= 0 /\ stateRank(t.state) >= stateRank(r.state)
    BY DEF NoBetter
  <2>5. \A s \in States : stateRank(s) \in Int
    BY DEF stateRank
  <2>6. stateRank(t.state) >= 0
    BY <2>3, <2>4, <2>5
  <2> QED BY <2>1, <2>2, <2>4, <2>6
<1>4. b[r] \in Nat /\ b[r] > 0 /\ b[t] \in Nat /\ c[r] = b[r] - 1 /\ c[t] = b[t] + 1
  BY DEF Exchange
<1>5. \A x \in U : c[x] = b[x]
  BY DEF Exchange
<1>6. r.score \in Nat /\ t.score \in Nat /\ t.score <= r.score
  BY DamageAssumption, UnitIsNat DEF NoBetter
<1>7. IsFiniteSet(R) /\ Counts(f, R) /\ Counts(ff, R) /\ Counts(g, R) /\ Counts(gg, R)
  BY <1>1, <1>2, BagCounts DEF IsBag
<1>8. Agree(f, ff, U) /\ Agree(g, gg, U)
  BY <1>1, <1>5 DEF Agree, CountAt, ScoreAt
<1>9. f[r] = b[r] /\ f[t] = b[t] /\ ff[r] = b[r] - 1 /\ ff[t] = b[t] + 1
  BY <1>1, <1>3, <1>4 DEF CountAt
<1>10. /\ g[r] = b[r] * r.score /\ g[t] = b[t] * t.score
       /\ gg[r] = (b[r] - 1) * r.score /\ gg[t] = (b[t] + 1) * t.score
  BY <1>1, <1>3, <1>4 DEF ScoreAt
<1>11. g[r] \in Nat /\ g[t] \in Nat /\ gg[r] \in Nat /\ gg[t] \in Nat
  BY <1>7 DEF Counts
<1>12. gg[r] + gg[t] <= g[r] + g[t]
  BY <1>4, <1>6, <1>10, OneMoves
<1>13. /\ CountOf(b) = Sums(f, R)[R] /\ CountOf(c) = Sums(ff, R)[R]
       /\ SumOf(b) = Sums(g, R)[R] /\ SumOf(c) = Sums(gg, R)[R]
  BY <1>1, <1>2, CountIsTotal, SumIsTotal DEF Total
<1> HIDE DEF f, ff, g, gg
<1>14. U \in SUBSET R /\ U \subseteq R
  OBVIOUS
<1> HIDE DEF R
<1>15. r \in R /\ t \in R
  BY DEF R
<1>16. Sums(f, R)[U] = Sums(ff, R)[U] /\ Sums(g, R)[U] = Sums(gg, R)[U]
  <2> HIDE DEF U
  <2> QED BY <1>7, <1>8, <1>14, SumsAgree
<1>17. /\ Sums(f, R)[R] = f[r] + (f[t] + Sums(f, R)[U]) /\ Sums(f, R)[U] \in Nat
       /\ Sums(ff, R)[R] = ff[r] + (ff[t] + Sums(ff, R)[U])
  BY <1>1, <1>7, <1>15, SumsApart
<1>18. /\ Sums(g, R)[R] = g[r] + (g[t] + Sums(g, R)[U]) /\ Sums(g, R)[U] \in Nat
       /\ Sums(gg, R)[R] = gg[r] + (gg[t] + Sums(gg, R)[U])
  BY <1>1, <1>7, <1>15, SumsApart
<1> HIDE DEF U
<1>19. CountOf(c) = CountOf(b)
  BY <1>4, <1>9, <1>13, <1>16, <1>17
<1>20. SumOf(c) <= SumOf(b)
  BY <1>11, <1>12, <1>13, <1>16, <1>18
<1> QED BY <1>2, <1>3, <1>19, <1>20

LEMMA RollUpShows ==
    ASSUME NEW b \in [ChildResults -> Nat], NEW c, NEW r \in ChildResults, NEW t \in ChildResults,
           Exchange(b, c, r, t), NoBetter(r, t)
    PROVE  NoMilder(Aggregate(b), Aggregate(c))
<1> DEFINE n == CountOf(b)
           limit == 99 * n * Unit
<1>1. /\ IsBag(b) /\ IsBag(c) /\ CountOf(c) = n /\ SumOf(c) <= SumOf(b)
      /\ r.state # Unknown /\ t.state # Unknown
  BY ExchangeSums
<1>2. n \in Nat /\ n >= 1 /\ SumOf(b) \in Nat /\ SumOf(c) \in Nat
  <2>1. r \in DOMAIN b /\ b[r] > 0
    BY DEF Exchange
  <2>2. CountOf(b) > 0 /\ CountOf(b) \in Nat
    BY <1>1, <2>1, NobodyCounted, CountIsTotal
  <2> QED BY <1>1, <2>2, SumIsTotal
<1>3. limit \in Nat
  BY <1>2, UnitIsNat, Means, Products
<1>4. /\ Aggregate(b).state = IF 100 * SumOf(b) >= limit THEN Healthy
                              ELSE IF WorstOf(b) = Healthy THEN Degraded ELSE WorstOf(b)
      /\ Aggregate(b).score = SumOf(b) \div n
  BY <1>2, AggregateState
<1>5. /\ Aggregate(c).state = IF 100 * SumOf(c) >= limit THEN Healthy
                              ELSE IF WorstOf(c) = Healthy THEN Degraded ELSE WorstOf(c)
      /\ Aggregate(c).score = SumOf(c) \div n
  BY <1>1, <1>2, AggregateState
<1>6. (\A x \in Scored(b) : x.state \in States) /\ (\A x \in Scored(c) : x.state \in States)
  BY DamageAssumption DEF Scored, Exchange
<1>7. WorstOf(b) = Unhealthy => WorstOf(c) = Unhealthy
  <2>1. SUFFICES ASSUME WorstOf(b) = Unhealthy PROVE \E x \in Scored(c) : x.state = Unhealthy
    BY <1>6, WorstIsWorst
  <2>2. PICK x \in Scored(b) : x.state = Unhealthy
    BY <1>6, <2>1, WorstIsWorst
  <2>3. x \in ChildResults /\ b[x] > 0
    BY DEF Scored
  <2>4. DOMAIN c = ChildResults
    BY DEF Exchange
  <2>5. CASE x = r
    <3>1. t.state \in States /\ stateRank(t.state) >= 2
      BY <2>2, <2>5, Ranks, DamageAssumption DEF NoBetter
    <3>2. t.state = Unhealthy
      BY <1>1, <3>1, Ranks DEF States
    <3>3. c[t] > 0
      BY DEF Exchange
    <3>4. t \in Scored(c)
      BY <1>1, <2>4, <3>3 DEF Scored
    <3> QED BY <3>2, <3>4
  <2>6. CASE x # r
    <3>1. c[x] > 0
      BY <2>3, <2>6 DEF Exchange
    <3>2. x \in Scored(c)
      BY <2>2, <2>3, <2>4, <3>1 DEF Scored
    <3> QED BY <2>2, <3>2
  <2> QED BY <2>5, <2>6
<1>8. WorstOf(b) \in {Healthy, Degraded, Unhealthy} /\ WorstOf(c) \in {Healthy, Degraded, Unhealthy}
  BY <1>6, WorstIsWorst
<1>9. SumOf(c) \div n <= SumOf(b) \div n
  BY <1>1, <1>2, QuotientMonotone
<1> DEFINE old == Aggregate(b)
           new == Aggregate(c)
<1>10. 100 * SumOf(c) >= limit => 100 * SumOf(b) >= limit
  BY <1>1, <1>2, <1>3
<1> HIDE DEF limit, n, old, new
<1>11. stateRank(new.state) >= stateRank(old.state)
  <2>1. CASE 100 * SumOf(c) >= limit
    BY <1>4, <1>5, <1>10, <2>1, Ranks DEF old, new
  <2>2. CASE ~(100 * SumOf(c) >= limit)
    <3>1. new.state \in {Degraded, Unhealthy} /\ old.state \in {Healthy, Degraded, Unhealthy}
      BY <1>4, <1>5, <1>8, <2>2 DEF old, new
    <3>2. old.state = Unhealthy => new.state = Unhealthy
      BY <1>4, <1>5, <1>7, <2>2, Ranks DEF old, new
    <3> QED BY <3>1, <3>2, Ranks
  <2> QED BY <2>1, <2>2
<1>12. new.score <= old.score
  BY <1>4, <1>5, <1>9 DEF old, new
<1> QED BY <1>11, <1>12 DEF NoMilder, old, new


LEMMA NodeDamageShows ==
    ASSUME DamageTypeOK, NodeDamage
    PROVE  NoMilder(ScoreOf(input), ScoreOf(input')) \/ KubeletSilent(input, input')
<1> DEFINE n == input.node
<1>1. input \in NodeInputs /\ input.kind = "Node"
  BY InputOfKind DEF NodeDamage
<1>2. n \in NodeStates /\ input = [kind |-> "Node", node |-> n]
  BY <1>1 DEF NodeInputs
<1>3. ASSUME \E m \in NodeStates :
                /\ input' = [kind |-> "Node", node |-> m]
                /\ \/ n.ready = "True" /\ m.ready = "False"
                   \/ /\ m.ready = n.ready /\ n.pressures \subseteq m.pressures
                      /\ n.unschedulable => m.unschedulable
      PROVE  NoMilder(ScoreOf(input), ScoreOf(input'))
  <2>1. PICK m \in NodeStates :
         /\ input' = [kind |-> "Node", node |-> m]
         /\ \/ n.ready = "True" /\ m.ready = "False"
            \/ /\ m.ready = n.ready /\ n.pressures \subseteq m.pressures
               /\ n.unschedulable => m.unschedulable
    BY <1>3
  <2>2. NoMilder(Node(n), Node(m))
    BY <1>2, <2>1, NodeShows
  <2>3. ScoreOf(input) = Node(n)
    BY <1>1 DEF ScoreOf
  <2>4. ScoreOf(input') = Node(m)
    BY <2>1 DEF ScoreOf
  <2> QED BY <2>2, <2>3, <2>4
<1>4. CASE n.ready = "True" /\ input' = [input EXCEPT !.node.ready = "False"]
  <2> DEFINE m == [n EXCEPT !.ready = "False"]
  <2>1. m \in NodeStates /\ m.ready = "False"
    BY <1>2 DEF NodeStates
  <2>2. input' = [kind |-> "Node", node |-> m]
    BY <1>2, <1>4
  <2> QED BY <1>3, <1>4, <2>1, <2>2
<1>5. ASSUME NEW c \in Conditions, input' = [input EXCEPT !.node.pressures = @ \cup {c}]
      PROVE  \E m \in NodeStates :
                /\ input' = [kind |-> "Node", node |-> m]
                /\ m.ready = n.ready /\ n.pressures \subseteq m.pressures
                /\ n.unschedulable => m.unschedulable
  <2> DEFINE m == [n EXCEPT !.pressures = n.pressures \cup {c}]
  <2>1. m \in NodeStates /\ m.pressures = n.pressures \cup {c} /\ m.ready = n.ready
    BY <1>2 DEF NodeStates
  <2>2. m.unschedulable = n.unschedulable
    BY <1>2, Zenon DEF NodeStates
  <2>3. input' = [kind |-> "Node", node |-> m]
    BY <1>2, <1>5
  <2> QED BY <2>1, <2>2, <2>3
<1>6. CASE input' = [input EXCEPT !.node.unschedulable = TRUE]
  <2> DEFINE m == [n EXCEPT !.unschedulable = TRUE]
  <2>1. input' = [[kind |-> "Node", node |-> n] EXCEPT !.node.unschedulable = TRUE]
    BY <1>2, <1>6, Zenon
  <2>2. input' = [kind |-> "Node", node |-> m]
    <3> HIDE DEF n
    <3> QED BY <2>1, NodeUpdate, Zenon
  <2>3. m \in NodeStates /\ m.ready = n.ready /\ m.pressures = n.pressures
    BY <1>2 DEF NodeStates
  <2>4. m.unschedulable
    <3>1. m.unschedulable = TRUE
      BY <1>2, Zenon DEF NodeStates
    <3> QED BY <3>1
  <2> HIDE DEF m
  <2> QED BY <1>3, <2>2, <2>3, <2>4
<1>7. CASE n.ready # "Unknown" /\ input' = [input EXCEPT !.node.ready = "Unknown"]
  <2>1. input' = [kind |-> "Node", node |-> [n EXCEPT !.ready = "Unknown"]]
    BY <1>2, <1>7
  <2>2. [n EXCEPT !.ready = "Unknown"].ready = "Unknown"
    BY <1>2 DEF NodeStates
  <2>3. KubeletSilent(input, input')
    BY <1>1, <1>7, <2>1, <2>2 DEF KubeletSilent
  <2> QED BY <2>3
<1> QED BY <1>3, <1>4, <1>5, <1>6, <1>7 DEF NodeDamage

LEMMA OtherDamageShows ==
    ASSUME DamageTypeOK,
           RateRises \/ ReplicaLost \/ EndpointLost \/ ClaimAges \/ ClaimLost \/ VolumeFails
    PROVE  NoMilder(ScoreOf(input), ScoreOf(input'))
<1>1. CASE RateRises
  <2>1. input \in PodInputs /\ input.kind = "Pod"
    BY <1>1, InputOfKind DEF RateRises
  <2>2. PICK r \in RestartRates : r > input.rate /\ input' = [input EXCEPT !.rate = r]
    BY <1>1 DEF RateRises
  <2>3. input.rate \in Nat /\ r \in Nat
    BY <2>1, DamageAssumption DEF PodInputs
  <2>4. ScoreOf(input) = Pod(input.pod, input.rate)
    BY <2>1 DEF ScoreOf
  <2>5. input'.kind = "Pod" /\ input'.pod = input.pod /\ input'.rate = r
    BY <2>1, <2>2 DEF PodInputs
  <2>6. ScoreOf(input') = Pod(input.pod, r)
    BY <2>5 DEF ScoreOf
  <2>7. NoMilder(Pod(input.pod, input.rate), Pod(input.pod, r))
    BY <2>2, <2>3, RateShows
  <2> QED BY <2>4, <2>6, <2>7
<1>2. CASE ReplicaLost
  <2> DEFINE want == Replicas(input.replicas)
  <2>1. input \in WorkloadInputs /\ input.kind = "Workload"
    BY <1>2, InputOfKind DEF ReplicaLost
  <2>2. input.ready \in Nat /\ input.available \in Nat /\ want \in Nat
    BY <2>1, DamageAssumption DEF WorkloadInputs, Replicas, Nil
  <2>3. PICK ready \in Nat, available \in Nat :
           /\ ready <= input.ready /\ available <= input.available
           /\ input'.kind = "Workload" /\ input'.replicas = input.replicas
           /\ input'.ready = ready /\ input'.available = available
    <3>1. CASE input.ready > 0 /\ input' = [input EXCEPT !.ready = @ - 1]
      BY <2>1, <2>2, <3>1, input.ready - 1 \in Nat DEF WorkloadInputs
    <3>2. CASE input.available > 0 /\ input' = [input EXCEPT !.available = @ - 1]
      BY <2>1, <2>2, <3>2, input.available - 1 \in Nat DEF WorkloadInputs
    <3> QED BY <1>2, <3>1, <3>2 DEF ReplicaLost
  <2>4. ScoreOf(input) = Workload(want, input.ready, input.available)
    BY <2>1 DEF ScoreOf, Deployment
  <2>5. ScoreOf(input') = Workload(want, ready, available)
    BY <2>3 DEF ScoreOf, Deployment
  <2>6. NoMilder(Workload(want, input.ready, input.available), Workload(want, ready, available))
    BY <2>2, <2>3, WorkloadShows
  <2> QED BY <2>4, <2>5, <2>6
<1>3. CASE EndpointLost
  <2>1. input \in ServiceInputs /\ input.kind = "Service"
    BY <1>3, InputOfKind DEF EndpointLost
  <2>2. input.endpoints \in Nat /\ input.endpoints > 0 /\ input.selector \in BOOLEAN
    BY <1>3, <2>1, DamageAssumption DEF ServiceInputs, EndpointLost
  <2> DEFINE few == input.endpoints - 1
  <2>3. few \in Nat /\ few <= input.endpoints
    BY <2>2
  <2>4. input' = [kind |-> "Service", selector |-> input.selector, endpoints |-> few]
    BY <1>3, <2>1 DEF ServiceInputs, EndpointLost
  <2>5. ScoreOf(input) = Service(input.selector, input.endpoints)
    BY <2>1 DEF ScoreOf
  <2> HIDE DEF few
  <2>6. ScoreOf(input') = Service(input.selector, few)
    BY <2>4 DEF ScoreOf
  <2>7. NoMilder(Service(input.selector, input.endpoints), Service(input.selector, few))
    BY <2>2, <2>3, ServiceShows
  <2> QED BY <2>5, <2>6, <2>7
<1>4. CASE ClaimAges
  <2>1. input \in ClaimInputs /\ input.kind = "Claim"
    BY <1>4, InputOfKind DEF ClaimAges
  <2>2. input.age \in Nat /\ GracePeriod \in Nat
    BY <2>1, DamageAssumption DEF ClaimInputs
  <2> DEFINE later == input.age + 1
  <2>3. later \in Nat /\ input.age <= later
    BY <2>2
  <2>4. input' = [kind |-> "Claim", phase |-> input.phase, age |-> later]
    BY <1>4, <2>1 DEF ClaimInputs, ClaimAges
  <2>5. ScoreOf(input) = PVC(input.phase, input.age, GracePeriod)
    BY <2>1 DEF ScoreOf
  <2> HIDE DEF later
  <2>6. ScoreOf(input') = PVC(input.phase, later, GracePeriod)
    BY <2>4 DEF ScoreOf
  <2>7. NoMilder(PVC(input.phase, input.age, GracePeriod), PVC(input.phase, later, GracePeriod))
    BY <2>2, <2>3, ClaimShows
  <2> QED BY <2>5, <2>6, <2>7
<1>5. CASE ClaimLost
  <2>1. input \in ClaimInputs /\ input.kind = "Claim" /\ input.phase \in {"Pending", "Bound"}
    BY <1>5, InputOfKind DEF ClaimLost
  <2>2. input' = [kind |-> "Claim", phase |-> "Lost", age |-> input.age]
    BY <1>5, <2>1 DEF ClaimInputs, ClaimLost
  <2>3. ScoreOf(input) = PVC(input.phase, input.age, GracePeriod)
    BY <2>1 DEF ScoreOf
  <2>4. ScoreOf(input') = PVC("Lost", input.age, GracePeriod)
    BY <2>2 DEF ScoreOf
  <2>5. PVC("Lost", input.age, GracePeriod).state = Unhealthy
    BY DEF PVC, Result
  <2>6. PVC(input.phase, input.age, GracePeriod).state \in {Healthy, Degraded, Unhealthy}
    BY <2>1 DEF PVC, Result, Plain
  <2> QED BY <2>3, <2>4, <2>5, <2>6, Ranks DEF NoMilder
<1>6. CASE VolumeFails
  <2>1. input \in VolumeInputs /\ input.kind = "Volume"
    BY <1>6, InputOfKind DEF VolumeFails
  <2>2. input' = [kind |-> "Volume", phase |-> "Failed"]
    BY <1>6, <2>1 DEF VolumeInputs, VolumeFails
  <2>3. ScoreOf(input) = PV(input.phase) /\ ScoreOf(input') = PV("Failed")
    BY <2>1, <2>2 DEF ScoreOf
  <2>4. PV("Failed").state = Unhealthy
    BY DEF PV, Result
  <2>5. PV(input.phase).state \in {Healthy, Degraded, Unhealthy}
    BY <1>6 DEF VolumeFails, PV, Result, Plain
  <2> QED BY <2>3, <2>4, <2>5, Ranks DEF NoMilder
<1> QED BY <1>1, <1>2, <1>3, <1>4, <1>5, <1>6

(* A child that becomes unknown is counted no more. *)
LEMMA DropOutSums ==
    ASSUME NEW b \in [ChildResults -> Nat], NEW c, NEW r \in ChildResults, NEW t \in ChildResults,
           Exchange(b, c, r, t), Unscores(r, t)
    PROVE  /\ IsBag(b) /\ IsBag(c) /\ r \in Scored(b)
           /\ CountOf(b) = CountOf(c) + 1 /\ SumOf(b) = SumOf(c) + r.score
<1> DEFINE R == ChildResults
           f == CountAt(b)
           ff == CountAt(c)
           g == ScoreAt(b)
           gg == ScoreAt(c)
           U == (R \ {r}) \ {t}
<1>1. c \in [R -> Nat] /\ DOMAIN b = R /\ DOMAIN c = R /\ r # t
  BY DEF Exchange
<1>2. IsBag(b) /\ IsBag(c)
  BY <1>1, DamageAssumption DEF IsBag
<1>3. r.state # Unknown /\ t.state = Unknown
  BY DEF Unscores
<1>4. b[r] \in Nat /\ b[r] > 0 /\ c[r] = b[r] - 1
  BY DEF Exchange
<1>5. \A x \in U : c[x] = b[x]
  BY DEF Exchange
<1>6. r.score \in Nat
  BY DamageAssumption, UnitIsNat
<1>7. IsFiniteSet(R) /\ Counts(f, R) /\ Counts(ff, R) /\ Counts(g, R) /\ Counts(gg, R)
  BY <1>1, <1>2, BagCounts DEF IsBag
<1>8. Agree(f, ff, U) /\ Agree(g, gg, U)
  BY <1>1, <1>5 DEF Agree, CountAt, ScoreAt
<1>9. f[r] = b[r] /\ f[t] = 0 /\ ff[r] = b[r] - 1 /\ ff[t] = 0
  BY <1>1, <1>3, <1>4 DEF CountAt
<1>10. /\ g[r] = b[r] * r.score /\ g[t] = 0
       /\ gg[r] = (b[r] - 1) * r.score /\ gg[t] = 0
  BY <1>1, <1>3, <1>4 DEF ScoreAt
<1>11. g[r] = gg[r] + r.score /\ gg[r] \in Nat
  <2>1. \A m, x \in Nat : m > 0 => m * x = (m - 1) * x + x /\ (m - 1) * x \in Nat
    OBVIOUS
  <2> QED BY <1>4, <1>6, <1>10, <2>1
<1>12. r \in Scored(b)
  BY <1>1, <1>3, <1>4 DEF Scored
<1>13. /\ CountOf(b) = Sums(f, R)[R] /\ CountOf(c) = Sums(ff, R)[R]
       /\ SumOf(b) = Sums(g, R)[R] /\ SumOf(c) = Sums(gg, R)[R]
  BY <1>1, <1>2, CountIsTotal, SumIsTotal DEF Total
<1> HIDE DEF f, ff, g, gg
<1>14. U \in SUBSET R /\ U \subseteq R
  OBVIOUS
<1> HIDE DEF R
<1>15. r \in R /\ t \in R
  BY DEF R
<1>16. Sums(f, R)[U] = Sums(ff, R)[U] /\ Sums(g, R)[U] = Sums(gg, R)[U]
  <2> HIDE DEF U
  <2> QED BY <1>7, <1>8, <1>14, SumsAgree
<1>17. /\ Sums(f, R)[R] = f[r] + (f[t] + Sums(f, R)[U]) /\ Sums(f, R)[U] \in Nat
       /\ Sums(ff, R)[R] = ff[r] + (ff[t] + Sums(ff, R)[U])
  BY <1>1, <1>7, <1>15, SumsApart
<1>18. /\ Sums(g, R)[R] = g[r] + (g[t] + Sums(g, R)[U]) /\ Sums(g, R)[U] \in Nat
       /\ Sums(gg, R)[R] = gg[r] + (gg[t] + Sums(gg, R)[U])
  BY <1>1, <1>7, <1>15, SumsApart
<1> HIDE DEF U
<1>19. CountOf(b) = CountOf(c) + 1
  BY <1>4, <1>9, <1>13, <1>16, <1>17
<1>20. SumOf(b) = SumOf(c) + r.score
  BY <1>6, <1>10, <1>11, <1>13, <1>16, <1>18
<1> QED BY <1>2, <1>12, <1>19, <1>20

(* Taking away a term of at least 0.99 leaves a mean below 0.99 no higher. *)
LEMMA MeanWithoutTop ==
    ASSUME NEW m \in Nat, m >= 1, NEW sum \in Nat, NEW x \in Nat,
           100 * x >= 99 * Unit
    PROVE  /\ 100 * sum >= 99 * m * Unit => 100 * (sum + x) >= 99 * (m + 1) * Unit
           /\ ~(100 * sum >= 99 * m * Unit) => sum \div m <= (sum + x) \div (m + 1)
<1>1. Unit \in Nat
  BY UnitIsNat
<1>2. 99 * (m + 1) * Unit = 99 * m * Unit + 99 * Unit /\ 99 * m * Unit \in Nat
  <2>1. \A k, u \in Nat : 99 * (k + 1) * u = 99 * k * u + 99 * u /\ 99 * k * u \in Nat
    OBVIOUS
  <2> QED BY <1>1, <2>1
<1>3. 100 * sum >= 99 * m * Unit => 100 * (sum + x) >= 99 * (m + 1) * Unit
  <2> DEFINE lim == 99 * m * Unit
  <2>1. lim \in Nat /\ 99 * (m + 1) * Unit = lim + 99 * Unit
    BY <1>2
  <2> HIDE DEF lim
  <2>2. 100 * sum >= lim => 100 * (sum + x) >= lim + 99 * Unit
    BY <1>1, <2>1
  <2> QED BY <2>1, <2>2 DEF lim
<1>4. ASSUME ~(100 * sum >= 99 * m * Unit)
      PROVE  sum \div m <= (sum + x) \div (m + 1)
  <2> DEFINE q == sum \div m
  <2>1. q \in Nat /\ q * m <= sum /\ q * m \in Nat
    BY Quotient
  <2> HIDE DEF q
  <2>2. q <= x
    <3> SUFFICES ASSUME q > x PROVE FALSE
      BY <2>1
    <3>1. x * m <= q * m /\ x * m \in Nat
      <4>1. \A a, d, k \in Nat : a < d => a * k <= d * k /\ a * k \in Nat
        OBVIOUS
      <4> QED BY <2>1, <4>1
    <3>2. 100 * (x * m) >= 99 * m * Unit
      <4>1. \A a, d, k \in Nat : a >= d => a * k >= d * k
        OBVIOUS
      <4>2. (100 * x) * m >= (99 * Unit) * m
        BY <1>1, <4>1
      <4>3. (100 * x) * m = 100 * (x * m)
        BY <3>1
      <4>4. (99 * Unit) * m = 99 * m * Unit
        BY <1>1
      <4> QED BY <4>2, <4>3, <4>4
    <3> DEFINE lim == 99 * m * Unit
               xm == x * m
               qm == q * m
    <3>3. lim \in Nat /\ xm \in Nat /\ qm \in Nat /\ qm <= sum /\ xm <= qm /\ 100 * xm >= lim /\ ~(100 * sum >= lim)
      BY <1>2, <1>4, <2>1, <3>1, <3>2
    <3> HIDE DEF lim, xm, qm
    <3> QED BY <3>3
  <2>3. q * (m + 1) = q * m + q
    BY <2>1
  <2>4. q * (m + 1) <= sum + x
    BY <2>1, <2>2, <2>3
  <2>5. sum + x \in Nat /\ m + 1 \in Nat /\ m + 1 >= 1
    OBVIOUS
  <2> QED BY <2>1, <2>4, <2>5, QuotientIsLargest DEF q
<1> QED BY <1>3, <1>4

LEMMA DropOutShows ==
    ASSUME NEW b \in [ChildResults -> Nat], NEW c, NEW r \in ChildResults, NEW t \in ChildResults,
           Exchange(b, c, r, t), Unscores(r, t), r.state = Healthy, CountOf(c) # 0
    PROVE  NoMilder(Aggregate(b), Aggregate(c))
<1> DEFINE m == CountOf(c)
           n == CountOf(b)
<1>1. /\ IsBag(b) /\ IsBag(c)
      /\ n = m + 1 /\ SumOf(b) = SumOf(c) + r.score
  BY DropOutSums
<1>2. m \in Nat /\ n \in Nat /\ SumOf(b) \in Nat /\ SumOf(c) \in Nat /\ r.score \in Nat
  BY <1>1, CountIsTotal, SumIsTotal, DamageAssumption, UnitIsNat
<1>3. m >= 1 /\ n >= 1
  BY <1>1, <1>2
<1>4. /\ Aggregate(b).state = IF 100 * SumOf(b) >= 99 * n * Unit THEN Healthy
                              ELSE IF WorstOf(b) = Healthy THEN Degraded ELSE WorstOf(b)
      /\ Aggregate(b).score = SumOf(b) \div n
  BY <1>2, <1>3, AggregateState
<1>5. /\ Aggregate(c).state = IF 100 * SumOf(c) >= 99 * m * Unit THEN Healthy
                              ELSE IF WorstOf(c) = Healthy THEN Degraded ELSE WorstOf(c)
      /\ Aggregate(c).score = SumOf(c) \div m
  BY <1>2, <1>3, AggregateState
<1>6. (\A x \in Scored(b) : x.state \in States) /\ (\A x \in Scored(c) : x.state \in States)
  BY DamageAssumption DEF Scored, Exchange
<1>7. WorstOf(b) = Unhealthy => WorstOf(c) = Unhealthy
  <2>1. SUFFICES ASSUME WorstOf(b) = Unhealthy PROVE \E x \in Scored(c) : x.state = Unhealthy
    BY <1>6, WorstIsWorst
  <2>2. PICK x \in Scored(b) : x.state = Unhealthy
    BY <1>6, <2>1, WorstIsWorst
  <2>3. x \in ChildResults /\ b[x] > 0 /\ x # r /\ x # t
    BY <2>2, Ranks DEF Scored, Unscores
  <2>4. DOMAIN c = ChildResults /\ c[x] > 0
    BY <2>3 DEF Exchange
  <2>5. x \in Scored(c)
    BY <2>2, <2>3, <2>4 DEF Scored
  <2> QED BY <2>2, <2>5
<1>8. WorstOf(b) \in {Healthy, Degraded, Unhealthy} /\ WorstOf(c) \in {Healthy, Degraded, Unhealthy}
  BY <1>6, WorstIsWorst
<1> DEFINE high == 100 * SumOf(c) >= 99 * m * Unit
           higher == 100 * SumOf(b) >= 99 * n * Unit
           old == Aggregate(b)
           new == Aggregate(c)
<1>9. 100 * r.score >= 99 * Unit
  BY DamageAssumption
<1>10. (high => higher) /\ (~high => new.score <= old.score)
  BY <1>1, <1>2, <1>3, <1>4, <1>5, <1>9, MeanWithoutTop
<1>11. /\ old.state = IF higher THEN Healthy ELSE IF WorstOf(b) = Healthy THEN Degraded ELSE WorstOf(b)
       /\ new.state = IF high THEN Healthy ELSE IF WorstOf(c) = Healthy THEN Degraded ELSE WorstOf(c)
  BY <1>4, <1>5
<1> HIDE DEF high, higher, old, new, m, n
<1>12. CASE high
  <2>1. old.state = Healthy /\ new.state = Healthy
    BY <1>10, <1>11, <1>12
  <2> QED BY <2>1, Ranks DEF NoMilder, old, new
<1>13. CASE ~high
  <2>1. new.state \in {Degraded, Unhealthy} /\ old.state \in {Healthy, Degraded, Unhealthy}
    BY <1>8, <1>11, <1>13
  <2>2. old.state = Unhealthy => new.state = Unhealthy
    BY <1>7, <1>11, <1>13, Ranks
  <2> QED BY <1>10, <1>13, <2>1, <2>2, Ranks DEF NoMilder, old, new
<1> QED BY <1>12, <1>13

LEMMA ChildDamageShows ==
    ASSUME DamageTypeOK, ChildDamage
    PROVE  NoMilder(ScoreOf(input), ScoreOf(input')) \/ ChildDropsOut(input, input')
<1> DEFINE c == input'.bag
<1>1. PICK b \in [ChildResults -> Nat], r \in ChildResults, t \in ChildResults :
         /\ Exchange(b, c, r, t) /\ (NoBetter(r, t) \/ Unscores(r, t))
         /\ input = [kind |-> "Children", bag |-> b]
         /\ input' = [kind |-> "Children", bag |-> c]
  BY ChildDamageEffect, Zenon
<1> HIDE DEF c
<1>2. /\ ScoreOf(input) = Aggregate(b) /\ ScoreOf(input') = Aggregate(c)
      /\ input.kind = "Children" /\ input.bag = b /\ input'.bag = c
  BY <1>1 DEF ScoreOf
<1>3. CASE NoBetter(r, t)
  BY <1>1, <1>2, <1>3, RollUpShows
<1>4. CASE Unscores(r, t) /\ r.state = Healthy /\ CountOf(c) # 0
  BY <1>1, <1>2, <1>4, DropOutShows
<1>5. CASE Unscores(r, t) /\ (r.state # Healthy \/ CountOf(c) = 0)
  <2>1. IsBag(c) /\ r \in Scored(b) /\ CountOf(b) = CountOf(c) + 1
    BY <1>1, <1>5, DropOutSums
  <2>2. CountOf(c) \in Nat
    BY <2>1, CountIsTotal
  <2>3. CountOf(c) < CountOf(b)
    BY <2>1, <2>2
  <2>4. c[r] < b[r]
    BY <1>1 DEF Exchange
  <2>5. ChildDropsOut(input, input')
    BY <1>2, <1>5, <2>1, <2>3, <2>4 DEF ChildDropsOut
  <2> QED BY <2>5
<1> QED BY <1>1, <1>3, <1>4, <1>5

(* Whatever is damaged, its state moves no nearer to healthy and the score
   of what stays degraded does not rise, unless a container starts again in
   a pod that was unhealthy by its rate or readiness only, a pod's last
   starting container crashes, a kubelet stops reporting, or a child that
   was not healthy, or the last one, becomes unknown. *)
THEOREM DamageNeverHelps == DamageSpec => DamageNeverLooksBetter
<1> DEFINE Fair == \/ NoMilder(ScoreOf(input), ScoreOf(input'))
                   \/ StartHidesFailure(input, input') \/ CrashEndsStart(input, input')
                   \/ KubeletSilent(input, input') \/ ChildDropsOut(input, input')
<1>1. ASSUME DamageTypeOK, DamageNext PROVE Fair
  BY <1>1, ContainerDamageShows, PodDamageShows, NodeDamageShows, OtherDamageShows,
     ChildDamageShows, Zenon DEF DamageNext
<1>2. DamageTypeOK /\ [DamageNext]_input => [Fair]_input
  BY <1>1, Zenon
<1> QED BY <1>2, DamageKeepsTypes, PTL DEF DamageSpec, DamageNeverLooksBetter

=============================================================================
