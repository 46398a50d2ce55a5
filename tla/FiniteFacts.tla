----------------------------- MODULE FiniteFacts -----------------------------
(***************************************************************************)
(* Facts that the proofs of several components need: least elements, and    *)
(* sums over finite sets, which the capacity and the budgets of the models  *)
(* are compared with.  The fold of the community modules takes the elements *)
(* in an order of its own; the facts of sums say that the order does not    *)
(* matter.                                                                  *)
(*                                                                          *)
(* Induction over finite sets is by a smallest counterexample (SmallestSet),*)
(* a set of bad sets standing for the predicate.                            *)
(***************************************************************************)
EXTENDS Integers, FiniteSets, Functions, FiniteSetTheorems, WellFoundedInduction, TLAPS

(* A nonempty set of naturals has a least element.                            *)
LEMMA LeastNatural ==
  ASSUME NEW S \in SUBSET Nat, S # {}
  PROVE  \E m \in S : \A k \in S : m <= k
<1>1. PICK m \in S : \A k \in S : ~(<<k, m>> \in OpToRel(<, Nat))
  BY NatLessThanWellFounded, WFMin
<1>2. \A k \in S : ~(k < m)
  BY <1>1 DEF OpToRel
<1>. QED
  BY <1>2

(* A set of finite sets has one that is in it without any smaller one by an   *)
(* element.                                                                   *)
LEMMA SmallestSet ==
  ASSUME NEW D, IsFiniteSet(D), NEW B \in SUBSET (SUBSET D), B # {}
  PROVE  \E T \in B : \A x \in T : T \ {x} \in SUBSET D /\ T \ {x} \notin B
<1>1. \A T \in B : IsFiniteSet(T) /\ Cardinality(T) \in Nat
  BY FS_Subset, FS_CardinalityType
<1>2. PICK N \in SUBSET Nat : N = {Cardinality(T) : T \in B}
  BY <1>1
<1>3. PICK m \in N : \A k \in N : ~(<<k, m>> \in OpToRel(<, Nat))
  <2>1. N # {}
    BY <1>2
  <2>. QED
    BY <2>1, NatLessThanWellFounded, WFMin
<1>4. \A k \in N : ~(k < m)
  BY <1>3 DEF OpToRel
<1>5. PICK T \in B : Cardinality(T) = m
  BY <1>2
<1>6. ASSUME NEW x \in T
      PROVE  T \ {x} \in SUBSET D /\ T \ {x} \notin B
  <2>1. Cardinality(T \ {x}) = m - 1 /\ m \in Nat
    BY <1>1, <1>5, FS_RemoveElement
  <2>2. ~(m - 1 \in N)
    BY <1>4, <2>1
  <2>. QED
    BY <1>2, <2>1, <2>2
<1>. QED
  BY <1>6

(* A nonempty finite set of integers has a least and a greatest element: one   *)
(* that has the fewest elements below it.                                     *)
LEMMA LeastInteger ==
  ASSUME NEW S \in SUBSET Int, S # {}, IsFiniteSet(S)
  PROVE  \E m \in S : \A k \in S : m <= k
<1> DEFINE Below(m) == {k \in S : k < m}
           Cards == {Cardinality(Below(m)) : m \in S}
<1>1. \A m \in S : IsFiniteSet(Below(m)) /\ Cardinality(Below(m)) \in Nat
  BY FS_Subset, FS_CardinalityType
<1>2. Cards \in SUBSET Nat /\ Cards # {}
  BY <1>1
<1>3. PICK n \in Cards : \A k \in Cards : n <= k
  BY <1>2, LeastNatural
<1>4. PICK m \in S : n = Cardinality(Below(m))
  OBVIOUS
<1>5. SUFFICES ASSUME NEW k \in S, k < m PROVE FALSE
  BY <1>4
<1>6. Below(k) \subseteq Below(m) /\ Below(k) # Below(m)
  <2>1. \A x \in S : x < k => x < m
    BY <1>5
  <2>2. k \in Below(m) /\ k \notin Below(k)
    BY <1>5
  <2>. QED
    BY <2>1, <2>2
<1>7. Cardinality(Below(k)) < Cardinality(Below(m))
  BY <1>1, <1>6, FS_Subset
<1>8. n <= Cardinality(Below(k))
  BY <1>3
<1>. QED
  BY <1>1, <1>4, <1>7, <1>8

(* What a function takes on a finite set is finite.                           *)
LEMMA FiniteImage ==
  ASSUME NEW S, IsFiniteSet(S), NEW V, NEW f \in [S -> V]
  PROVE  IsFiniteSet({f[x] : x \in S})
<1>1. f \in Surjection(S, {f[x] : x \in S})
  BY DEF Surjection
<1>. QED
  BY <1>1, FS_Surjection

LEMMA GreatestInteger ==
  ASSUME NEW S \in SUBSET Int, S # {}, IsFiniteSet(S)
  PROVE  \E m \in S : \A k \in S : m >= k
<1> DEFINE f == [k \in S |-> 0 - k]
           T == {f[k] : k \in S}
<1>1. T \in SUBSET Int /\ T # {} /\ IsFiniteSet(T)
  <2>1. f \in [S -> Int]
    OBVIOUS
  <2>. QED
    BY <2>1, FiniteImage
<1>2. PICK t \in T : \A k \in T : t <= k
  BY <1>1, LeastInteger
<1>3. PICK m \in S : t = 0 - m
  OBVIOUS
<1>4. \A k \in S : 0 - m <= 0 - k
  BY <1>2, <1>3
<1>. QED
  BY <1>4

-----------------------------------------------------------------------------
\* G gives every subset of D the sum of its weights.
Additive(D, w, G) ==
  /\ G[{}] = 0
  /\ \A T \in SUBSET D : \A x \in T : G[T] = w[x] + G[T \ {x}]

LEMMA AdditiveExists ==
  ASSUME NEW D, IsFiniteSet(D), NEW w \in [D -> Int]
  PROVE  \E G \in [SUBSET D -> Int] : Additive(D, w, G)
<1> DEFINE Has(S) == \E G \in [SUBSET S -> Int] : Additive(S, w, G)
<1>1. SUFFICES ASSUME ~Has(D) PROVE FALSE
  OBVIOUS
<1>. HIDE DEF Has
<1>2. PICK B \in SUBSET (SUBSET D) : \A S \in SUBSET D : S \in B <=> ~Has(S)
  <2>1. {S \in SUBSET D : ~Has(S)} \in SUBSET (SUBSET D)
    OBVIOUS
  <2>. QED
    BY <2>1
<1>3. PICK S \in B : \A x \in S : S \ {x} \in SUBSET D /\ S \ {x} \notin B
  <2>1. B # {}
    BY <1>1, <1>2
  <2>. QED
    BY <2>1, SmallestSet
<1>4. S \in SUBSET D /\ ~Has(S)
  BY <1>2
<1>5. S # {}
  <2>1. Has({})
    <3>1. PICK G : G = [T \in SUBSET {} |-> 0]
      OBVIOUS
    <3>2. G \in [SUBSET {} -> Int]
      BY <3>1
    <3>3. Additive({}, w, G)
      BY <3>1 DEF Additive
    <3>. QED
      BY <3>2, <3>3 DEF Has
  <2>. QED
    BY <1>4, <2>1
<1>6. PICK x \in S : Has(S \ {x})
  BY <1>2, <1>3, <1>5
<1>7. PICK G \in [SUBSET (S \ {x}) -> Int] : Additive(S \ {x}, w, G)
  BY <1>6 DEF Has
<1>8. PICK H : H = [T \in SUBSET S |-> IF x \in T THEN w[x] + G[T \ {x}] ELSE G[T]]
  OBVIOUS
<1>9. \A T \in SUBSET S : T \ {x} \in SUBSET (S \ {x}) /\ (x \notin T => T \in SUBSET (S \ {x}))
  OBVIOUS
<1>10. w[x] \in Int /\ x \in D
  BY <1>4
<1>11. H \in [SUBSET S -> Int] /\ H[{}] = 0
  BY <1>7, <1>8, <1>9, <1>10 DEF Additive
<1>12. ASSUME NEW T \in SUBSET S, NEW y \in T
       PROVE  H[T] = w[y] + H[T \ {y}]
  <2>1. T \ {y} \in SUBSET S /\ w[y] \in Int /\ y \in D
    BY <1>4
  <2>2. CASE y = x
    <3>1. x \notin T \ {y} /\ T \ {y} = T \ {x}
      BY <2>2
    <3>. QED
      BY <1>8, <2>1, <2>2, <3>1
  <2>3. CASE y # x /\ x \notin T
    <3>1. G[T] = w[y] + G[T \ {y}]
      BY <1>7, <1>9, <1>12, <2>3 DEF Additive
    <3>. QED
      BY <1>8, <2>1, <2>3, <3>1
  <2>4. CASE y # x /\ x \in T
    <3>1. /\ y \in T \ {x} /\ T \ {x} \in SUBSET (S \ {x})
          /\ (T \ {x}) \ {y} = (T \ {y}) \ {x} /\ x \in T \ {y}
      BY <2>4
    <3>2. G[T \ {x}] = w[y] + G[(T \ {y}) \ {x}]
      <4>1. G[T \ {x}] = w[y] + G[(T \ {x}) \ {y}]
        BY <1>7, <3>1 DEF Additive
      <4>. QED
        BY <3>1, <4>1
    <3>3. G[(T \ {y}) \ {x}] \in Int
      BY <1>7, <1>9, <2>1
    <3>4. H[T] = w[x] + G[T \ {x}] /\ H[T \ {y}] = w[x] + G[(T \ {y}) \ {x}]
      BY <1>8, <2>1, <2>4, <3>1
    <3>. QED
      BY <1>10, <2>1, <3>2, <3>3, <3>4
  <2>. QED
    BY <2>2, <2>3, <2>4
<1>13. Has(S)
  BY <1>11, <1>12 DEF Has, Additive
<1>. QED
  BY <1>4, <1>13

(* Whatever order the fold takes, it computes the additive function.          *)
LEMMA SumIsAdditive ==
  ASSUME NEW D, IsFiniteSet(D), NEW w \in [D -> Int],
         NEW G \in [SUBSET D -> Int], Additive(D, w, G), NEW S \in SUBSET D
  PROVE  SumFunctionOnSet(w, S) = G[S]
<1> DEFINE Ch(s) == CHOOSE x \in s : TRUE
           Is(g) == g = [s \in SUBSET S |-> IF s = {} THEN 0 ELSE w[Ch(s)] + g[s \ {Ch(s)}]]
           I == CHOOSE g : Is(g)
<1>1. SumFunctionOnSet(w, S) = I[S]
  BY DEF SumFunctionOnSet, FoldFunctionOnSet, MapThenFoldSet
<1>2. \A s \in SUBSET S : s # {} => Ch(s) \in s /\ s \ {Ch(s)} \in SUBSET S
  <2>1. ASSUME NEW s \in SUBSET S, s # {} PROVE Ch(s) \in s
    BY <2>1
  <2>. HIDE DEF Ch
  <2>. QED
    BY <2>1
<1>3. \E g : Is(g)
  <2>1. PICK g : g = [s \in SUBSET S |-> G[s]]
    OBVIOUS
  <2>. HIDE DEF Ch
  <2>2. \A s \in SUBSET S : G[s] = IF s = {} THEN 0 ELSE w[Ch(s)] + g[s \ {Ch(s)}]
    BY <1>2, <2>1 DEF Additive
  <2>3. g = [s \in SUBSET S |-> IF s = {} THEN 0 ELSE w[Ch(s)] + g[s \ {Ch(s)}]]
    BY <2>1, <2>2
  <2>. QED
    BY <2>3
<1>4. Is(I)
  <2>. HIDE DEF Is
  <2>. QED
    BY <1>3
<1>5. PICK i : i = I
  OBVIOUS
<1>. HIDE DEF I, Ch
<1>6. /\ i[{}] = 0
      /\ \A s \in SUBSET S : s # {} => i[s] = w[Ch(s)] + i[s \ {Ch(s)}]
  BY <1>4, <1>5
<1>7. \A s \in SUBSET S : s # {} => G[s] = w[Ch(s)] + G[s \ {Ch(s)}]
  BY <1>2 DEF Additive
<1>8. SUFFICES ASSUME i[S] # G[S] PROVE FALSE
  BY <1>1, <1>5
<1>9. PICK B \in SUBSET (SUBSET S) : \A T \in SUBSET S : T \in B <=> i[T] # G[T]
  <2>1. {T \in SUBSET S : i[T] # G[T]} \in SUBSET (SUBSET S)
    OBVIOUS
  <2>. QED
    BY <2>1
<1>10. PICK T \in B : \A x \in T : T \ {x} \in SUBSET S /\ T \ {x} \notin B
  <2>1. B # {} /\ IsFiniteSet(S)
    BY <1>8, <1>9, FS_Subset
  <2>. QED
    BY <2>1, SmallestSet
<1>11. T \in SUBSET S /\ i[T] # G[T] /\ T # {}
  BY <1>6, <1>9 DEF Additive
<1>12. i[T \ {Ch(T)}] = G[T \ {Ch(T)}]
  BY <1>2, <1>9, <1>10, <1>11
<1>. QED
  BY <1>6, <1>7, <1>11, <1>12

-----------------------------------------------------------------------------
(* What the proofs about the models use.                                      *)

(* A sum is the weight of any of its elements and the sum of the others.      *)
LEMMA SumFacts ==
  ASSUME NEW D, IsFiniteSet(D), NEW w \in [D -> Int], NEW S \in SUBSET D
  PROVE  /\ SumFunctionOnSet(w, S) \in Int /\ SumFunctionOnSet(w, {}) = 0
         /\ \A x \in S : SumFunctionOnSet(w, S) = w[x] + SumFunctionOnSet(w, S \ {x})
<1>1. PICK G \in [SUBSET D -> Int] : Additive(D, w, G)
  BY AdditiveExists
<1>2. \A T \in SUBSET D : SumFunctionOnSet(w, T) = G[T]
  BY <1>1, SumIsAdditive
<1>3. {} \in SUBSET D /\ \A x \in S : S \ {x} \in SUBSET D
  OBVIOUS
<1>. QED
  BY <1>1, <1>2, <1>3 DEF Additive

(* Larger weights, and more of them, make a larger sum.                       *)
LEMMA SumGrows ==
  ASSUME NEW D, IsFiniteSet(D), NEW v \in [D -> Int], NEW w \in [D -> Int],
         NEW S \in SUBSET D, NEW R \in SUBSET S,
         \A x \in R : v[x] <= w[x], \A x \in S \ R : w[x] >= 0
  PROVE  SumFunctionOnSet(v, R) <= SumFunctionOnSet(w, S)
<1> DEFINE Fine(T) == SumFunctionOnSet(v, T \cap R) <= SumFunctionOnSet(w, T)
<1>1. SUFFICES ASSUME ~Fine(S) PROVE FALSE
  <2>1. S \cap R = R
    OBVIOUS
  <2>. QED
    BY <2>1
<1>. HIDE DEF Fine
<1>2. PICK B \in SUBSET (SUBSET S) : \A T \in SUBSET S : T \in B <=> ~Fine(T)
  <2>1. {T \in SUBSET S : ~Fine(T)} \in SUBSET (SUBSET S)
    OBVIOUS
  <2>. QED
    BY <2>1
<1>3. PICK T \in B : \A x \in T : T \ {x} \in SUBSET S /\ T \ {x} \notin B
  <2>1. B # {} /\ IsFiniteSet(S)
    BY <1>1, <1>2, FS_Subset
  <2>. QED
    BY <2>1, SmallestSet
<1>4. T \in SUBSET S /\ ~Fine(T)
  BY <1>2
<1>5. T # {}
  <2>1. {} \cap R = {} /\ {} \in SUBSET D
    OBVIOUS
  <2>2. Fine({})
    BY <2>1, SumFacts DEF Fine
  <2>. QED
    BY <1>4, <2>2
<1>6. PICK x \in T : Fine(T \ {x})
  BY <1>2, <1>3, <1>5
<1>7. /\ v[x] \in Int /\ w[x] \in Int /\ T \in SUBSET D /\ T \cap R \in SUBSET D
      /\ T \ {x} \in SUBSET D /\ (T \ {x}) \cap R \in SUBSET D
  BY <1>4
<1>8. /\ SumFunctionOnSet(w, T) = w[x] + SumFunctionOnSet(w, T \ {x})
      /\ SumFunctionOnSet(w, T \ {x}) \in Int /\ SumFunctionOnSet(v, (T \ {x}) \cap R) \in Int
      /\ x \in T \cap R => SumFunctionOnSet(v, T \cap R)
                             = v[x] + SumFunctionOnSet(v, (T \cap R) \ {x})
  BY <1>7, SumFacts
<1>9. CASE x \in R
  <2>1. (T \ {x}) \cap R = (T \cap R) \ {x}
    OBVIOUS
  <2>2. x \in T \cap R /\ v[x] <= w[x]
    BY <1>9
  <2>3. PICK a \in Int, b \in Int :
          /\ a = SumFunctionOnSet(v, (T \ {x}) \cap R) /\ b = SumFunctionOnSet(w, T \ {x})
          /\ SumFunctionOnSet(v, T \cap R) = v[x] + a /\ SumFunctionOnSet(w, T) = w[x] + b
    BY <1>8, <2>1, <2>2
  <2>4. a <= b
    BY <1>6, <2>3 DEF Fine
  <2>5. v[x] + a <= w[x] + b
    BY <1>7, <2>2, <2>4
  <2>. QED
    BY <1>4, <2>3, <2>5 DEF Fine
<1>10. CASE x \notin R
  <2>1. (T \ {x}) \cap R = T \cap R
    BY <1>10
  <2>2. w[x] >= 0
    BY <1>4, <1>10
  <2>3. PICK a \in Int, b \in Int :
          /\ a = SumFunctionOnSet(v, T \cap R) /\ b = SumFunctionOnSet(w, T \ {x})
          /\ SumFunctionOnSet(v, (T \ {x}) \cap R) = a /\ SumFunctionOnSet(w, T) = w[x] + b
    BY <1>8, <2>1
  <2>4. a <= b
    BY <1>6, <2>3 DEF Fine
  <2>5. a <= w[x] + b
    BY <1>7, <2>2, <2>4
  <2>. QED
    BY <1>4, <2>3, <2>5 DEF Fine
<1>. QED
  BY <1>9, <1>10

(* Only the weights of the summed elements matter.                            *)
LEMMA SumSame ==
  ASSUME NEW D, IsFiniteSet(D), NEW v \in [D -> Int],
         NEW E, IsFiniteSet(E), NEW w \in [E -> Int],
         NEW S \in SUBSET (D \cap E), \A x \in S : v[x] = w[x]
  PROVE  SumFunctionOnSet(v, S) = SumFunctionOnSet(w, S)
<1> DEFINE Same(T) == SumFunctionOnSet(v, T) = SumFunctionOnSet(w, T)
<1>1. SUFFICES ASSUME ~Same(S) PROVE FALSE
  OBVIOUS
<1>. HIDE DEF Same
<1>2. PICK B \in SUBSET (SUBSET S) : \A T \in SUBSET S : T \in B <=> ~Same(T)
  <2>1. {T \in SUBSET S : ~Same(T)} \in SUBSET (SUBSET S)
    OBVIOUS
  <2>. QED
    BY <2>1
<1>3. PICK T \in B : \A x \in T : T \ {x} \in SUBSET S /\ T \ {x} \notin B
  <2>1. B # {} /\ IsFiniteSet(S)
    BY <1>1, <1>2, FS_Subset
  <2>. QED
    BY <2>1, SmallestSet
<1>4. T \in SUBSET S /\ ~Same(T) /\ T \in SUBSET D /\ T \in SUBSET E
  BY <1>2
<1>5. T # {}
  <2>1. {} \in SUBSET D /\ {} \in SUBSET E
    OBVIOUS
  <2>2. SumFunctionOnSet(v, {}) = 0 /\ SumFunctionOnSet(w, {}) = 0
    BY <2>1, SumFacts
  <2>. QED
    BY <1>4, <2>2 DEF Same
<1>6. PICK x \in T : Same(T \ {x})
  BY <1>2, <1>3, <1>5
<1>7. /\ SumFunctionOnSet(v, T) = v[x] + SumFunctionOnSet(v, T \ {x})
      /\ SumFunctionOnSet(w, T) = w[x] + SumFunctionOnSet(w, T \ {x})
  BY <1>4, SumFacts
<1>. QED
  BY <1>4, <1>6, <1>7 DEF Same

(* What bounds the weights up to a factor bounds the sum up to it.            *)
LEMMA SumScaled ==
  ASSUME NEW D, IsFiniteSet(D), NEW v \in [D -> Int], NEW w \in [D -> Int],
         NEW k \in Nat, NEW S \in SUBSET D, \A x \in S : v[x] <= k * w[x]
  PROVE  SumFunctionOnSet(v, S) <= k * SumFunctionOnSet(w, S)
<1> DEFINE Fine(T) == SumFunctionOnSet(v, T) <= k * SumFunctionOnSet(w, T)
<1>1. SUFFICES ASSUME ~Fine(S) PROVE FALSE
  OBVIOUS
<1>. HIDE DEF Fine
<1>2. PICK B \in SUBSET (SUBSET S) : \A T \in SUBSET S : T \in B <=> ~Fine(T)
  <2>1. {T \in SUBSET S : ~Fine(T)} \in SUBSET (SUBSET S)
    OBVIOUS
  <2>. QED
    BY <2>1
<1>3. PICK T \in B : \A x \in T : T \ {x} \in SUBSET S /\ T \ {x} \notin B
  <2>1. B # {} /\ IsFiniteSet(S)
    BY <1>1, <1>2, FS_Subset
  <2>. QED
    BY <2>1, SmallestSet
<1>4. T \in SUBSET S /\ ~Fine(T) /\ T \in SUBSET D
  BY <1>2
<1>5. T # {}
  <2>1. {} \in SUBSET D
    OBVIOUS
  <2>2. SumFunctionOnSet(v, {}) = 0 /\ SumFunctionOnSet(w, {}) = 0
    BY <2>1, SumFacts
  <2>3. 0 <= k * 0
    OBVIOUS
  <2>. QED
    BY <1>4, <2>2, <2>3 DEF Fine
<1>6. PICK x \in T : Fine(T \ {x})
  BY <1>2, <1>3, <1>5
<1>7. T \ {x} \in SUBSET D /\ v[x] \in Int /\ w[x] \in Int /\ v[x] <= k * w[x]
  BY <1>4
<1>8. PICK a \in Int, b \in Int :
        /\ a = SumFunctionOnSet(v, T \ {x}) /\ b = SumFunctionOnSet(w, T \ {x})
        /\ SumFunctionOnSet(v, T) = v[x] + a /\ SumFunctionOnSet(w, T) = w[x] + b
  BY <1>4, <1>7, SumFacts
<1>9. a <= k * b
  BY <1>6, <1>8 DEF Fine
<1>10. PICK c \in Int, d \in Int : c = w[x] /\ d = v[x]
  BY <1>7
<1>11. d + a <= k * (c + b)
  <2>1. d <= k * c
    BY <1>7, <1>10
  <2>2. k * (c + b) = k * c + k * b /\ k * c \in Int /\ k * b \in Int
    OBVIOUS
  <2>. QED
    BY <1>9, <2>1, <2>2
<1>. QED
  BY <1>4, <1>8, <1>10, <1>11 DEF Fine

===============================================================================
