-------------------------- MODULE DiffuserConfig_proofs --------------------------
(***************************************************************************)
(* Proofs about the resolution of a Diffuser, for every size of word and   *)
(* of entity, every budget and every set of requests: lengths are words,   *)
(* every draw is within its step and its segment, every shuffle permutes,  *)
(* the validator accepts what the resolver made, and the budget holds it.  *)
(***************************************************************************)
EXTENDS DiffuserConfig, FiniteSetTheorems, WellFoundedInduction, TLAPS

----------------------------------------------------------------------------
(* Division with remainder.                                                *)
LEMMA DivMod ==
  ASSUME NEW a \in Nat, NEW b \in Nat \ {0}
  PROVE  /\ a \div b \in Nat
         /\ a % b \in 0 .. b - 1
         /\ a = b * (a \div b) + (a % b)
<1>1. a \in Int /\ b \in Int /\ b > 0
  OBVIOUS
<1>2. a = b * (a \div b) + (a % b)
  BY <1>1, Z3
<1>3. a % b \in 0 .. b - 1
  BY SMT
<1>4. a \div b \in Nat
  BY SMT
<1> QED BY <1>2, <1>3, <1>4

(* The quotient is the largest number that goes into a.                    *)
(* Sums.  Total is a fold over a set: what it computes for every function  *)
(* is derived from the least counterexample, which a set of naturals has.  *)
LEMMA LeastElement ==
  ASSUME NEW S \in SUBSET Nat, S # {}
  PROVE  \E x \in S : \A y \in S : x <= y
<1> DEFINE R == {ss \in Nat \X Nat : ss[1] < ss[2]}
<1>1. IsWellFoundedOn(R, Nat)
  BY NatLessThanWellFounded DEF OpToRel
<1>2. PICK x \in S : \A y \in S : <<y, x>> \notin R
  <2> HIDE DEF R
  <2> QED BY <1>1, WFMin
<1>3. ASSUME NEW y \in S PROVE x <= y
  <2>1. ~(y < x)
    BY <1>2
  <2> QED BY <2>1
<1> QED BY <1>3

(* What holds of a set once it holds of all its proper subsets holds of    *)
(* every finite set.                                                       *)
LEMMA OverSubsets ==
  ASSUME NEW D, IsFiniteSet(D), NEW Q \in SUBSET SUBSET D,
         \A s \in SUBSET D : (\A t \in SUBSET s : t # s => t \in Q) => s \in Q
  PROVE  \A s \in SUBSET D : s \in Q
<1> DEFINE Bad == {Cardinality(s) : s \in (SUBSET D) \ Q}
<1>1. \A s \in SUBSET D : IsFiniteSet(s) /\ Cardinality(s) \in Nat
  BY FS_Subset, FS_CardinalityType
<1>2. SUFFICES ASSUME Bad # {} PROVE FALSE
  <2>1. ASSUME NEW s \in SUBSET D, s \notin Q PROVE Cardinality(s) \in Bad
    BY <2>1
  <2> HIDE DEF Bad
  <2> QED BY <2>1
<1>3. PICK n \in Bad : \A k \in Bad : n <= k
  <2>1. Bad \in SUBSET Nat
    BY <1>1
  <2> HIDE DEF Bad
  <2> QED BY <1>2, <2>1, LeastElement
<1>4. PICK s \in (SUBSET D) \ Q : n = Cardinality(s)
  BY <1>3
<1>5. ASSUME NEW t \in SUBSET s, t # s PROVE t \in Q
  <2>1. t \in SUBSET D
    BY <1>4
  <2>2. /\ Cardinality(t) \in Nat /\ Cardinality(s) \in Nat
        /\ Cardinality(t) <= Cardinality(s) /\ Cardinality(t) # Cardinality(s)
    BY <1>1, <1>4, <1>5, <2>1, FS_Subset
  <2>3. Cardinality(t) \notin Bad
    BY <1>3, <1>4, <2>2
  <2> QED BY <2>1, <2>3
<1> HIDE DEF Bad
<1> QED BY <1>4, <1>5

Chosen(s) == CHOOSE x \in s : TRUE

LEMMA ChosenIn == ASSUME NEW s, s # {} PROVE Chosen(s) \in s
  BY DEF Chosen

(* g is the partial sums of v over the sets of F.                          *)
PartialSums(v, g, F) ==
  g = [s \in F |-> IF s = {} THEN 0 ELSE v[Chosen(s)] + g[s \ {Chosen(s)}]]

(* g is the partial sums of v over the subsets of D.                       *)
SumsOver(v, g, D) == PartialSums(v, g, SUBSET D)

(* There are partial sums, and the same for the same values.               *)
LEMMA SumsExist ==
  ASSUME NEW v, NEW D, IsFiniteSet(D)
  PROVE  \E g : SumsOver(v, g, D)
<1> DEFINE Upto(n) == {s \in SUBSET D : Cardinality(s) <= n}
           Bad == {n \in Nat : ~\E g : PartialSums(v, g, Upto(n))}
           N == Cardinality(D)
<1>1. \A s \in SUBSET D : IsFiniteSet(s) /\ Cardinality(s) \in Nat /\ Cardinality(s) <= N
  BY FS_Subset, FS_CardinalityType
<1>2. N \in Nat
  BY FS_CardinalityType
<1>3. SUBSET D = Upto(N)
  BY <1>1
<1> HIDE DEF N
<1>4. SUFFICES ASSUME N \in Bad PROVE FALSE
  BY <1>2, <1>3 DEF SumsOver
<1>5. PICK n \in Bad : \A k \in Bad : n <= k
  <2>1. Bad \in SUBSET Nat /\ Bad # {}
    BY <1>4
  <2> HIDE DEF Bad
  <2> QED BY <2>1, LeastElement
<1>6. \A s \in SUBSET D : s # {} =>
         /\ s \ {Chosen(s)} \in SUBSET D
         /\ Cardinality(s \ {Chosen(s)}) = Cardinality(s) - 1
  BY <1>1, ChosenIn, FS_RemoveElement
<1>7. CASE n = 0
  <2>1. \A s \in Upto(0) : s = {}
    BY <1>1, FS_EmptySet
  <2>2. PartialSums(v, [s \in Upto(0) |-> 0], Upto(0))
    <3> DEFINE g == [s \in Upto(0) |-> 0]
    <3>1. g = [s \in Upto(0) |-> IF s = {} THEN 0 ELSE v[Chosen(s)] + g[s \ {Chosen(s)}]]
      <4> HIDE DEF Upto
      <4> QED BY <2>1
    <3> QED BY <3>1 DEF PartialSums
  <2> QED BY <1>5, <1>7, <2>2
<1>8. CASE n # 0
  <2>1. n \in Nat /\ n - 1 \in Nat /\ ~(n <= n - 1)
    BY <1>5, <1>8
  <2>2. PICK g : PartialSums(v, g, Upto(n - 1))
    BY <1>5, <2>1
  <2> DEFINE h == [s \in Upto(n) |-> IF s = {} THEN 0 ELSE v[Chosen(s)] + g[s \ {Chosen(s)}]]
  <2>3. ASSUME NEW s \in Upto(n), s # {}
        PROVE  h[s \ {Chosen(s)}] = g[s \ {Chosen(s)}]
    <3> DEFINE t == s \ {Chosen(s)}
    <3>1. t \in Upto(n - 1) /\ t \in Upto(n)
      <4>1. s \in SUBSET D /\ Cardinality(s) <= n /\ Cardinality(s) \in Nat
        BY <1>1
      <4>2. t \in SUBSET D /\ Cardinality(t) = Cardinality(s) - 1
        BY <1>6, <2>3
      <4> HIDE DEF t
      <4> QED BY <2>1, <4>1, <4>2
    <3> HIDE DEF t, Upto
    <3>2. h[t] = IF t = {} THEN 0 ELSE v[Chosen(t)] + g[t \ {Chosen(t)}]
      BY <3>1
    <3>3. g[t] = IF t = {} THEN 0 ELSE v[Chosen(t)] + g[t \ {Chosen(t)}]
      BY <2>2, <3>1 DEF PartialSums
    <3> HIDE DEF h
    <3>4. h[t] = g[t]
      BY <3>2, <3>3
    <3> QED BY <3>4 DEF t
  <2>4. h = [s \in Upto(n) |-> IF s = {} THEN 0 ELSE v[Chosen(s)] + h[s \ {Chosen(s)}]]
    <3> HIDE DEF Upto
    <3>1. \A s \in Upto(n) :
            h[s] = IF s = {} THEN 0 ELSE v[Chosen(s)] + h[s \ {Chosen(s)}]
      BY <2>3
    <3>2. h = [s \in Upto(n) |-> h[s]]
      OBVIOUS
    <3> HIDE DEF h
    <3> QED BY <3>1, <3>2
  <2> HIDE DEF h
  <2>5. PartialSums(v, h, Upto(n))
    BY <2>4 DEF PartialSums
  <2> QED BY <1>5, <2>5
<1> QED BY <1>7, <1>8

LEMMA SumsAgree ==
  ASSUME NEW D, NEW E, E \subseteq D, IsFiniteSet(E),
         NEW v, NEW w, NEW g, NEW h, \A x \in E : v[x] = w[x],
         SumsOver(v, g, D), SumsOver(w, h, E)
  PROVE  g[E] = h[E]
<1> DEFINE Q == {s \in SUBSET E : g[s] = h[s]}
<1>1. ASSUME NEW s \in SUBSET E, \A t \in SUBSET s : t # s => t \in Q
      PROVE  s \in Q
  <2>1. /\ g[s] = IF s = {} THEN 0 ELSE v[Chosen(s)] + g[s \ {Chosen(s)}]
        /\ h[s] = IF s = {} THEN 0 ELSE w[Chosen(s)] + h[s \ {Chosen(s)}]
    <3>1. s \in SUBSET D
      OBVIOUS
    <3> QED BY <3>1 DEF SumsOver, PartialSums
  <2>2. CASE s = {}
    BY <2>1, <2>2
  <2>3. CASE s # {}
    <3>1. Chosen(s) \in s
      BY <2>3, ChosenIn
    <3>2. v[Chosen(s)] = w[Chosen(s)]
      BY <3>1
    <3>3. s \ {Chosen(s)} \in Q
      BY <1>1, <3>1
    <3> QED BY <2>1, <3>2, <3>3
  <2> QED BY <2>2, <2>3
<1>2. Q \in SUBSET SUBSET E
  OBVIOUS
<1> HIDE DEF Q
<1>3. E \in Q
  BY <1>1, <1>2, OverSubsets
<1> QED BY <1>3 DEF Q

(* The sum of v over S.                                                    *)
Part(v, S) == Total([x \in S |-> v[x]])

LEMMA PartIsSum ==
  ASSUME NEW v, NEW S, IsFiniteSet(S)
  PROVE  \E g : SumsOver(v, g, S) /\ Part(v, S) = g[S]
<1> DEFINE w == [x \in S |-> v[x]]
           Is(g) == g = [s \in SUBSET S |-> IF s = {} THEN 0
                            ELSE w[CHOOSE x \in s : TRUE] + g[s \ {CHOOSE x \in s : TRUE}]]
           g0 == CHOOSE g : Is(g)
<1>1. \E g : Is(g)
  <2>1. \E g : SumsOver(w, g, S)
    BY SumsExist
  <2> QED BY <2>1 DEF SumsOver, PartialSums, Chosen
<1>2. Is(g0)
  BY <1>1
<1>3. Part(v, S) = g0[S]
  BY DEF Part, Total, MapThenSumSet, MapThenFoldSet
<1>4. SumsOver(w, g0, S)
  BY <1>2 DEF SumsOver, PartialSums, Chosen
<1> HIDE DEF g0
<1>5. PICK g : SumsOver(v, g, S)
  BY SumsExist
<1>6. g0[S] = g[S]
  <2>1. \A x \in S : w[x] = v[x]
    OBVIOUS
  <2> HIDE DEF w
  <2> QED BY <1>4, <1>5, <2>1, SumsAgree
<1> QED BY <1>3, <1>5, <1>6

LEMMA PartEmpty == ASSUME NEW v PROVE Part(v, {}) = 0
<1>1. PICK g : SumsOver(v, g, {}) /\ Part(v, {}) = g[{}]
  BY FS_EmptySet, PartIsSum
<1> QED BY <1>1 DEF SumsOver, PartialSums

LEMMA PartChosen ==
  ASSUME NEW v, NEW S, IsFiniteSet(S), S # {}
  PROVE  Part(v, S) = v[Chosen(S)] + Part(v, S \ {Chosen(S)})
<1> DEFINE T == S \ {Chosen(S)}
<1>1. IsFiniteSet(T) /\ T \subseteq S
  BY FS_Subset
<1>2. PICK g : SumsOver(v, g, S) /\ Part(v, S) = g[S]
  BY PartIsSum
<1>3. PICK h : SumsOver(v, h, T) /\ Part(v, T) = h[T]
  BY <1>1, PartIsSum
<1>4. g[S] = v[Chosen(S)] + g[T]
  BY <1>2 DEF SumsOver, PartialSums
<1>5. g[T] = h[T]
  <2> HIDE DEF T
  <2> QED BY <1>1, <1>2, <1>3, SumsAgree
<1> QED BY <1>2, <1>3, <1>4, <1>5

(* The same values have the same sum.                                      *)
LEMMA PartSame ==
  ASSUME NEW S, NEW v, NEW w, \A x \in S : v[x] = w[x]
  PROVE  Part(v, S) = Part(w, S)
<1>1. [x \in S |-> v[x]] = [x \in S |-> w[x]]
  OBVIOUS
<1> QED BY <1>1 DEF Part

LEMMA TotalIsPart ==
  ASSUME NEW S, NEW v, v = [x \in S |-> v[x]]
  PROVE  Total(v) = Part(v, S)
  BY DEF Part

LEMMA PartType ==
  ASSUME NEW S, IsFiniteSet(S), NEW v, \A x \in S : v[x] \in Int
  PROVE  Part(v, S) \in Int
<1> DEFINE Q == {s \in SUBSET S : Part(v, s) \in Int}
<1>1. ASSUME NEW s \in SUBSET S, \A t \in SUBSET s : t # s => t \in Q
      PROVE  s \in Q
  <2>1. CASE s = {}
    BY <2>1, PartEmpty
  <2>2. CASE s # {}
    <3>1. IsFiniteSet(s) /\ Chosen(s) \in s
      BY <2>2, FS_Subset, ChosenIn
    <3>2. Part(v, s) = v[Chosen(s)] + Part(v, s \ {Chosen(s)})
      BY <2>2, <3>1, PartChosen
    <3>3. s \ {Chosen(s)} \in Q
      BY <1>1, <3>1
    <3> QED BY <3>1, <3>2, <3>3
  <2> QED BY <2>1, <2>2
<1>2. S \in Q
  <2>1. Q \in SUBSET SUBSET S
    OBVIOUS
  <2> HIDE DEF Q
  <2> QED BY <1>1, <2>1, OverSubsets
<1> QED BY <1>2

LEMMA PartNatural ==
  ASSUME NEW S, IsFiniteSet(S), NEW v, \A x \in S : v[x] \in Nat
  PROVE  Part(v, S) \in Nat
<1> DEFINE Q == {s \in SUBSET S : Part(v, s) \in Nat}
<1>1. ASSUME NEW s \in SUBSET S, \A t \in SUBSET s : t # s => t \in Q
      PROVE  s \in Q
  <2>1. CASE s = {}
    BY <2>1, PartEmpty
  <2>2. CASE s # {}
    <3>1. IsFiniteSet(s) /\ Chosen(s) \in s
      BY <2>2, FS_Subset, ChosenIn
    <3>2. Part(v, s) = v[Chosen(s)] + Part(v, s \ {Chosen(s)})
      BY <2>2, <3>1, PartChosen
    <3>3. s \ {Chosen(s)} \in Q
      BY <1>1, <3>1
    <3> QED BY <3>1, <3>2, <3>3
  <2> QED BY <2>1, <2>2
<1>2. S \in Q
  <2>1. Q \in SUBSET SUBSET S
    OBVIOUS
  <2> HIDE DEF Q
  <2> QED BY <1>1, <2>1, OverSubsets
<1> QED BY <1>2

(* The sum of sums.                                                        *)
LEMMA PartSum ==
  ASSUME NEW S, IsFiniteSet(S), NEW u, NEW v, NEW w,
         \A x \in S : u[x] \in Int /\ v[x] \in Int /\ w[x] = u[x] + v[x]
  PROVE  Part(w, S) = Part(u, S) + Part(v, S)
<1> DEFINE Q == {s \in SUBSET S : Part(w, s) = Part(u, s) + Part(v, s)}
<1>1. ASSUME NEW s \in SUBSET S, \A t \in SUBSET s : t # s => t \in Q
      PROVE  s \in Q
  <2>1. CASE s = {}
    BY <2>1, PartEmpty
  <2>2. CASE s # {}
    <3> DEFINE c == Chosen(s)
               t == s \ {c}
    <3>1. IsFiniteSet(s) /\ c \in s /\ IsFiniteSet(t) /\ t \in SUBSET S
      BY <2>2, FS_Subset, ChosenIn
    <3>2. /\ Part(u, s) = u[c] + Part(u, t)
          /\ Part(v, s) = v[c] + Part(v, t)
          /\ Part(w, s) = w[c] + Part(w, t)
      BY <2>2, <3>1, PartChosen
    <3>3. Part(u, t) \in Int /\ Part(v, t) \in Int
      BY <3>1, PartType
    <3>4. t \in Q
      BY <1>1, <3>1
    <3>5. Part(w, t) = Part(u, t) + Part(v, t)
      BY <3>4
    <3>6. w[c] = u[c] + v[c] /\ u[c] \in Int /\ v[c] \in Int
      BY <3>1
    <3> HIDE DEF c, t, Q
    <3>7. Part(w, s) = Part(u, s) + Part(v, s)
      BY <3>2, <3>3, <3>5, <3>6
    <3> QED BY <3>7 DEF Q
  <2> QED BY <2>1, <2>2
<1>2. S \in Q
  <2>1. Q \in SUBSET SUBSET S
    OBVIOUS
  <2> HIDE DEF Q
  <2> QED BY <1>1, <2>1, OverSubsets
<1> QED BY <1>2

(* Larger values have the larger sum.                                      *)
LEMMA PartMonotone ==
  ASSUME NEW S, IsFiniteSet(S), NEW u, NEW v,
         \A x \in S : u[x] \in Int /\ v[x] \in Int /\ u[x] <= v[x]
  PROVE  Part(u, S) <= Part(v, S)
<1> DEFINE Q == {s \in SUBSET S : Part(u, s) <= Part(v, s)}
<1>1. ASSUME NEW s \in SUBSET S, \A t \in SUBSET s : t # s => t \in Q
      PROVE  s \in Q
  <2>1. CASE s = {}
    BY <2>1, PartEmpty
  <2>2. CASE s # {}
    <3> DEFINE c == Chosen(s)
               t == s \ {c}
    <3>1. IsFiniteSet(s) /\ c \in s /\ IsFiniteSet(t) /\ t \in SUBSET S
      BY <2>2, FS_Subset, ChosenIn
    <3>2. /\ Part(u, s) = u[c] + Part(u, t)
          /\ Part(v, s) = v[c] + Part(v, t)
      BY <2>2, <3>1, PartChosen
    <3>3. Part(u, t) \in Int /\ Part(v, t) \in Int
      BY <3>1, PartType
    <3>4. t \in Q
      BY <1>1, <3>1
    <3>5. Part(u, t) <= Part(v, t)
      BY <3>4
    <3>6. u[c] \in Int /\ v[c] \in Int /\ u[c] <= v[c]
      BY <3>1
    <3> HIDE DEF c, t, Q
    <3>7. Part(u, s) <= Part(v, s)
      BY <3>2, <3>3, <3>5, <3>6
    <3> QED BY <3>7 DEF Q
  <2> QED BY <2>1, <2>2
<1>2. S \in Q
  <2>1. Q \in SUBSET SUBSET S
    OBVIOUS
  <2> HIDE DEF Q
  <2> QED BY <1>1, <2>1, OverSubsets
<1> QED BY <1>2

(* A common factor.                                                        *)
LEMMA PartScale ==
  ASSUME NEW S, IsFiniteSet(S), NEW u, NEW v, NEW k \in Int,
         \A x \in S : u[x] \in Int /\ v[x] = k * u[x]
  PROVE  Part(v, S) = k * Part(u, S)
<1> DEFINE Q == {s \in SUBSET S : Part(v, s) = k * Part(u, s)}
<1>1. ASSUME NEW s \in SUBSET S, \A t \in SUBSET s : t # s => t \in Q
      PROVE  s \in Q
  <2>1. CASE s = {}
    <3>1. k * 0 = 0
      BY SMT
    <3> QED BY <2>1, <3>1, PartEmpty
  <2>2. CASE s # {}
    <3> DEFINE c == Chosen(s)
               t == s \ {c}
    <3>1. IsFiniteSet(s) /\ c \in s /\ IsFiniteSet(t) /\ t \in SUBSET S
      BY <2>2, FS_Subset, ChosenIn
    <3>2. /\ Part(u, s) = u[c] + Part(u, t)
          /\ Part(v, s) = v[c] + Part(v, t)
      BY <2>2, <3>1, PartChosen
    <3>3. Part(u, t) \in Int
      BY <3>1, PartType
    <3>4. t \in Q
      BY <1>1, <3>1
    <3>5. Part(v, t) = k * Part(u, t)
      BY <3>4
    <3>6. u[c] \in Int /\ v[c] = k * u[c]
      BY <3>1
    <3> HIDE DEF c, t, Q
    <3>7. k * (u[c] + Part(u, t)) = k * u[c] + k * Part(u, t)
      BY <3>3, <3>6, SMT
    <3>8. Part(v, s) = k * Part(u, s)
      BY <3>2, <3>5, <3>6, <3>7
    <3> QED BY <3>8 DEF Q
  <2> QED BY <2>1, <2>2
<1>2. S \in Q
  <2>1. Q \in SUBSET SUBSET S
    OBVIOUS
  <2> HIDE DEF Q
  <2> QED BY <1>1, <2>1, OverSubsets
<1> QED BY <1>2

(* Any element may be the first.                                           *)
LEMMA PartRemove ==
  ASSUME NEW S, IsFiniteSet(S), NEW v, \A x \in S : v[x] \in Int
  PROVE  \A x \in S : Part(v, S) = v[x] + Part(v, S \ {x})
<1> DEFINE Q == {s \in SUBSET S : \A x \in s : Part(v, s) = v[x] + Part(v, s \ {x})}
<1>1. ASSUME NEW s \in SUBSET S, \A t \in SUBSET s : t # s => t \in Q, NEW x \in s
      PROVE  Part(v, s) = v[x] + Part(v, s \ {x})
  <2> DEFINE c == Chosen(s)
             t == s \ {c}
             z == s \ {x}
             y == t \ {x}
  <2>1. IsFiniteSet(s) /\ c \in s /\ IsFiniteSet(y) /\ y \in SUBSET S
    BY FS_Subset, ChosenIn
  <2>2. Part(v, s) = v[c] + Part(v, t)
    BY <2>1, PartChosen
  <2>3. CASE x = c
    BY <2>2, <2>3
  <2>4. CASE x # c
    <3>1. t \in Q /\ x \in t
      BY <1>1, <2>1, <2>4
    <3>2. z \in Q /\ c \in z /\ z \ {c} = y
      BY <1>1, <2>1, <2>4
    <3>3. Part(v, t) = v[x] + Part(v, y)
      BY <3>1
    <3>4. Part(v, z) = v[c] + Part(v, y)
      BY <3>2
    <3>5. Part(v, y) \in Int
      BY <2>1, PartType
    <3>6. v[c] \in Int /\ v[x] \in Int
      BY <2>1
    <3> HIDE DEF c, t, z, y
    <3>7. Part(v, s) = v[x] + Part(v, z)
      BY <2>2, <3>3, <3>4, <3>5, <3>6
    <3> QED BY <3>7 DEF z
  <2> QED BY <2>3, <2>4
<1>2. \A s \in SUBSET S : (\A t \in SUBSET s : t # s => t \in Q) => s \in Q
  BY <1>1
<1>3. S \in Q
  <2>1. Q \in SUBSET SUBSET S
    OBVIOUS
  <2> HIDE DEF Q
  <2> QED BY <1>2, <2>1, OverSubsets
<1> QED BY <1>3

(* The order of the elements does not matter.                              *)
LEMMA PartReindexed ==
  ASSUME NEW S, IsFiniteSet(S), NEW T, IsFiniteSet(T), NEW b \in [S -> T],
         \A x, y \in S : b[x] = b[y] => x = y,
         \A y \in T : \E x \in S : b[x] = y,
         NEW u, NEW v, \A x \in S : u[x] = v[b[x]] /\ v[b[x]] \in Int
  PROVE  Part(u, S) = Part(v, T)
<1> DEFINE Img(s) == {b[x] : x \in s}
           Q == {s \in SUBSET S : Part(u, s) = Part(v, Img(s))}
<1>1. ASSUME NEW s \in SUBSET S, \A t \in SUBSET s : t # s => t \in Q
      PROVE  s \in Q
  <2>1. CASE s = {}
    <3>1. Img(s) = {}
      BY <2>1
    <3> QED BY <2>1, <3>1, PartEmpty
  <2>2. CASE s # {}
    <3> DEFINE c == Chosen(s)
               t == s \ {c}
    <3>1. IsFiniteSet(s) /\ c \in s
      BY <2>2, FS_Subset, ChosenIn
    <3>2. Part(u, s) = u[c] + Part(u, t)
      BY <2>2, <3>1, PartChosen
    <3>3. Img(s) \in SUBSET T /\ b[c] \in Img(s) /\ Img(t) = Img(s) \ {b[c]}
      <4>1. Img(s) \in SUBSET T /\ b[c] \in Img(s)
        BY <3>1
      <4>2. ASSUME NEW x \in t PROVE b[x] \in Img(s) \ {b[c]}
        BY <3>1
      <4>3. ASSUME NEW x \in s, b[x] # b[c] PROVE b[x] \in Img(t)
        BY <4>3
      <4> HIDE DEF c
      <4> QED BY <4>1, <4>2, <4>3
    <3>4. \A y \in Img(s) : v[y] \in Int
      OBVIOUS
    <3>5. Part(v, Img(s)) = v[b[c]] + Part(v, Img(t))
      <4>1. IsFiniteSet(Img(s))
        BY <3>3, FS_Subset
      <4> HIDE DEF Img, c, t
      <4> QED BY <3>3, <3>4, <4>1, PartRemove
    <3>6. t \in Q
      BY <1>1, <3>1
    <3>7. Part(u, t) = Part(v, Img(t))
      BY <3>6
    <3>8. u[c] = v[b[c]]
      BY <3>1
    <3> HIDE DEF c, t, Img
    <3> QED BY <3>2, <3>5, <3>7, <3>8
  <2> QED BY <2>1, <2>2
<1>2. S \in Q
  <2>1. Q \in SUBSET SUBSET S
    OBVIOUS
  <2> HIDE DEF Q
  <2> QED BY <1>1, <2>1, OverSubsets
<1>3. Img(S) = T
  OBVIOUS
<1> QED BY <1>2, <1>3

(* What is 0 does not count.                                               *)
LEMMA PartOfSupport ==
  ASSUME NEW S, IsFiniteSet(S), NEW T \in SUBSET S, NEW u, NEW v,
         \A x \in S : v[x] \in Int /\ u[x] = (IF x \in T THEN v[x] ELSE 0)
  PROVE  Part(u, S) = Part(v, T)
<1> DEFINE Q == {s \in SUBSET S : Part(u, s) = Part(v, s \cap T)}
<1>1. ASSUME NEW s \in SUBSET S, \A t \in SUBSET s : t # s => t \in Q
      PROVE  s \in Q
  <2>1. CASE s = {}
    <3>1. s \cap T = {}
      BY <2>1
    <3> QED BY <2>1, <3>1, PartEmpty
  <2>2. CASE s # {}
    <3> DEFINE c == Chosen(s)
               t == s \ {c}
    <3>1. IsFiniteSet(s) /\ c \in s
      BY <2>2, FS_Subset, ChosenIn
    <3>2. Part(u, s) = u[c] + Part(u, t)
      BY <2>2, <3>1, PartChosen
    <3>3. t \in Q
      BY <1>1, <3>1
    <3>4. Part(u, t) = Part(v, t \cap T)
      BY <3>3
    <3>5. IsFiniteSet(s \cap T) /\ IsFiniteSet(t \cap T)
      BY <3>1, FS_Subset
    <3>6. Part(v, t \cap T) \in Int
      <4>1. \A x \in t \cap T : v[x] \in Int
        OBVIOUS
      <4> HIDE DEF t
      <4> QED BY <3>5, <4>1, PartType
    <3>7. CASE c \in T
      <4>1. c \in s \cap T /\ (s \cap T) \ {c} = t \cap T
        BY <3>1, <3>7
      <4>2. \A x \in s \cap T : v[x] \in Int
        OBVIOUS
      <4>3. Part(v, s \cap T) = v[c] + Part(v, (s \cap T) \ {c})
        <5> HIDE DEF c
        <5> QED BY <3>5, <4>1, <4>2, PartRemove
      <4>4. u[c] = v[c]
        BY <3>1, <3>7
      <4> HIDE DEF c, t
      <4> QED BY <3>2, <3>4, <4>1, <4>3, <4>4
    <3>8. CASE c \notin T
      <4>1. s \cap T = t \cap T
        BY <3>8
      <4>2. u[c] = 0
        BY <3>1, <3>8
      <4> HIDE DEF c, t
      <4> QED BY <3>2, <3>4, <3>6, <4>1, <4>2
    <3> QED BY <3>7, <3>8
  <2> QED BY <2>1, <2>2
<1>2. S \in Q
  <2>1. Q \in SUBSET SUBSET S
    OBVIOUS
  <2> HIDE DEF Q
  <2> QED BY <1>1, <2>1, OverSubsets
<1>3. S \cap T = T
  OBVIOUS
<1> QED BY <1>2, <1>3

(* A constant sum counts.                                                  *)
LEMMA PartConstant ==
  ASSUME NEW S, IsFiniteSet(S), NEW u, NEW k \in Int, \A x \in S : u[x] = k
  PROVE  Part(u, S) = k * Cardinality(S)
<1> DEFINE Q == {s \in SUBSET S : Part(u, s) = k * Cardinality(s)}
<1>1. ASSUME NEW s \in SUBSET S, \A t \in SUBSET s : t # s => t \in Q
      PROVE  s \in Q
  <2>1. CASE s = {}
    <3>1. Cardinality(s) = 0 /\ k * 0 = 0
      BY <2>1, FS_EmptySet, SMT
    <3> QED BY <2>1, <3>1, PartEmpty
  <2>2. CASE s # {}
    <3> DEFINE c == Chosen(s)
               t == s \ {c}
    <3>1. IsFiniteSet(s) /\ c \in s /\ IsFiniteSet(t)
      BY <2>2, FS_Subset, ChosenIn
    <3>2. Part(u, s) = u[c] + Part(u, t)
      BY <2>2, <3>1, PartChosen
    <3>3. t \in Q
      BY <1>1, <3>1
    <3>4. Part(u, t) = k * Cardinality(t) /\ u[c] = k
      BY <3>1, <3>3
    <3>5. Cardinality(t) = Cardinality(s) - 1 /\ Cardinality(s) \in Nat
      BY <3>1, FS_RemoveElement, FS_CardinalityType
    <3> HIDE DEF c, t, Q
    <3>6. k * Cardinality(s) = k + k * (Cardinality(s) - 1)
      BY <3>5, SMT
    <3>7. Part(u, s) = k * Cardinality(s)
      BY <3>2, <3>4, <3>5, <3>6
    <3> QED BY <3>7 DEF Q
  <2> QED BY <2>1, <2>2
<1>2. S \in Q
  <2>1. Q \in SUBSET SUBSET S
    OBVIOUS
  <2> HIDE DEF Q
  <2> QED BY <1>1, <2>1, OverSubsets
<1> QED BY <1>2

(* A term is at most the sum.                                              *)
LEMMA PartTerm ==
  ASSUME NEW S, IsFiniteSet(S), NEW v, \A x \in S : v[x] \in Nat, NEW x \in S
  PROVE  v[x] <= Part(v, S)
<1>1. Part(v, S) = v[x] + Part(v, S \ {x})
  BY PartRemove
<1>2. IsFiniteSet(S \ {x})
  BY FS_Subset
<1>3. Part(v, S \ {x}) \in Nat
  BY <1>2, PartNatural
<1> QED BY <1>1, <1>3

(* In a strict total order, m elements have fewer than m ahead of them.    *)
LEMMA RanksDistinct ==
  ASSUME NEW D, IsFiniteSet(D), NEW before,
         \A x \in D : before[x] \in SUBSET D /\ x \notin before[x],
         \A x, y \in D : x # y => x \in before[y] \/ y \in before[x],
         \A x, y, z \in D : x \in before[y] /\ y \in before[z] => x \in before[z],
         NEW m \in 0 .. Cardinality(D)
  PROVE  Cardinality({x \in D : Cardinality(before[x]) < m}) = m
<1> DEFINE n == Cardinality(D)
           rank == [x \in D |-> Cardinality(before[x])]
           T == {x \in D : Cardinality(before[x]) < m}
           f == [x \in T |-> rank[x]]
<1>1. n \in Nat /\ m \in Nat /\ m <= n
  BY FS_CardinalityType
<1>2. ASSUME NEW x \in D
      PROVE  Cardinality(before[x]) \in Nat /\ Cardinality(before[x]) < n
  <2>1. before[x] \in SUBSET D /\ before[x] # D
    OBVIOUS
  <2>2. IsFiniteSet(before[x]) /\ Cardinality(before[x]) <= n /\ Cardinality(before[x]) # n
    BY <2>1, FS_Subset
  <2>3. Cardinality(before[x]) \in Nat
    BY <2>2, FS_CardinalityType
  <2> HIDE DEF n
  <2> QED BY <1>1, <2>2, <2>3
<1>3. ASSUME NEW x \in D, NEW y \in D, x \in before[y]
      PROVE  rank[x] # rank[y]
  <2>1. before[x] \in SUBSET before[y] /\ before[x] # before[y]
    BY <1>3
  <2>2. IsFiniteSet(before[y])
    BY FS_Subset
  <2>3. Cardinality(before[x]) # Cardinality(before[y])
    BY <2>1, <2>2, FS_Subset
  <2> QED BY <2>3
<1>4. \A x, y \in D : rank[x] = rank[y] => x = y
  BY <1>3
<1>5. rank \in Injection(D, 0 .. n - 1)
  <2>1. \A x \in D : rank[x] \in 0 .. n - 1
    BY <1>1, <1>2
  <2>2. rank \in [D -> 0 .. n - 1]
    BY <2>1
  <2> HIDE DEF rank
  <2> QED BY <1>4, <2>2 DEF Injection, IsInjective
<1>6. \A k \in 0 .. n - 1 : \E x \in D : rank[x] = k
  <2>1. IsFiniteSet(0 .. n - 1) /\ Cardinality(0 .. n - 1) = n
    <3>1. 0 \in Int /\ n - 1 \in Int /\ (0 > n - 1 <=> n = 0)
      BY <1>1
    <3>2. /\ IsFiniteSet(0 .. n - 1)
          /\ Cardinality(0 .. n - 1) = IF 0 > n - 1 THEN 0 ELSE n - 1 - 0 + 1
      BY <3>1, FS_Interval
    <3> QED BY <1>1, <3>1, <3>2
  <2> HIDE DEF rank
  <2>2. rank \in Surjection(D, 0 .. n - 1)
    BY <1>5, <2>1, FS_Injection
  <2> QED BY <2>2 DEF Surjection
<1>7. f \in Bijection(T, 0 .. m - 1)
  <2>1. \A x \in T : x \in D /\ f[x] = rank[x] /\ f[x] \in 0 .. m - 1
    BY <1>1, <1>2
  <2>2. \A x, y \in T : f[x] = f[y] => x = y
    BY <1>4, <2>1
  <2>3. ASSUME NEW k \in 0 .. m - 1 PROVE \E x \in T : f[x] = k
    <3>1. k \in 0 .. n - 1 /\ k < m
      BY <1>1
    <3>2. PICK x \in D : rank[x] = k
      BY <1>6, <3>1
    <3> QED BY <3>1, <3>2
  <2>4. f \in [T -> 0 .. m - 1]
    BY <2>1
  <2> HIDE DEF f, T
  <2> QED BY <2>2, <2>3, <2>4 DEF Bijection, Injection, Surjection, IsInjective
<1>8. IsFiniteSet(T)
  BY FS_Subset
<1>9. Cardinality(0 .. m - 1) = m
  <2>1. 0 \in Int /\ m - 1 \in Int /\ (0 > m - 1 <=> m = 0)
    BY <1>1
  <2>2. Cardinality(0 .. m - 1) = IF 0 > m - 1 THEN 0 ELSE m - 1 - 0 + 1
    BY <2>1, FS_Interval
  <2> QED BY <1>1, <2>1, <2>2
<1> HIDE DEF f, T
<1>10. Cardinality(T) = m
  BY <1>7, <1>8, <1>9, FS_Bijection DEF ExistsBijection
<1> QED BY <1>10 DEF T

----------------------------------------------------------------------------
(* What the largest remainders get is what the shares leave over.          *)
LEMMA ApportionExact ==
  ASSUME NEW S \in SUBSET Nat, IsFiniteSet(S), S # {}, NEW samples \in Nat,
         NEW w, w = [i \in S |-> w[i]], \A i \in S : w[i] \in Nat \ {0}
  PROVE  LET a == Apportion(samples, w)
         IN  a = [i \in S |-> a[i]] /\ Part(a, S) = samples /\ \A i \in S : a[i] \in 0 .. samples
<1> DEFINE sum       == Total(w)
           base      == [i \in S |-> (samples * w[i]) \div sum]
           rest      == [i \in S |-> (samples * w[i]) % sum]
           before    == [i \in S |-> {j \in S : rest[j] > rest[i] \/ (rest[j] = rest[i] /\ j < i)}]
           remaining == samples - Total(base)
           T         == {i \in S : Cardinality(before[i]) < remaining}
           one       == [i \in S |-> IF i \in T THEN 1 ELSE 0]
           a         == Apportion(samples, w)
<1>1. DOMAIN w = S
  OBVIOUS
<1>2. /\ a = [i \in S |-> a[i]]
      /\ \A i \in S : a[i] = base[i] + one[i]
  BY <1>1 DEF Apportion
<1>3. sum = Part(w, S) /\ Total(base) = Part(base, S)
  BY TotalIsPart
<1>4. sum \in Nat \ {0}
  <2>1. PICK i \in S : TRUE
    OBVIOUS
  <2>2. w[i] <= Part(w, S) /\ w[i] \in Nat \ {0} /\ Part(w, S) \in Nat
    BY PartTerm, PartNatural
  <2> QED BY <1>3, <2>2
<1> HIDE DEF sum, a
<1>5. \A i \in S : /\ base[i] \in Nat /\ rest[i] \in 0 .. sum - 1 /\ rest[i] \in Nat
                   /\ samples * w[i] = sum * base[i] + rest[i]
  <2>1. \A i \in S : samples * w[i] \in Nat
    OBVIOUS
  <2> QED BY <1>4, <2>1, DivMod
<1>6. DOMAIN base = S /\ DOMAIN rest = S
  OBVIOUS
<1> HIDE DEF base, rest
<1> DEFINE B == Part(base, S)
           R == Part(rest, S)
<1>7. B \in Nat /\ R \in Nat
  BY <1>5, PartNatural
<1>8. samples * sum = sum * B + R
  <2> DEFINE l == [i \in S |-> samples * w[i]]
             r == [i \in S |-> sum * base[i]]
  <2>1. Part(l, S) = samples * sum
    <3>1. \A i \in S : w[i] \in Int /\ l[i] = samples * w[i]
      OBVIOUS
    <3> HIDE DEF l
    <3> QED BY <1>3, <3>1, PartScale
  <2>2. Part(r, S) = sum * B
    <3>1. \A i \in S : base[i] \in Int /\ r[i] = sum * base[i]
      BY <1>5
    <3> HIDE DEF r
    <3> QED BY <1>4, <3>1, PartScale
  <2>3. \A i \in S : r[i] \in Int /\ rest[i] \in Int /\ l[i] = r[i] + rest[i]
    BY <1>4, <1>5
  <2> HIDE DEF l, r
  <2>4. Part(l, S) = Part(r, S) + R
    BY <2>3, PartSum
  <2> QED BY <2>1, <2>2, <2>4
<1>9. R <= (sum - 1) * Cardinality(S) /\ Cardinality(S) \in Nat \ {0}
  <2> DEFINE most == [i \in S |-> sum - 1]
  <2>1. \A i \in S : rest[i] \in Int /\ most[i] \in Int /\ rest[i] <= most[i] /\ most[i] = sum - 1
    BY <1>4, <1>5
  <2> HIDE DEF most
  <2>2. R <= Part(most, S)
    BY <2>1, PartMonotone
  <2>3. Part(most, S) = (sum - 1) * Cardinality(S)
    BY <1>4, <2>1, PartConstant
  <2>4. Cardinality(S) \in Nat \ {0}
    BY FS_CardinalityType, FS_EmptySet
  <2> QED BY <2>2, <2>3, <2>4
<1>10. remaining = samples - B
  BY <1>3
<1> HIDE DEF B, R, remaining
<1>11. remaining \in 0 .. Cardinality(S)
  <2> DEFINE n == Cardinality(S)
  <2>1. n \in Nat \ {0} /\ R <= (sum - 1) * n
    BY <1>9
  <2> HIDE DEF n
  <2>2. remaining \in Int
    BY <1>7, <1>10
  <2>3. sum * remaining = R
    <3>1. sum * remaining = sum * samples - sum * B
      BY <1>4, <1>7, <1>10, SMT
    <3>2. sum * samples = samples * sum
      BY <1>4, SMT
    <3>3. sum * samples \in Int /\ sum * B \in Int
      BY <1>4, <1>7
    <3> QED BY <1>7, <1>8, <3>1, <3>2, <3>3
  <2>4. remaining >= 0
    <3>1. ASSUME remaining <= -1 PROVE FALSE
      <4>1. sum * remaining <= sum * (-1)
        BY <1>4, <2>2, <3>1, SMT
      <4> QED BY <1>4, <1>7, <2>3, <4>1
    <3> QED BY <2>2, <3>1
  <2>5. remaining <= n
    <3>1. ASSUME remaining >= n PROVE remaining = n
      <4>1. sum * remaining >= sum * n
        BY <1>4, <2>1, <2>2, <3>1, SMT
      <4>2. (sum - 1) * n = sum * n - n /\ sum * n \in Int
        BY <1>4, <2>1, SMT
      <4> QED BY <1>7, <2>1, <2>3, <4>1, <4>2
    <3> QED BY <2>1, <2>2, <3>1
  <2> QED BY <2>1, <2>2, <2>4, <2>5 DEF n
<1>12. Cardinality(T) = remaining
  <2>0. \A x \in S : rest[x] \in Int /\ x \in Int
    BY <1>5
  <2>1. \A x \in S : before[x] \in SUBSET S /\ x \notin before[x]
    BY <2>0
  <2>2. \A x, y \in S : x # y => x \in before[y] \/ y \in before[x]
    BY <2>0
  <2>3. ASSUME NEW x \in S, NEW y \in S, NEW z \in S, x \in before[y], y \in before[z]
        PROVE  x \in before[z]
    <3>1. rest[x] > rest[y] \/ (rest[x] = rest[y] /\ x < y)
      BY <2>3
    <3>2. rest[y] > rest[z] \/ (rest[y] = rest[z] /\ y < z)
      BY <2>3
    <3>3. rest[x] > rest[z] \/ (rest[x] = rest[z] /\ x < z)
      BY <2>0, <3>1, <3>2
    <3> QED BY <3>3
  <2> HIDE DEF before
  <2> QED BY <1>11, <2>1, <2>2, <2>3, RanksDistinct
<1>13. Part(one, S) = remaining
  <2> DEFINE c == [i \in S |-> 1]
  <2>1. T \in SUBSET S /\ \A i \in S : c[i] \in Int /\ one[i] = (IF i \in T THEN c[i] ELSE 0)
    OBVIOUS
  <2>2. IsFiniteSet(T)
    BY <2>1, FS_Subset
  <2>5. 1 \in Int /\ \A i \in T : c[i] = 1
    OBVIOUS
  <2> HIDE DEF c, T, one
  <2>3. Part(one, S) = Part(c, T)
    BY <2>1, PartOfSupport
  <2>4. Part(c, T) = 1 * Cardinality(T)
    BY <2>2, <2>5, PartConstant
  <2>6. 1 * remaining = remaining
    BY <1>11, SMT
  <2> QED BY <1>12, <2>3, <2>4, <2>6
<1>14. \A i \in S : base[i] \in Int /\ one[i] \in Int /\ a[i] \in Nat
  <2>1. \A i \in S : one[i] \in {0, 1}
    OBVIOUS
  <2> HIDE DEF T, one
  <2> QED BY <1>2, <1>5, <2>1
<1> HIDE DEF T, one
<1>15. Part(a, S) = B + remaining
  BY <1>2, <1>13, <1>14, PartSum DEF B
<1>16. Part(a, S) = samples
  BY <1>7, <1>10, <1>15
<1>17. \A i \in S : a[i] <= samples
  BY <1>14, <1>16, PartTerm
<1> QED BY <1>2, <1>14, <1>16, <1>17 DEF a


USE WordSizeAssumption

----------------------------------------------------------------------------
(* The quotient is the largest number that goes into a.                    *)
LEMMA DivAtMost ==
  ASSUME NEW a \in Nat, NEW b \in Nat \ {0}, NEW c \in Nat, a <= c * b
  PROVE  a \div b <= c
<1> DEFINE q == a \div b
<1>1. q \in Nat /\ b * q <= a
  BY DivMod
<1>2. SUFFICES ASSUME q > c PROVE FALSE
  BY <1>1
<1>3. b * (c + 1) <= b * q
  <2> HIDE DEF q
  <2> QED BY <1>1, <1>2, SMT
<1>4. b * (c + 1) = c * b + b
  BY SMT
<1> QED
  <2> HIDE DEF q
  <2> QED BY <1>1, <1>3, <1>4

LEMMA DivMonotone ==
  ASSUME NEW a \in Nat, NEW b \in Nat \ {0}, NEW c \in Nat, a <= c
  PROVE  a \div b <= c \div b
<1> DEFINE q == a \div b
           p == c \div b
<1>1. q \in Nat /\ b * q <= a
  BY DivMod
<1>2. p \in Nat /\ c < b * (p + 1)
  <2>1. p \in Nat /\ c = b * p + (c % b) /\ c % b < b
    BY DivMod
  <2> HIDE DEF p
  <2> QED BY <2>1, SMT
<1>3. SUFFICES ASSUME q > p PROVE FALSE
  BY <1>1, <1>2
<1> HIDE DEF q, p
<1>4. b * (p + 1) <= b * q
  BY <1>1, <1>2, <1>3, SMT
<1> QED BY <1>1, <1>2, <1>4

(* A word is what it was.                                                  *)
LEMMA WrapWord ==
  ASSUME NEW n \in Word
  PROVE  Wrap(n) = n
  BY DEF Word, Wrap

LEMMA WrapType ==
  ASSUME NEW n \in Int
  PROVE  Wrap(n) \in Word
  BY DEF Word, Wrap

(* A multiple divides exactly.                                             *)
LEMMA DivMultiple ==
  ASSUME NEW b \in Nat \ {0}, NEW c \in Nat
  PROVE  (b * c) \div b = c
<1> DEFINE q == (b * c) \div b
           m == (b * c) % b
<1>1. b * c \in Nat
  OBVIOUS
<1>2. q \in Nat /\ m \in 0 .. b - 1 /\ b * c = b * q + m
  BY <1>1, DivMod
<1> HIDE DEF q, m
<1>3. q <= c
  <2>1. SUFFICES ASSUME q >= c + 1 PROVE FALSE
    BY <1>2
  <2>2. b * q >= b * (c + 1)
    BY <1>2, <2>1, SMT
  <2>3. b * (c + 1) = b * c + b
    BY SMT
  <2> QED BY <1>1, <1>2, <2>2, <2>3
<1>4. q >= c
  <2>1. SUFFICES ASSUME q + 1 <= c PROVE FALSE
    BY <1>2
  <2>2. b * (q + 1) <= b * c
    BY <1>2, <2>1, SMT
  <2>3. b * (q + 1) = b * q + b
    BY <1>2, SMT
  <2> QED BY <1>1, <1>2, <2>2, <2>3
<1> QED BY <1>2, <1>3, <1>4 DEF q

----------------------------------------------------------------------------
(* Segments.                                                               *)

(* A boundary is computed without wrapping, and lies within the positions. *)
LEMMA BoundaryExact ==
  ASSUME NEW positions \in Word, NEW channels \in Nat \ {0},
         channels * channels <= WordSize, NEW segment \in 0 .. channels
  PROVE  LET q == positions \div channels
             r == positions % channels
         IN  /\ PartitionBoundary(positions, channels, segment) =
                  q * segment + ((segment * r) \div channels)
             /\ (segment * r) \div channels \in 0 .. r
             /\ PartitionBoundary(positions, channels, segment) \in 0 .. positions
<1> DEFINE q == positions \div channels
           r == positions % channels
           e == (segment * r) \div channels
<1>1. positions \in Nat
  BY DEF Word
<1>2. q \in Nat /\ r \in 0 .. channels - 1 /\ positions = channels * q + r
  BY <1>1, DivMod
<1>3. e \in 0 .. r
  <2>1. segment * r \in Nat /\ segment * r <= r * channels
    <3> HIDE DEF r
    <3> QED BY <1>2, SMT
  <2>2. e <= r
    BY <1>2, <2>1, DivAtMost
  <2>3. e \in Nat
    BY <2>1, DivMod
  <2> QED BY <1>2, <2>2, <2>3
<1> HIDE DEF q, r
<1>4. q * segment \in Nat /\ q * segment <= channels * q
  BY <1>2, SMT
<1>5. q * segment + e \in 0 .. positions
  <2> HIDE DEF e
  <2> QED BY <1>1, <1>2, <1>3, <1>4
<1>6. Wrap(q * segment) = q * segment
  <2>1. q * segment \in Word
    BY <1>1, <1>2, <1>4 DEF Word
  <2> QED BY <2>1, WrapWord
<1>7. Wrap(segment * r) = segment * r
  <2>1. segment * r <= channels * (channels - 1)
    BY <1>2, SMT
  <2>2. channels * (channels - 1) = channels * channels - channels
    BY SMT
  <2>3. segment * r \in Nat /\ channels * channels \in Nat
    BY <1>2
  <2>4. segment * r \in Word
    BY <2>1, <2>2, <2>3 DEF Word
  <2> QED BY <2>4, WrapWord
<1>8. Wrap(q * segment + e) = q * segment + e
  <2>1. q * segment + e \in Word
    <3> HIDE DEF e
    <3> QED BY <1>5, <1>1 DEF Word
  <2> QED BY <2>1, WrapWord
<1>9. PartitionBoundary(positions, channels, segment) = q * segment + e
  BY <1>6, <1>7, <1>8 DEF PartitionBoundary, q, r
<1> QED BY <1>3, <1>5, <1>9 DEF q, r

(* The first segment begins with the first position, the last one ends     *)
(* with the last.                                                          *)
LEMMA BoundaryEnds ==
  ASSUME NEW positions \in Word, NEW channels \in Nat \ {0},
         channels * channels <= WordSize
  PROVE  /\ PartitionBoundary(positions, channels, 0) = 0
         /\ PartitionBoundary(positions, channels, channels) = positions
<1> DEFINE q == positions \div channels
           r == positions % channels
<1>1. positions \in Nat
  BY DEF Word
<1>2. q \in Nat /\ r \in 0 .. channels - 1 /\ positions = channels * q + r
  BY <1>1, DivMod
<1>3. PartitionBoundary(positions, channels, 0) = q * 0 + ((0 * r) \div channels)
  BY BoundaryExact
<1>4. PartitionBoundary(positions, channels, channels) =
        q * channels + ((channels * r) \div channels)
  BY BoundaryExact
<1> HIDE DEF q, r
<1>5. (0 * r) \div channels = 0
  <2>1. 0 * r = channels * 0
    BY <1>2, SMT
  <2> QED BY <2>1, DivMultiple
<1>6. (channels * r) \div channels = r
  BY <1>2, DivMultiple
<1>7. q * 0 = 0 /\ q * channels = channels * q
  BY <1>2, SMT
<1> QED BY <1>2, <1>3, <1>4, <1>5, <1>6, <1>7

(* With a position for every Channel, segments begin one after another.    *)
LEMMA BoundaryIncreases ==
  ASSUME NEW positions \in Word, NEW channels \in Nat \ {0},
         channels * channels <= WordSize, channels <= positions,
         NEW segment \in 0 .. channels, NEW later \in 0 .. channels, segment < later
  PROVE  PartitionBoundary(positions, channels, segment)
           < PartitionBoundary(positions, channels, later)
<1> DEFINE q == positions \div channels
           r == positions % channels
           e(i) == (i * r) \div channels
<1>1. positions \in Nat
  BY DEF Word
<1>2. q \in Nat /\ r \in 0 .. channels - 1 /\ positions = channels * q + r
  BY <1>1, DivMod
<1>3. /\ PartitionBoundary(positions, channels, segment) = q * segment + e(segment)
      /\ e(segment) \in 0 .. r
  BY BoundaryExact
<1>4. /\ PartitionBoundary(positions, channels, later) = q * later + e(later)
      /\ e(later) \in 0 .. r
  BY BoundaryExact
<1>5. e(segment) <= e(later)
  <2>1. segment * r \in Nat /\ later * r \in Nat /\ segment * r <= later * r
    <3> HIDE DEF r
    <3> QED BY <1>2, SMT
  <2> QED BY <2>1, DivMonotone
<1> HIDE DEF q, r, e
<1>6. q >= 1
  <2>1. SUFFICES ASSUME q = 0 PROVE FALSE
    BY <1>2
  <2>2. channels * q = 0
    BY <2>1, SMT
  <2> QED BY <1>2, <2>2
<1>7. q * later >= q * (segment + 1)
  BY <1>2, SMT
<1>8. q * (segment + 1) = q * segment + q /\ q * segment \in Nat /\ q * later \in Nat
  BY <1>2, SMT
<1> QED BY <1>2, <1>3, <1>4, <1>5, <1>6, <1>7, <1>8

(* evenDelay is a boundary of one segment less.                            *)
LEMMA EvenDelayExact ==
  ASSUME NEW last \in Word, NEW channels \in Nat \ {0, 1},
         channels * channels <= WordSize, NEW c \in 0 .. channels - 1
  PROVE  /\ EvenDelay(last, channels, c) = PartitionBoundary(last, channels - 1, c)
         /\ (channels - 1) * (channels - 1) <= WordSize
<1> DEFINE n == channels - 1
<1>1. n \in Nat \ {0} /\ c \in 0 .. n
  OBVIOUS
<1>2. n * n <= WordSize
  <2>1. channels * channels = n * n + n + n + 1
    BY SMT
  <2>2. n * n \in Nat
    BY <1>1
  <2> QED BY <1>1, <2>1, <2>2
<1>3. c * (last % n) = (last % n) * c
  BY <1>1, DivMod, SMT DEF Word
<1>4. EvenDelay(last, channels, c) = PartitionBoundary(last, n, c)
  BY <1>3 DEF EvenDelay, PartitionBoundary
<1> QED BY <1>2, <1>4

LEMMA EvenDelayRange ==
  ASSUME NEW last \in Word, NEW channels \in Nat \ {0},
         channels * channels <= WordSize, NEW c \in 0 .. channels - 1
  PROVE  EvenDelay(last, channels, c) \in 0 .. last
<1>1. CASE channels = 1
  BY <1>1 DEF EvenDelay, Word
<1>2. CASE channels # 1
  <2>1. channels - 1 \in Nat \ {0} /\ c \in 0 .. channels - 1 /\ channels \in Nat \ {0, 1}
    BY <1>2
  <2>2. PartitionBoundary(last, channels - 1, c) \in 0 .. last
    BY <2>1, EvenDelayExact, BoundaryExact
  <2> QED BY <2>1, <2>2, EvenDelayExact
<1> QED BY <1>1, <1>2

(* Even delays are distinct where there are positions for all Channels.    *)
LEMMA EvenDelayIncreases ==
  ASSUME NEW last \in Word, NEW channels \in Nat \ {0},
         channels * channels <= WordSize, channels <= last + 1,
         NEW c \in 0 .. channels - 1, NEW e \in 0 .. channels - 1, c < e
  PROVE  EvenDelay(last, channels, c) < EvenDelay(last, channels, e)
<1>1. channels \in Nat \ {0, 1} /\ channels - 1 \in Nat \ {0} /\ last \in Nat
  BY DEF Word
<1>2. channels - 1 <= last /\ c \in 0 .. channels - 1 /\ e \in 0 .. channels - 1
  BY <1>1
<1>3. PartitionBoundary(last, channels - 1, c) < PartitionBoundary(last, channels - 1, e)
  BY <1>1, <1>2, EvenDelayExact, BoundaryIncreases
<1> QED BY <1>1, <1>3, EvenDelayExact

----------------------------------------------------------------------------
(* Draws.                                                                  *)

(* A draw is below its bound.                                              *)
LEMMA DrawsBelow ==
  ASSUME NEW bound \in Nat \ {0}
  PROVE  Draws(bound) \subseteq 0 .. bound - 1
<1> SUFFICES ASSUME NEW raw \in RawDraws(bound)
             PROVE  raw % bound \in 0 .. bound - 1
  BY DEF Draws
<1>1. 0 - bound \in Int
  OBVIOUS
<1> DEFINE w == Wrap(0 - bound)
<1>2. w \in Nat
  BY <1>1, WrapType DEF Word
<1>3. Threshold(bound) \in Nat
  <2>1. Threshold(bound) = w % bound
    BY DEF Threshold
  <2> HIDE DEF w
  <2>2. w % bound \in 0 .. bound - 1
    BY <1>2, DivMod
  <2> QED BY <2>1, <2>2
<1>4. raw \in Nat
  BY <1>3 DEF RawDraws
<1> QED BY <1>4, DivMod

(* A remainder is determined by what it is the remainder of.               *)
LEMMA RemainderUnique ==
  ASSUME NEW b \in Nat \ {0}, NEW k \in Nat, NEW v \in 0 .. b - 1
  PROVE  (b * k + v) % b = v /\ (b * k + v) \div b = k
<1> DEFINE a == b * k + v
           q == a \div b
           r == a % b
<1>1. b * k \in Nat /\ a \in Nat
  OBVIOUS
<1>2. q \in Nat /\ r \in 0 .. b - 1 /\ a = b * q + r
  BY <1>1, DivMod
<1> HIDE DEF q, r
<1>3. ASSUME q > k PROVE FALSE
  <2>1. b * q >= b * (k + 1)
    BY <1>2, <1>3, SMT
  <2>2. b * (k + 1) = b * k + b
    BY SMT
  <2> QED BY <1>1, <1>2, <2>1, <2>2
<1>4. ASSUME q < k PROVE FALSE
  <2>1. b * k >= b * (q + 1)
    BY <1>2, <1>4, SMT
  <2>2. b * (q + 1) = b * q + b
    BY <1>2, SMT
  <2> QED BY <1>1, <1>2, <2>1, <2>2
<1>5. q = k
  BY <1>2, <1>3, <1>4
<1> QED BY <1>1, <1>2, <1>5 DEF q, r

(* What is rejected is what WordSize exceeds a multiple of the bound by.   *)
LEMMA ThresholdExact ==
  ASSUME NEW bound \in Nat \ {0}, bound < WordSize
  PROVE  /\ Threshold(bound) \in 0 .. bound - 1
         /\ \E m \in Nat \ {0} : WordSize = bound * m + Threshold(bound)
<1> DEFINE w == Wrap(0 - bound)
           t == w % bound
           p == w \div bound
<1>1. w = WordSize - bound
  <2> DEFINE q == (0 - bound) \div WordSize
  <2>1. /\ q \in Int /\ w \in 0 .. WordSize - 1
        /\ 0 - bound = WordSize * q + w
    BY Z3 DEF Wrap
  <2> HIDE DEF q, w
  <2>2. ASSUME q >= 0 PROVE FALSE
    <3>1. WordSize * q >= 0
      BY <2>1, <2>2, SMT
    <3> QED BY <2>1, <3>1
  <2>3. ASSUME q <= -2 PROVE FALSE
    <3>1. WordSize * q <= WordSize * (-2)
      BY <2>1, <2>3, SMT
    <3> QED BY <2>1, <3>1
  <2>4. q = -1
    BY <2>1, <2>2, <2>3
  <2> QED BY <2>1, <2>4
<1> HIDE DEF w
<1>2. p \in Nat /\ t \in 0 .. bound - 1 /\ w = bound * p + t
  BY <1>1, DivMod
<1>3. Threshold(bound) = t
  BY DEF Threshold, w
<1> HIDE DEF p, t
<1>4. bound * (p + 1) = bound * p + bound
  BY <1>2, SMT
<1>5. WordSize = bound * (p + 1) + t /\ p + 1 \in Nat \ {0}
  BY <1>1, <1>2, <1>4
<1> QED BY <1>2, <1>3, <1>5

(* Every value below the bound is hit by the same number of raw draws.     *)
LEMMA DrawsFair ==
  ASSUME NEW bound \in Nat \ {0}, bound < WordSize
  PROVE  \E m \in Nat \ {0} : \A v \in 0 .. bound - 1 :
           Cardinality({raw \in RawDraws(bound) : raw % bound = v}) = m
<1> DEFINE t == Threshold(bound)
<1>1. PICK m \in Nat \ {0} : WordSize = bound * m + t
  BY ThresholdExact
<1>2. t \in 0 .. bound - 1
  BY ThresholdExact
<1> SUFFICES ASSUME NEW v \in 0 .. bound - 1
             PROVE  Cardinality({raw \in RawDraws(bound) : raw % bound = v}) = m
  OBVIOUS
<1>3. RawDraws(bound) = t .. bound * m + t - 1
  <2>1. RawDraws(bound) = t .. WordSize - 1
    BY DEF RawDraws
  <2> HIDE DEF t
  <2>2. WordSize - 1 = bound * m + t - 1
    <3>1. bound * m \in Nat /\ t \in Nat
      BY <1>2
    <3> QED BY <1>1, <3>1
  <2> QED BY <2>1, <2>2
<1> HIDE DEF t
<1> DEFINE s == IF v >= t THEN 0 ELSE 1
           K == s .. s + m - 1
           H == {raw \in RawDraws(bound) : raw % bound = v}
           f == [k \in K |-> bound * k + v]
<1>4. s \in {0, 1} /\ (s = 0 => v >= t) /\ (s = 1 => v < t)
  BY <1>2
<1> HIDE DEF s
<1>5. ASSUME NEW k \in K PROVE bound * k + v \in H
  <2>1. k \in Nat /\ s <= k /\ k <= s + m - 1
    BY <1>4
  <2>2. bound * k \in Nat /\ bound * m \in Nat
    BY <2>1
  <2>3. bound * k + v >= t
    <3>1. CASE s = 0
      BY <1>2, <1>4, <2>2, <3>1
    <3>2. CASE s = 1
      <4>1. bound * k >= bound
        BY <2>1, <3>2, SMT
      <4> QED BY <1>2, <2>2, <4>1
    <3> QED BY <1>4, <3>1, <3>2
  <2>4. bound * k + v < bound * m + t
    <3>1. CASE s = 0
      <4>1. bound * k <= bound * (m - 1)
        BY <2>1, <3>1, SMT
      <4>2. bound * (m - 1) = bound * m - bound
        BY SMT
      <4> QED BY <1>2, <2>2, <4>1, <4>2
    <3>2. CASE s = 1
      <4>1. bound * k <= bound * m
        BY <2>1, <3>2, SMT
      <4> QED BY <1>2, <1>4, <2>2, <3>2, <4>1
    <3> QED BY <1>4, <3>1, <3>2
  <2>5. (bound * k + v) % bound = v
    BY <2>1, RemainderUnique
  <2> QED BY <1>2, <1>3, <2>2, <2>3, <2>4, <2>5
<1>6. ASSUME NEW raw \in H PROVE \E k \in K : raw = bound * k + v
  <2> DEFINE k == raw \div bound
  <2>1. /\ raw \in Nat /\ t <= raw /\ raw <= bound * m + t - 1 /\ raw % bound = v
        /\ bound * m \in Nat
    BY <1>2, <1>3
  <2>2. k \in Nat /\ raw = bound * k + v
    BY <2>1, DivMod
  <2> HIDE DEF k
  <2>3. bound * k \in Nat
    BY <2>2
  <2>4. k >= s
    <3>1. CASE s = 0
      BY <2>2, <3>1
    <3>2. ASSUME s = 1, k = 0 PROVE FALSE
      <4>1. bound * k = 0
        BY <3>2, SMT
      <4> QED BY <1>2, <1>4, <2>1, <2>2, <3>2, <4>1
    <3> QED BY <1>4, <2>2, <3>1, <3>2
  <2>5. k <= s + m - 1
    <3>1. CASE s = 0
      <4>1. ASSUME k >= m PROVE FALSE
        <5>1. bound * k >= bound * m
          BY <2>2, <4>1, SMT
        <5> QED BY <1>2, <1>4, <2>1, <2>2, <2>3, <3>1, <5>1
      <4> QED BY <2>2, <3>1, <4>1
    <3>2. CASE s = 1
      <4>1. ASSUME k >= m + 1 PROVE FALSE
        <5>1. bound * k >= bound * (m + 1)
          BY <2>2, <4>1, SMT
        <5>2. bound * (m + 1) = bound * m + bound
          BY SMT
        <5> QED BY <1>2, <2>1, <2>2, <2>3, <5>1, <5>2
      <4> QED BY <2>2, <3>2, <4>1
    <3> QED BY <1>4, <3>1, <3>2
  <2> QED BY <1>4, <2>2, <2>4, <2>5
<1>7. ASSUME NEW j \in K, NEW k \in K, bound * j + v = bound * k + v
      PROVE  j = k
  <2>1. j \in Nat /\ k \in Nat
    BY <1>4
  <2> QED BY <1>7, <2>1, RemainderUnique
<1>8. f \in Bijection(K, H)
  <2>1. f \in [K -> H]
    BY <1>5
  <2>2. \A j, k \in K : f[j] = f[k] => j = k
    BY <1>7
  <2>3. \A raw \in H : \E k \in K : f[k] = raw
    BY <1>6
  <2> HIDE DEF f, H, K
  <2> QED BY <2>1, <2>2, <2>3 DEF Bijection, Injection, Surjection, IsInjective
<1>9. IsFiniteSet(K) /\ Cardinality(K) = m
  <2>1. s \in Int /\ s + m - 1 \in Int /\ ~(s > s + m - 1)
    BY <1>4
  <2> QED BY <2>1, FS_Interval
<1> HIDE DEF f, K, H
<1>10. Cardinality(H) = m
  BY <1>8, <1>9, FS_Bijection DEF ExistsBijection
<1> QED BY <1>10 DEF H

----------------------------------------------------------------------------
Drawing == {"delays", "shuffle", "modulate"}

Resolving == {"step"} \cup Drawing

(* The inductive invariant, in parts.  A phase that works on a request has *)
(* one ...                                                                 *)
RequestKnown ==
  /\ phase \in {"derive", "step", "delays", "shuffle", "modulate", "validate",
                "accepted", "refused"}
  /\ phase \in {"derive"} \cup Resolving => request \in Requests

(* ... steps have lengths that leave room for one more position ...        *)
LengthsKnown ==
  /\ \A i \in DOMAIN lengths : lengths[i] \in Word
  /\ index \in Nat
  /\ phase \in Resolving =>
       /\ DOMAIN lengths = ChannelsOf(StepCount(request))
       /\ \A i \in DOMAIN lengths : lengths[i] \in 0 .. WordSize - 2
  /\ phase \in Drawing =>
       /\ index < StepCount(request)
       /\ Derivable(Option, StepLength, Channels)

(* ... and the first Channels have their delays.                           *)
DelaysDrawn ==
  phase \in Drawing =>
    /\ \E k \in 0 .. Channels :
         /\ DOMAIN delays = ChannelsOf(k)
         /\ (phase = "delays") <=> (k < Channels)
    /\ \A c \in DOMAIN delays : delays[c] \in 0 .. StepLength
    /\ Option.strategy = "segmented-random" =>
         \A c \in DOMAIN delays : delays[c] \in Boundary(c) .. Boundary(c + 1) - 1

ShuffleTyped ==
  phase \in Drawing =>
    /\ permutation = [c \in ChannelsOf(Channels) |-> permutation[c]]
    /\ position \in ChannelsOf(Channels)

Inv == RequestKnown /\ LengthsKnown /\ DelaysDrawn /\ ShuffleTyped /\ PermutationKept

HIDE WordSizeAssumption
USE DiffuserConfigAssumption

----------------------------------------------------------------------------
(* A checked operation is exact where it has a value.                      *)
LEMMA CheckedMulExact ==
  ASSUME NEW a \in Nat \cup {Overflow}, NEW b \in Nat \cup {Overflow}
  PROVE  /\ CheckedMul(a, b) \in Nat \cup {Overflow}
         /\ CheckedMul(a, b) # Overflow =>
              a \in Nat /\ b \in Nat /\ CheckedMul(a, b) = a * b
  BY DEF CheckedMul, Overflow

LEMMA CheckedAddExact ==
  ASSUME NEW a \in Nat \cup {Overflow}, NEW b \in Nat \cup {Overflow}
  PROVE  /\ CheckedAdd(a, b) \in Nat \cup {Overflow}
         /\ CheckedAdd(a, b) # Overflow =>
              a \in Nat /\ b \in Nat /\ CheckedAdd(a, b) = a + b
  BY DEF CheckedAdd, Overflow

(* What can be paid for is paid in full: nothing in the estimate wraps.    *)
LEMMA AffordableExact ==
  ASSUME NEW channels \in Nat, NEW samples \in Nat, NEW steps \in Nat,
         NEW modulation \in Nat \cup {Overflow},
         Affordable(channels, samples, steps, modulation)
  PROVE  (channels * samples) * SampleBytes + ((channels * channels) * SampleBytes) * steps
           <= MemoryBudget
<1> DEFINE cs  == CheckedMul(channels, samples)
           d   == CheckedMul(cs, SampleBytes)
           cc  == CheckedMul(channels, channels)
           ccs == CheckedMul(cc, SampleBytes)
           m   == CheckedMul(ccs, steps)
           cm  == CheckedMul(channels, MetadataBytes)
           o   == CheckedMul(cm, steps)
           dm  == CheckedAdd(d, m)
           dmo == CheckedAdd(dm, o)
           all == CheckedAdd(dmo, modulation)
<1>1. all \in 0 .. MemoryBudget
  BY DEF Affordable, EstimatedBytes
<1>2. cs \in Nat \cup {Overflow} /\ (cs # Overflow => cs = channels * samples)
  BY CheckedMulExact
<1> HIDE DEF cs
<1>3. d \in Nat \cup {Overflow} /\ (d # Overflow => cs \in Nat /\ d = cs * SampleBytes)
  BY <1>2, CheckedMulExact
<1> HIDE DEF d
<1>4. cc \in Nat \cup {Overflow} /\ (cc # Overflow => cc = channels * channels)
  BY CheckedMulExact
<1> HIDE DEF cc
<1>5. ccs \in Nat \cup {Overflow} /\ (ccs # Overflow => cc \in Nat /\ ccs = cc * SampleBytes)
  BY <1>4, CheckedMulExact
<1> HIDE DEF ccs
<1>6. m \in Nat \cup {Overflow} /\ (m # Overflow => ccs \in Nat /\ m = ccs * steps)
  BY <1>5, CheckedMulExact
<1> HIDE DEF m
<1>7. cm \in Nat \cup {Overflow}
  BY CheckedMulExact
<1> HIDE DEF cm
<1>8. o \in Nat \cup {Overflow}
  BY <1>7, CheckedMulExact
<1> HIDE DEF o
<1>9. dm \in Nat \cup {Overflow} /\ (dm # Overflow => d \in Nat /\ m \in Nat /\ dm = d + m)
  BY <1>3, <1>6, CheckedAddExact
<1> HIDE DEF dm
<1>10. /\ dmo \in Nat \cup {Overflow}
       /\ dmo # Overflow => dm \in Nat /\ o \in Nat /\ dmo = dm + o
  BY <1>8, <1>9, CheckedAddExact
<1> HIDE DEF dmo
<1>11. all # Overflow => dmo \in Nat /\ modulation \in Nat /\ all = dmo + modulation
  BY <1>10, CheckedAddExact
<1> HIDE DEF all
<1>12. d \in Nat /\ m \in Nat /\ d + m <= MemoryBudget
  BY <1>1, <1>9, <1>10, <1>11 DEF Overflow, Word
<1>13. d = (channels * samples) * SampleBytes
  BY <1>2, <1>3, <1>12 DEF Overflow
<1>14. m = ((channels * channels) * SampleBytes) * steps
  BY <1>4, <1>5, <1>6, <1>12 DEF Overflow
<1> QED BY <1>12, <1>13, <1>14

(* What can be paid for leaves half of the words above it.                 *)
LEMMA AffordableBound ==
  ASSUME NEW channels \in Nat \ {0}, NEW samples \in Nat, NEW steps \in Nat,
         Affordable(channels, samples, steps, 0)
  PROVE  2 * samples < WordSize
<1> DEFINE n == channels * samples
           d == n * SampleBytes
           m == ((channels * channels) * SampleBytes) * steps
<1>1. d + m <= MemoryBudget
  BY AffordableExact
<1>2. channels * channels \in Nat /\ SampleBytes \in Nat
  OBVIOUS
<1>3. m \in Nat
  BY <1>2
<1>4. n \in Nat /\ n >= samples
  BY SMT
<1> HIDE DEF n, m
<1>5. d \in Nat /\ d >= 2 * n
  BY <1>4, SMT
<1> QED BY <1>1, <1>3, <1>4, <1>5, WordSizeAssumption DEF Word

(* A usable budget of time is a positive number.                           *)
LEMMA SampleBudgetType ==
  ASSUME NEW r \in Requests
  PROVE  SampleBudget(r) \in Nat \cup {Overflow}
<1>1. ExactTotal(r) \in Nat
  OBVIOUS
<1>2. (ExactTotal(r) + 2) \div 4 \in Nat
  BY <1>1, DivMod
<1> QED BY <1>2 DEF SampleBudget

LEMMA ChannelsFinite ==
  ASSUME NEW n \in Nat
  PROVE  /\ ChannelsOf(n) \in SUBSET Nat /\ IsFiniteSet(ChannelsOf(n))
         /\ Cardinality(ChannelsOf(n)) = n
         /\ n # 0 => ChannelsOf(n) # {}
<1>1. 0 \in Int /\ n - 1 \in Int /\ (0 > n - 1 <=> n = 0)
  OBVIOUS
<1>2. /\ IsFiniteSet(0 .. n - 1)
      /\ Cardinality(0 .. n - 1) = IF 0 > n - 1 THEN 0 ELSE n - 1 - 0 + 1
  BY <1>1, FS_Interval
<1>3. n # 0 => 0 \in 0 .. n - 1
  OBVIOUS
<1>4. 0 .. n - 1 \in SUBSET Nat
  OBVIOUS
<1> QED BY <1>1, <1>2, <1>3, <1>4 DEF ChannelsOf

(* Steps share the whole budget, and none gets more.                       *)
LEMMA ApportionBound ==
  ASSUME NEW r \in Requests, NEW samples \in Nat, StepCount(r) # 0
  PROVE  LET a == Apportion(samples, Weights(r))
         IN  /\ a = [i \in ChannelsOf(StepCount(r)) |-> a[i]]
             /\ Part(a, ChannelsOf(StepCount(r))) = samples
             /\ \A i \in ChannelsOf(StepCount(r)) : a[i] \in 0 .. samples
<1> DEFINE w == Weights(r)
           S == ChannelsOf(StepCount(r))
<1>1. StepCount(r) \in Nat \ {0}
  OBVIOUS
<1>2. w = [i \in S |-> w[i]]
  BY DEF Weights, StepCount
<1>3. S \in SUBSET Nat /\ IsFiniteSet(S) /\ S # {}
  BY <1>1, ChannelsFinite
<1>4. \A i \in S : w[i] \in Nat \ {0}
  BY <1>2
<1> HIDE DEF w, S
<1>5. LET a == Apportion(samples, w)
      IN  a = [i \in S |-> a[i]] /\ Part(a, S) = samples /\ \A i \in S : a[i] \in 0 .. samples
  BY <1>2, <1>3, <1>4, ApportionExact
<1> QED BY <1>5 DEF w, S

----------------------------------------------------------------------------
(* A step in progress has as many positions as it is long, and one, and    *)
(* its segments have room for every Channel.                               *)
LEMMA PositionsExact ==
  ASSUME Inv, phase \in Drawing
  PROVE  /\ request \in Requests
         /\ Channels \in Nat \ {0} /\ Channels * Channels <= WordSize
         /\ StepLength \in Nat /\ StepLength \in Word
         /\ Positions = StepLength + 1 /\ Positions \in Word
         /\ Option.strategy \in {"segmented-random", "uniform-random", "even"}
         /\ NeedsDistinctPositions(Option.strategy) => Channels <= Positions
<1>1. phase \in {"derive"} \cup Resolving /\ phase \in Resolving
  BY DEF Resolving
<1>2. request \in Requests
  BY <1>1 DEF Inv, RequestKnown
<1>3. Channels \in Nat \ {0} /\ Channels * Channels <= WordSize
  BY <1>2 DEF Channels
<1>4. index \in Nat /\ index < StepCount(request) /\ StepCount(request) \in Nat
  BY <1>1, <1>2 DEF Inv, LengthsKnown
<1>5. index \in DOMAIN lengths
  BY <1>1, <1>4 DEF Inv, LengthsKnown, ChannelsOf
<1>6. StepLength \in 0 .. WordSize - 2
  BY <1>1, <1>5 DEF Inv, LengthsKnown, StepLength
<1>7. Positions = StepLength + 1 /\ Positions \in Word
  <2>1. StepLength + 1 \in Word
    BY <1>6, WordSizeAssumption DEF Word
  <2> QED BY <2>1, WrapWord DEF Positions
<1>8. Option.strategy \in {"segmented-random", "uniform-random", "even"}
  BY <1>2, <1>4 DEF Option
<1>9. NeedsDistinctPositions(Option.strategy) => Channels <= Positions
  BY <1>1, <1>3, <1>6, <1>7 DEF Inv, LengthsKnown, Derivable, Positions
<1> QED
  BY <1>2, <1>3, <1>6, <1>7, <1>8, <1>9, WordSizeAssumption DEF Word

(* Boundaries of a step's segments.                                        *)
LEMMA SegmentExact ==
  ASSUME Inv, phase \in Drawing, Option.strategy = "segmented-random",
         NEW c \in ChannelsOf(Channels)
  PROVE  /\ Boundary(c) \in Nat /\ Boundary(c + 1) \in Nat
         /\ Boundary(c) < Boundary(c + 1) /\ Boundary(c + 1) <= Positions
<1>1. /\ Channels \in Nat \ {0} /\ Channels * Channels <= WordSize
      /\ Positions \in Word /\ Channels <= Positions
  BY PositionsExact DEF NeedsDistinctPositions
<1>2. c \in 0 .. Channels - 1 /\ c \in 0 .. Channels /\ c + 1 \in 0 .. Channels
  BY <1>1 DEF ChannelsOf
<1>3. Boundary(c) \in 0 .. Positions /\ Boundary(c + 1) \in 0 .. Positions
  BY <1>1, <1>2, BoundaryExact DEF Boundary
<1>4. Boundary(c) < Boundary(c + 1)
  BY <1>1, <1>2, BoundaryIncreases DEF Boundary
<1> QED BY <1>1, <1>3, <1>4

(* Every draw of a delay is within the step, and within its segment.       *)
LEMMA DelayDrawn ==
  ASSUME Inv, phase \in Drawing,
         NEW c \in ChannelsOf(Channels), NEW delay \in DelayDraws(c)
  PROVE  /\ delay \in 0 .. StepLength
         /\ Option.strategy = "segmented-random" =>
              delay \in Boundary(c) .. Boundary(c + 1) - 1
<1>1. /\ Channels \in Nat \ {0} /\ Channels * Channels <= WordSize
      /\ StepLength \in Nat /\ StepLength \in Word
      /\ Positions = StepLength + 1 /\ Positions \in Word
      /\ Option.strategy \in {"segmented-random", "uniform-random", "even"}
  BY PositionsExact
<1>2. CASE Option.strategy = "segmented-random"
  <2> DEFINE from == Boundary(c)
             to   == Boundary(c + 1)
  <2>1. from \in Nat /\ to \in Nat /\ from < to /\ to <= Positions
    BY <1>2, SegmentExact
  <2> HIDE DEF from, to
  <2>2. Wrap(to - from) = to - from
    <3>1. to - from \in Word
      BY <1>1, <2>1, WordSizeAssumption DEF Word
    <3> QED BY <3>1, WrapWord
  <2>3. PICK v \in Draws(to - from) : delay = Wrap(from + v)
    BY <1>2, <2>2 DEF DelayDraws, from, to
  <2>4. v \in 0 .. (to - from) - 1
    <3>1. to - from \in Nat \ {0}
      BY <2>1
    <3> QED BY <3>1, DrawsBelow
  <2>5. delay = from + v
    <3>1. from + v \in Word
      BY <1>1, <2>1, <2>4, WordSizeAssumption DEF Word
    <3> QED BY <2>3, <3>1, WrapWord
  <2>6. delay \in from .. to - 1
    BY <2>1, <2>4, <2>5
  <2>7. delay \in 0 .. StepLength
    BY <1>1, <2>1, <2>6
  <2> QED BY <2>6, <2>7 DEF from, to
<1>3. CASE Option.strategy = "even"
  <2>1. delay = EvenDelay(StepLength, Channels, c)
    BY <1>3 DEF DelayDraws
  <2>2. c \in 0 .. Channels - 1
    BY DEF ChannelsOf
  <2>3. EvenDelay(StepLength, Channels, c) \in 0 .. StepLength
    BY <1>1, <2>2, EvenDelayRange
  <2> QED BY <1>3, <2>1, <2>3
<1>4. CASE Option.strategy = "uniform-random"
  <2>1. delay \in Draws(Positions)
    BY <1>4 DEF DelayDraws
  <2>2. delay \in 0 .. Positions - 1
    <3>1. Positions \in Nat \ {0}
      BY <1>1
    <3> QED BY <2>1, <3>1, DrawsBelow
  <2> QED BY <1>1, <1>4, <2>2
<1> QED BY <1>1, <1>2, <1>3, <1>4

(* Where a delay is drawn at random, it is drawn fairly.                   *)
LEMMA InvDraws == Inv => DrawsUniform
<1> SUFFICES ASSUME Inv, phase = "delays", Option.strategy # "even"
             PROVE  DrawsUniform
  BY DEF DrawsUniform
<1> DEFINE c == Cardinality(DOMAIN delays)
           bound == IF Option.strategy = "uniform-random" THEN Positions
                    ELSE Wrap(Boundary(c + 1) - Boundary(c))
           hits(v) == Cardinality({raw \in RawDraws(bound) : raw % bound = v})
<1>1. phase \in Drawing
  BY DEF Drawing
<1>2. /\ Channels \in Nat \ {0}
      /\ StepLength \in Nat /\ Positions = StepLength + 1 /\ Positions \in Word
      /\ Option.strategy \in {"segmented-random", "uniform-random"}
  BY <1>1, PositionsExact
<1>3. c \in ChannelsOf(Channels)
  <2>1. PICK k \in 0 .. Channels :
          DOMAIN delays = ChannelsOf(k) /\ (phase = "delays" <=> k < Channels)
    BY <1>1 DEF Inv, DelaysDrawn
  <2>2. k \in Nat /\ k \in ChannelsOf(Channels)
    BY <1>2, <2>1 DEF ChannelsOf
  <2> QED BY <2>1, <2>2, ChannelsFinite
<1> HIDE DEF c
<1>4. bound \in Nat \ {0} /\ bound < WordSize
  <2>1. CASE Option.strategy = "uniform-random"
    BY <1>2, <2>1, WordSizeAssumption DEF Word
  <2>2. CASE Option.strategy = "segmented-random"
    <3> DEFINE from == Boundary(c)
               to   == Boundary(c + 1)
    <3>1. from \in Nat /\ to \in Nat /\ from < to /\ to <= Positions
      BY <1>1, <1>3, <2>2, SegmentExact
    <3>2. bound = Wrap(to - from)
      BY <2>2
    <3> HIDE DEF from, to, bound
    <3>3. to - from \in Word /\ to - from \in Nat \ {0}
      BY <1>2, <3>1, WordSizeAssumption DEF Word
    <3>4. bound = to - from
      BY <3>2, <3>3, WrapWord
    <3> QED BY <3>3, <3>4, WordSizeAssumption DEF Word
  <2> QED BY <1>2, <2>1, <2>2
<1>5. DrawsUniform <=> \A v \in 0 .. bound - 1 : hits(v) = hits(0) /\ hits(v) > 0
  BY DEF DrawsUniform, c
<1> HIDE DEF bound
<1>6. PICK m \in Nat \ {0} : \A v \in 0 .. bound - 1 : hits(v) = m
  BY <1>4, DrawsFair
<1> HIDE DEF hits
<1>7. 0 \in 0 .. bound - 1
  BY <1>4
<1> QED BY <1>5, <1>6, <1>7

----------------------------------------------------------------------------
LEMMA InvInit == Init => Inv
  BY DEF Init, Inv, RequestKnown, LengthsKnown, DelaysDrawn, ShuffleTyped,
         PermutationKept, Drawing, Resolving, Empty

(* A step that leaves the parameters of a Diffusion Step alone leaves all  *)
(* that is computed from them alone.                                       *)
LEMMA SameStep ==
  ASSUME UNCHANGED <<request, lengths, index>>
  PROVE  /\ Channels' = Channels /\ Option' = Option
         /\ StepLength' = StepLength
         /\ \A c : Boundary(c)' = Boundary(c)
  BY DEF Channels, Option, StepLength, Boundary, Positions

LEMMA DeriveInv == ASSUME Inv, Derive PROVE Inv'
<1> DEFINE samples == SampleBudget(request)
<1>1. request \in Requests /\ request' = request /\ index' = index /\ index \in Nat
  BY DEF Inv, RequestKnown, LengthsKnown, Derive
<1>2. phase' \in {"step", "refused"}
  BY DEF Derive
<1>3. ASSUME phase' = "step"
      PROVE  /\ DOMAIN lengths' = ChannelsOf(StepCount(request))
             /\ \A i \in DOMAIN lengths' : lengths'[i] \in 0 .. WordSize - 2
  <2>1. /\ StepCount(request) # 0 /\ samples # Overflow
        /\ Affordable(request.channels, samples, StepCount(request), 0)
        /\ lengths' = Apportion(samples, Weights(request))
    BY <1>3 DEF Derive
  <2>2. samples \in Nat
    BY <1>1, <2>1, SampleBudgetType
  <2> HIDE DEF samples
  <2>3. 2 * samples < WordSize
    <3>1. request.channels \in Nat \ {0} /\ StepCount(request) \in Nat
      BY <1>1
    <3> QED BY <2>1, <2>2, <3>1, AffordableBound
  <2>4. samples <= WordSize - 2
    BY <2>2, <2>3, WordSizeAssumption
  <2>5. /\ DOMAIN lengths' = ChannelsOf(StepCount(request))
        /\ \A i \in DOMAIN lengths' : lengths'[i] \in 0 .. samples
    BY <1>1, <2>1, <2>2, ApportionBound
  <2> QED BY <2>2, <2>4, <2>5, WordSizeAssumption
<1>4. RequestKnown'
  BY <1>1, <1>2 DEF RequestKnown, Resolving, Drawing
<1>5. LengthsKnown'
  <2>1. \A i \in DOMAIN lengths' : lengths'[i] \in Word
    <3>1. CASE phase' = "step"
      BY <1>3, <3>1, WordSizeAssumption DEF Word
    <3>2. CASE phase' # "step"
      <4>1. lengths' = lengths
        BY <3>2 DEF Derive
      <4> QED BY <4>1 DEF Inv, LengthsKnown
    <3> QED BY <3>1, <3>2
  <2> QED BY <1>1, <1>2, <1>3, <2>1 DEF LengthsKnown, Resolving, Drawing
<1>6. DelaysDrawn' /\ ShuffleTyped' /\ PermutationKept'
  BY <1>2 DEF DelaysDrawn, ShuffleTyped, PermutationKept, Drawing
<1> QED BY <1>4, <1>5, <1>6 DEF Inv

(* A new Diffusion Step has no delays and the identity for a shuffle.      *)
LEMMA BeginStepInv == ASSUME Inv, BeginStep PROVE Inv'
<1>1. /\ request \in Requests /\ request' = request /\ lengths' = lengths
      /\ phase = "step" /\ index \in Nat
  BY DEF Inv, RequestKnown, LengthsKnown, BeginStep, Resolving
<1>2. Channels \in Nat \ {0} /\ Channels' = Channels
  BY <1>1 DEF Channels
<1>3. /\ DOMAIN lengths = ChannelsOf(StepCount(request))
      /\ \A i \in DOMAIN lengths : lengths[i] \in 0 .. WordSize - 2
      /\ \A i \in DOMAIN lengths : lengths[i] \in Word
  BY <1>1 DEF Inv, LengthsKnown, Resolving
<1>4. CASE phase' \notin Drawing
  <2>1. phase' \in {"step", "validate"} /\ index' \in Nat
    BY <1>1, <1>4 DEF BeginStep, PushBack, Drawing
  <2>2. RequestKnown'
    BY <1>1, <2>1 DEF RequestKnown, Resolving, Drawing
  <2>3. LengthsKnown'
    BY <1>1, <1>3, <1>4, <2>1 DEF LengthsKnown, Resolving
  <2>4. DelaysDrawn' /\ ShuffleTyped' /\ PermutationKept'
    BY <1>4 DEF DelaysDrawn, ShuffleTyped, PermutationKept, Drawing
  <2> QED BY <2>2, <2>3, <2>4 DEF Inv
<1>5. CASE phase' \in Drawing
  <2>1. /\ index < StepCount(request)
        /\ Derivable(Option, StepLength, Channels)
        /\ phase' = "delays" /\ delays' = Empty
        /\ permutation' = Identity(Channels) /\ position' = Channels - 1
        /\ index' = index
    BY <1>1, <1>5 DEF BeginStep, Drawing
  <2>2. Option' = Option /\ StepLength' = StepLength
    BY <1>1, <2>1, SameStep
  <2>3. RequestKnown'
    BY <1>1, <2>1 DEF RequestKnown, Resolving, Drawing
  <2>4. LengthsKnown'
    BY <1>1, <1>2, <1>3, <2>1, <2>2 DEF LengthsKnown
  <2>5. DelaysDrawn'
    <3>1. DOMAIN delays' = {} /\ ChannelsOf(0) = {}
      BY <2>1 DEF Empty, ChannelsOf
    <3>2. 0 \in 0 .. Channels' /\ 0 < Channels'
      BY <1>2
    <3> QED BY <2>1, <3>1, <3>2 DEF DelaysDrawn
  <2>6. DOMAIN permutation' = ChannelsOf(Channels)
        /\ \A c \in ChannelsOf(Channels) : permutation'[c] = c
    BY <2>1 DEF Identity
  <2>7. ShuffleTyped'
    <3>1. permutation' = [c \in ChannelsOf(Channels) |-> permutation'[c]]
      BY <2>1 DEF Identity
    <3>2. position' \in ChannelsOf(Channels)
      BY <1>2, <2>1 DEF ChannelsOf
    <3> QED BY <1>2, <3>1, <3>2 DEF ShuffleTyped
  <2>8. PermutationKept'
    BY <1>2, <2>6 DEF PermutationKept, IsPermutation
  <2> QED BY <2>3, <2>4, <2>5, <2>7, <2>8 DEF Inv
<1> QED BY <1>4, <1>5

(* One more Channel has its delay.                                         *)
LEMMA DrawDelayInv == ASSUME Inv, DrawDelay PROVE Inv'
<1>1. phase = "delays" /\ phase \in Drawing /\ phase \in Resolving
  BY DEF DrawDelay, Drawing, Resolving
<1>2. /\ request \in Requests /\ Channels \in Nat \ {0}
      /\ StepLength \in Nat
  BY <1>1, PositionsExact
<1>3. /\ Channels' = Channels /\ Option' = Option /\ StepLength' = StepLength
      /\ \A c : Boundary(c)' = Boundary(c)
  <2>1. UNCHANGED <<request, lengths, index>>
    BY DEF DrawDelay
  <2> QED BY <2>1, SameStep
<1>4. phase' \in Drawing /\ (phase' = "delays" \/ phase' # "delays")
  BY DEF DrawDelay, Drawing
<1>5. PICK k \in 0 .. Channels :
        DOMAIN delays = ChannelsOf(k) /\ (phase = "delays" <=> k < Channels)
  BY <1>1 DEF Inv, DelaysDrawn
<1>6. k \in Nat /\ k < Channels /\ k + 1 \in 0 .. Channels /\ k \in ChannelsOf(Channels)
  BY <1>1, <1>2, <1>5 DEF ChannelsOf
<1>7. Cardinality(DOMAIN delays) = k
  BY <1>5, <1>6, ChannelsFinite
<1>8. PICK delay \in DelayDraws(k) :
        delays' = [i \in ChannelsOf(k + 1) |-> IF i = k THEN delay ELSE delays[i]]
  BY <1>7 DEF DrawDelay
<1>9. /\ delay \in 0 .. StepLength
      /\ Option.strategy = "segmented-random" =>
           delay \in Boundary(k) .. Boundary(k + 1) - 1
  BY <1>1, <1>6, DelayDrawn
<1>10. phase' = "delays" <=> k + 1 < Channels
  BY <1>7 DEF DrawDelay
<1>11. \A c \in ChannelsOf(k + 1) : c = k \/ c \in DOMAIN delays
  BY <1>5, <1>6 DEF ChannelsOf
<1>12. RequestKnown'
  BY <1>2, <1>4 DEF RequestKnown, Resolving, Drawing, DrawDelay
<1>13. LengthsKnown'
  <2>1. lengths' = lengths /\ index' = index /\ request' = request
    BY DEF DrawDelay
  <2> QED BY <1>1, <1>3, <1>4, <2>1 DEF Inv, LengthsKnown
<1>14. DelaysDrawn'
  <2>1. \E n \in 0 .. Channels' :
          DOMAIN delays' = ChannelsOf(n) /\ (phase' = "delays" <=> n < Channels')
    BY <1>3, <1>6, <1>8, <1>10
  <2>2. \A c \in DOMAIN delays' : delays'[c] \in 0 .. StepLength'
    BY <1>1, <1>3, <1>8, <1>9, <1>11 DEF Inv, DelaysDrawn
  <2>3. Option'.strategy = "segmented-random" =>
          \A c \in DOMAIN delays' : delays'[c] \in Boundary(c)' .. Boundary(c + 1)' - 1
    <3>1. SUFFICES ASSUME Option.strategy = "segmented-random", NEW c \in ChannelsOf(k + 1)
                   PROVE  delays'[c] \in Boundary(c) .. Boundary(c + 1) - 1
      BY <1>3, <1>8
    <3>2. CASE c = k
      BY <1>8, <1>9, <3>1, <3>2
    <3>3. CASE c # k
      BY <1>1, <1>8, <1>11, <3>1, <3>3 DEF Inv, DelaysDrawn
    <3> QED BY <3>2, <3>3
  <2> QED BY <2>1, <2>2, <2>3 DEF DelaysDrawn
<1>15. ShuffleTyped' /\ PermutationKept'
  <2>1. permutation' = permutation /\ position' = position
    BY DEF DrawDelay
  <2> QED BY <1>1, <1>3, <2>1 DEF Inv, ShuffleTyped, PermutationKept, Drawing
<1> QED BY <1>12, <1>13, <1>14, <1>15 DEF Inv

(* A swap of two Channels keeps a permutation.                             *)
LEMMA SwapPermutes ==
  ASSUME NEW n, NEW p, IsPermutation(p, n), p = [c \in ChannelsOf(n) |-> p[c]],
         NEW i \in ChannelsOf(n), NEW j \in ChannelsOf(n)
  PROVE  LET s == Swapped(p, i, j)
         IN  IsPermutation(s, n) /\ s = [c \in ChannelsOf(n) |-> s[c]]
<1> DEFINE S == ChannelsOf(n)
           s == Swapped(p, i, j)
<1>1. /\ DOMAIN p = S /\ {p[c] : c \in DOMAIN p} = S
      /\ p = [c \in S |-> p[c]] /\ i \in S /\ j \in S
  BY DEF IsPermutation
<1> HIDE DEF S
<1>2. s = [c \in S |-> IF c = j THEN p[i] ELSE IF c = i THEN p[j] ELSE p[c]]
  BY <1>1 DEF Swapped
<1> HIDE DEF s
<1>3. DOMAIN s = S /\ s = [c \in S |-> s[c]]
  BY <1>2
<1>4. \A c \in S : s[c] \in S
  BY <1>1, <1>2
<1>5. ASSUME NEW v \in S PROVE \E c \in S : s[c] = v
  <2>1. PICK c \in S : p[c] = v
    BY <1>1
  <2>2. CASE c = i
    BY <1>1, <1>2, <2>1, <2>2
  <2>3. CASE c = j /\ c # i
    BY <1>1, <1>2, <2>1, <2>3
  <2>4. CASE c # i /\ c # j
    BY <1>1, <1>2, <2>1, <2>4
  <2> QED BY <2>2, <2>3, <2>4
<1>6. {s[c] : c \in DOMAIN s} = S
  <2>1. {s[c] : c \in DOMAIN s} = {s[c] : c \in S}
    BY <1>3
  <2>2. {s[c] : c \in S} \subseteq S
    BY <1>4
  <2>3. S \subseteq {s[c] : c \in S}
    BY <1>5
  <2> QED BY <2>1, <2>2, <2>3
<1> QED BY <1>3, <1>6 DEF s, S, IsPermutation

(* A shuffle in progress stays one, and each index drawn is in range.     *)
LEMMA ShuffleInv == ASSUME Inv, Shuffle PROVE Inv'
<1>1. phase = "shuffle" /\ phase \in Drawing /\ phase \in Resolving
  BY DEF Shuffle, Drawing, Resolving
<1>2. /\ request \in Requests /\ Channels \in Nat \ {0}
      /\ Channels * Channels <= WordSize
  BY <1>1, PositionsExact
<1>3. /\ Channels' = Channels /\ Option' = Option /\ StepLength' = StepLength
      /\ \A c : Boundary(c)' = Boundary(c)
  <2>1. UNCHANGED <<request, lengths, index>>
    BY DEF Shuffle
  <2> QED BY <2>1, SameStep
<1>4. /\ phase' \in {"shuffle", "modulate"} /\ phase' \in Drawing
      /\ lengths' = lengths /\ index' = index /\ request' = request
      /\ delays' = delays
  BY <1>1 DEF Shuffle, Drawing
<1>5. RequestKnown'
  BY <1>2, <1>4 DEF RequestKnown, Resolving, Drawing
<1>6. LengthsKnown'
  BY <1>1, <1>3, <1>4 DEF Inv, LengthsKnown
<1>7. DelaysDrawn'
  BY <1>1, <1>3, <1>4 DEF Inv, DelaysDrawn
<1>8. /\ permutation = [c \in ChannelsOf(Channels) |-> permutation[c]]
      /\ position \in ChannelsOf(Channels)
      /\ DOMAIN permutation = ChannelsOf(Channels)
      /\ {permutation[c] : c \in DOMAIN permutation} = ChannelsOf(Channels)
  BY <1>1 DEF Inv, ShuffleTyped, PermutationKept, IsPermutation
<1>9. CASE permutation' = permutation /\ position' = position
  <2>1. ShuffleTyped'
    <3>1. permutation' = [c \in ChannelsOf(Channels) |-> permutation'[c]]
      BY <1>8, <1>9
    <3>2. position' \in ChannelsOf(Channels)
      BY <1>8, <1>9
    <3> QED BY <1>3, <3>1, <3>2 DEF ShuffleTyped
  <2>2. PermutationKept'
    BY <1>3, <1>8, <1>9 DEF PermutationKept, IsPermutation
  <2> QED BY <1>5, <1>6, <1>7, <2>1, <2>2 DEF Inv
<1>10. CASE ~(permutation' = permutation /\ position' = position)
  <2>1. /\ position > 0 /\ position' = position - 1
        /\ \E selected \in Draws(Wrap(position + 1)) :
             permutation' = Swapped(permutation, position, selected)
    BY <1>10 DEF Shuffle
  <2>2. PICK selected \in Draws(Wrap(position + 1)) :
          permutation' = Swapped(permutation, position, selected)
    BY <2>1
  <2>3. position \in 1 .. Channels - 1 /\ position - 1 \in ChannelsOf(Channels)
    <3>1. position \in 0 .. Channels - 1
      BY <1>8 DEF ChannelsOf
    <3>2. position \in Int
      BY <1>2, <3>1
    <3> QED BY <1>2, <2>1, <3>1, <3>2 DEF ChannelsOf
  <2>4. Wrap(position + 1) = position + 1
    <3>1. Channels * Channels >= 2 * Channels
      <4>1. Channels >= 2
        BY <1>2, <2>3
      <4> QED BY <1>2, <4>1, SMT
    <3>2. position + 1 \in Word
      <4> DEFINE square == Channels * Channels
      <4>1. square \in Int /\ square >= 2 * Channels /\ square <= WordSize
        BY <1>2, <3>1
      <4> HIDE DEF square
      <4>2. Channels \in Nat /\ position \in Nat /\ position <= Channels - 1
        BY <1>2, <2>3
      <4>3. position + 1 \in Nat /\ position + 1 <= WordSize - 1
        BY <4>1, <4>2, <2>3, WordSizeAssumption
      <4> QED BY <4>3, WordSizeAssumption DEF Word
    <3> QED BY <3>2, WrapWord
  <2>5. selected \in 0 .. position
    <3>1. position + 1 \in Nat \ {0}
      BY <2>3
    <3>2. selected \in 0 .. (position + 1) - 1
      BY <2>2, <2>4, <3>1, DrawsBelow
    <3> QED BY <2>3, <3>2
  <2>6. selected \in ChannelsOf(Channels)
    BY <1>2, <2>3, <2>5 DEF ChannelsOf
  <2>7. LET s == Swapped(permutation, position, selected)
        IN  IsPermutation(s, Channels) /\ s = [c \in ChannelsOf(Channels) |-> s[c]]
    <3>1. IsPermutation(permutation, Channels)
      BY <1>1 DEF Inv, PermutationKept
    <3> QED BY <1>8, <2>6, <3>1, SwapPermutes
  <2>8. ShuffleTyped'
    BY <1>3, <2>1, <2>2, <2>3, <2>7 DEF ShuffleTyped
  <2>9. PermutationKept'
    BY <1>3, <2>2, <2>7 DEF PermutationKept
  <2> QED BY <1>5, <1>6, <1>7, <2>8, <2>9 DEF Inv
<1> QED BY <1>5, <1>6, <1>7, <1>9, <1>10 DEF Inv

(* The rest leaves the drawing phases.                                     *)
LEMMA ModulateInv == ASSUME Inv, Modulate PROVE Inv'
<1>1. phase = "modulate" /\ phase \in Resolving /\ request \in Requests /\ index \in Nat
  BY DEF Inv, RequestKnown, LengthsKnown, Modulate, Drawing, Resolving
<1>2. /\ phase' \in {"step", "refused"} /\ index' \in Nat
      /\ request' = request /\ lengths' = lengths
  <2>1. \/ phase' = "step" /\ index' = index + 1
        \/ phase' = "refused" /\ index' = index
    BY DEF Modulate, PushBack
  <2> QED BY <1>1, <2>1 DEF Modulate
<1>3. RequestKnown'
  BY <1>1, <1>2 DEF RequestKnown, Resolving, Drawing
<1>4. LengthsKnown'
  BY <1>1, <1>2 DEF Inv, LengthsKnown, Resolving, Drawing
<1>5. DelaysDrawn' /\ ShuffleTyped' /\ PermutationKept'
  BY <1>2 DEF DelaysDrawn, ShuffleTyped, PermutationKept, Drawing
<1> QED BY <1>3, <1>4, <1>5 DEF Inv

LEMMA ValidateInv == ASSUME Inv, Validate PROVE Inv'
<1>1. /\ phase' \in {"accepted", "refused"}
      /\ UNCHANGED <<request, lengths, index>>
  BY DEF Validate
<1>2. RequestKnown'
  BY <1>1 DEF RequestKnown, Resolving, Drawing
<1>3. LengthsKnown'
  BY <1>1 DEF Inv, LengthsKnown, Resolving, Drawing
<1>4. DelaysDrawn' /\ ShuffleTyped' /\ PermutationKept'
  BY <1>1 DEF DelaysDrawn, ShuffleTyped, PermutationKept, Drawing
<1> QED BY <1>2, <1>3, <1>4 DEF Inv

LEMMA InvNext == Inv /\ [Next]_vars => Inv'
<1> SUFFICES ASSUME Inv, [Next]_vars PROVE Inv'
  OBVIOUS
<1>1. CASE Derive
  BY <1>1, DeriveInv
<1>2. CASE BeginStep
  BY <1>2, BeginStepInv
<1>3. CASE DrawDelay
  BY <1>3, DrawDelayInv
<1>4. CASE Shuffle
  BY <1>4, ShuffleInv
<1>5. CASE Modulate
  BY <1>5, ModulateInv
<1>6. CASE Validate
  BY <1>6, ValidateInv
<1>7. CASE UNCHANGED vars
  <2>1. /\ UNCHANGED <<request, phase, lengths, index, delays, permutation, position>>
        /\ UNCHANGED <<request, lengths, index>>
    BY <1>7 DEF vars
  <2>2. /\ Channels' = Channels /\ Option' = Option /\ StepLength' = StepLength
        /\ \A c : Boundary(c)' = Boundary(c)
    BY <2>1, SameStep
  <2> QED BY <2>1, <2>2 DEF Inv, RequestKnown, LengthsKnown, DelaysDrawn,
                         ShuffleTyped, PermutationKept
<1> QED BY <1>1, <1>2, <1>3, <1>4, <1>5, <1>6, <1>7 DEF Next

(* What the invariant says, property by property.                          *)
LEMMA InvType == Inv => TypeOK
<1> SUFFICES ASSUME Inv PROVE TypeOK
  OBVIOUS
<1>1. ASSUME phase \in Drawing
      PROVE  /\ index \in DOMAIN lengths
             /\ DOMAIN delays = ChannelsOf(Cardinality(DOMAIN delays))
             /\ phase = "delays" <=> DOMAIN delays # ChannelsOf(Channels)
  <2>1. phase \in Resolving /\ request \in Requests /\ Channels \in Nat \ {0}
    BY <1>1, PositionsExact DEF Resolving
  <2>2. index \in DOMAIN lengths
    <3>1. StepCount(request) \in Nat
      BY <2>1
    <3> QED BY <1>1, <2>1, <3>1 DEF Inv, LengthsKnown, ChannelsOf
  <2>3. PICK k \in 0 .. Channels :
          DOMAIN delays = ChannelsOf(k) /\ (phase = "delays" <=> k < Channels)
    BY <1>1 DEF Inv, DelaysDrawn
  <2>4. Cardinality(ChannelsOf(k)) = k /\ Cardinality(ChannelsOf(Channels)) = Channels
    BY <2>1, ChannelsFinite
  <2>5. k < Channels <=> k # Channels
    BY <2>1
  <2> QED BY <2>2, <2>3, <2>4, <2>5
<1>2. \A i \in DOMAIN lengths : lengths[i] \in Word
  BY DEF Inv, LengthsKnown
<1>3. phase \in Drawing => \A c \in DOMAIN delays : delays[c] \in 0 .. StepLength
  BY DEF Inv, DelaysDrawn
<1> QED BY <1>1, <1>2, <1>3 DEF Inv, RequestKnown, TypeOK, Drawing

LEMMA InvSegments == Inv => SegmentsTile
<1> SUFFICES ASSUME Inv, phase = "delays", Option.strategy = "segmented-random"
             PROVE  /\ Boundary(0) = 0 /\ Boundary(Channels) = StepLength + 1
                    /\ \A c \in ChannelsOf(Channels) : Boundary(c) < Boundary(c + 1)
                    /\ \A c \in DOMAIN delays : delays[c] \in Boundary(c) .. Boundary(c + 1) - 1
  BY DEF SegmentsTile
<1>1. phase \in Drawing
  BY DEF Drawing
<1>2. /\ Channels \in Nat \ {0} /\ Channels * Channels <= WordSize
      /\ Positions = StepLength + 1 /\ Positions \in Word
  BY <1>1, PositionsExact
<1>3. Boundary(0) = 0 /\ Boundary(Channels) = StepLength + 1
  BY <1>2, BoundaryEnds DEF Boundary
<1>4. \A c \in ChannelsOf(Channels) : Boundary(c) < Boundary(c + 1)
  BY <1>1, SegmentExact
<1>5. \A c \in DOMAIN delays : delays[c] \in Boundary(c) .. Boundary(c + 1) - 1
  BY <1>1 DEF Inv, DelaysDrawn
<1> QED BY <1>3, <1>4, <1>5

LEMMA InvAlways == Spec => []Inv
  BY InvInit, InvNext, PTL DEF Spec

(* Lengths of steps are words, whatever the request, and every delay drawn *)
(* for a Channel is one the step's delay line can hold.                    *)
THEOREM TypeCorrect == Spec => []TypeOK
  BY InvAlways, InvType, PTL

(* The segments of every Diffusion Step tile its positions, and each       *)
(* Channel's delay lies in its own, though all of it is done on words.     *)
THEOREM SegmentsCorrect == Spec => []SegmentsTile
  BY InvAlways, InvSegments, PTL

(* No random delay is likelier than another: rejecting the raw draws under *)
(* the threshold leaves every position as many of them, whatever the width *)
(* of a word and the number of positions.                                  *)
THEOREM DrawsAreUniform == Spec => []DrawsUniform
  BY InvAlways, InvDraws, PTL

(* Every shuffle reached by swaps loses and doubles no Channel.            *)
THEOREM ShuffleCorrect == Spec => []PermutationKept
<1>1. Inv => PermutationKept
  BY DEF Inv
<1> QED BY <1>1, InvAlways, PTL

----------------------------------------------------------------------------
(* The invariant goes on, with what is in the document.  A request that is *)
(* being resolved has a total of which half a word is free, shared without *)
(* loss among its steps ...                                                *)
Derived == request # None /\ phase \notin {"derive", "refused"}

Ended == phase \in {"validate", "accepted"}

RequestHeld ==
  /\ request \in Requests \cup {None}
  /\ request # None =>
       document = [channels |-> request.channels, total |-> document.total,
                   steps |-> document.steps]
  /\ phase = "derive" => document.steps = << >> /\ index = 0

Time == Part(lengths, ChannelsOf(StepCount(request)))

TimeShared ==
  Derived =>
    /\ StepCount(request) # 0 /\ Time \in Nat \ {0} /\ 2 * Time < WordSize
    /\ lengths = [i \in ChannelsOf(StepCount(request)) |-> lengths[i]]
    /\ \A i \in ChannelsOf(StepCount(request)) : lengths[i] \in 0 .. Time
    /\ document.total = IF Ended THEN Wrap(Time + Reach(document)) ELSE Time

(* ... the step being drawn is as its strategy says ...                    *)
AsAsked ==
  phase \in Drawing =>
    /\ delays = [c \in DOMAIN delays |-> delays[c]]
    /\ Option.strategy = "even" =>
         \A c \in DOMAIN delays : delays[c] = EvenDelay(StepLength, Channels, c)
    /\ ~Option.shuffle => permutation = Identity(Channels) /\ phase # "shuffle"

(* ... the steps so far are as requested, and those that could be derived  *)
(* are what a validator wants ...                                          *)
Made(step, option, n, length) ==
  /\ step.length = length /\ step.strategy = option.strategy /\ step.mix = option.mix
  /\ step.excursion = option.excursion
  /\ step.buffers = [c \in DOMAIN step.buffers |-> step.buffers[c]]
  /\ IF Derivable(option, length, n)
     THEN /\ \A c \in ChannelsOf(n) : step.delays[c] \in Nat
          /\ ValidDelays(step, n) /\ IsPermutation(step.permutation, n)
          /\ step.shuffle \/ step.permutation = Identity(n)
          /\ ValidModulation(step, n)
     ELSE step.mask = {}

StepsMade ==
  Derived =>
    /\ document.steps = [k \in 1 .. index |-> document.steps[k]]
    /\ index <= StepCount(request) /\ (Ended => index = StepCount(request))
    /\ \A k \in 1 .. index :
         Made(document.steps[k], request.step[k], Channels, lengths[k - 1])

(* ... and what is accepted has been validated.                            *)
Validated == phase = "accepted" => ValidDocument(document)

Resolved == RequestHeld /\ TimeShared /\ AsAsked /\ StepsMade /\ Validated

LEMMA RequestIsOne ==
  ASSUME RequestHeld, request # None
  PROVE  request \in Requests
  BY DEF RequestHeld

LEMMA RequestsNotNone == \A r \in Requests : r # None
  BY DEF None

LEMMA ResolvedInit == Init => Resolved
<1> SUFFICES ASSUME Init PROVE Resolved
  OBVIOUS
<1>1. CASE phase = "derive"
  BY <1>1, RequestsNotNone DEF Init, Resolved, RequestHeld, TimeShared, AsAsked, StepsMade,
     Validated, Derived, Drawing
<1>2. CASE phase = "validate" /\ request = None
  BY <1>2 DEF Init, Resolved, RequestHeld, TimeShared, AsAsked, StepsMade,
     Validated, Derived, Drawing
<1> QED BY <1>1, <1>2 DEF Init

(* The steps and the total of a document do not depend on each other.      *)
LEMMA ReachOfSteps ==
  ASSUME NEW d, NEW e, d.steps = e.steps
  PROVE  Reach(d) = Reach(e)
  BY DEF Reach, ActiveSteps

LEMMA DeriveResolved == ASSUME Inv, Resolved, Derive PROVE Resolved'
<1> DEFINE samples == SampleBudget(request)
           n == StepCount(request)
<1>1. /\ request \in Requests /\ request' = request /\ index' = index /\ index = 0
      /\ document.steps = << >> /\ phase' \in {"step", "refused"} /\ request # None
      /\ document = [channels |-> request.channels, total |-> document.total,
                     steps |-> document.steps]
  BY RequestsNotNone DEF Inv, RequestKnown, Derive, Resolved, RequestHeld
<1>2. AsAsked' /\ Validated' /\ ~Ended'
  BY <1>1 DEF AsAsked, Validated, Drawing, Ended
<1>3. CASE phase' = "refused"
  <2>1. document' = document
    BY <1>3 DEF Derive
  <2> QED BY <1>1, <1>2, <1>3, <2>1 DEF Resolved, RequestHeld, TimeShared, StepsMade, Derived
<1>4. CASE phase' = "step"
  <2>1. /\ n \in Nat \ {0} /\ samples # Overflow
        /\ Affordable(request.channels, samples, n, 0)
        /\ lengths' = Apportion(samples, Weights(request))
        /\ document' = [document EXCEPT !.total = samples]
    BY <1>1, <1>4 DEF Derive
  <2>2. samples \in Nat \ {0}
    <3>1. samples # 0
      BY DEF SampleBudget, Overflow
    <3> QED BY <1>1, <2>1, <3>1, SampleBudgetType
  <2> HIDE DEF samples
  <2>3. 2 * samples < WordSize
    BY <1>1, <2>1, <2>2, AffordableBound
  <2>4. /\ lengths' = [i \in ChannelsOf(n) |-> lengths'[i]]
        /\ Part(lengths', ChannelsOf(n)) = samples
        /\ \A i \in ChannelsOf(n) : lengths'[i] \in 0 .. samples
    BY <1>1, <2>1, <2>2, ApportionBound
  <2>5. document' = [channels |-> request.channels, total |-> samples, steps |-> << >>]
    BY <1>1, <2>1
  <2>6. RequestHeld'
    BY <1>1, <1>4, <2>5 DEF RequestHeld
  <2>7. TimeShared'
    <3>1. Time' = samples
      BY <1>1, <2>4 DEF Time
    <3> QED BY <1>1, <1>2, <2>1, <2>2, <2>3, <2>4, <2>5, <3>1 DEF TimeShared
  <2>8. StepsMade'
    <3>1. << >> = [k \in 1 .. 0 |-> << >>[k]]
      OBVIOUS
    <3> QED BY <1>1, <1>2, <2>1, <2>5, <3>1 DEF StepsMade
  <2> QED BY <1>2, <2>6, <2>7, <2>8 DEF Resolved
<1> QED BY <1>1, <1>3, <1>4

(* One more step, made as it was asked for.                                *)
LEMMA OneMoreStep ==
  ASSUME Inv, Resolved, phase \in Resolving, index < StepCount(request), NEW step,
         PushBack(step), UNCHANGED <<request, lengths>>, phase' \in Resolving \ Drawing,
         Made(step, Option, Channels, StepLength)
  PROVE  Resolved'
<1>1. /\ request \in Requests /\ request # None /\ index \in Nat /\ StepCount(request) \in Nat
      /\ phase \notin {"derive", "refused"} /\ ~Ended
      /\ phase' \notin {"derive", "refused"} /\ ~Ended'
      /\ request' = request /\ lengths' = lengths
  BY RequestsNotNone DEF Inv, RequestKnown, LengthsKnown, Resolving, Drawing, Ended
<1>2. /\ document = [channels |-> request.channels, total |-> document.total,
                     steps |-> document.steps]
      /\ document.steps = [k \in 1 .. index |-> document.steps[k]]
  BY <1>1 DEF Resolved, RequestHeld, StepsMade, Derived
<1>3. /\ index' = index + 1
      /\ document' = [channels |-> request.channels, total |-> document.total,
                      steps |-> Append(document.steps, step)]
  <2> DEFINE longer == Append(document.steps, step)
  <2>1. document' = [document EXCEPT !.steps = longer] /\ index' = index + 1
    BY DEF PushBack
  <2> HIDE DEF longer
  <2>2. document' = [channels |-> request.channels, total |-> document.total, steps |-> longer]
    BY <1>2, <2>1
  <2> QED BY <2>1, <2>2 DEF longer
<1>4. RequestHeld'
  BY <1>1, <1>3 DEF Resolved, RequestHeld
<1>5. TimeShared'
  <2>1. Time' = Time
    BY <1>1 DEF Time
  <2> QED BY <1>1, <1>3, <2>1 DEF Resolved, TimeShared, Derived
<1>6. StepsMade'
  <2>1. /\ document'.steps = [k \in 1 .. index + 1 |-> document'.steps[k]]
        /\ document'.steps[index + 1] = step
        /\ \A k \in 1 .. index : document'.steps[k] = document.steps[k]
    <3> DEFINE s == document.steps
    <3>1. Len(s) = index /\ DOMAIN s = 1 .. index
      BY <1>1, <1>2
    <3>2. document'.steps = Append(s, step)
      BY <1>3
    <3> DEFINE Steps == {s[k] : k \in 1 .. index} \cup {step}
    <3>3. s \in Seq(Steps) /\ step \in Steps
      <4>1. s \in [1 .. index -> Steps]
        BY <1>2
      <4> HIDE DEF s, Steps
      <4>2. s \in Seq(Steps)
        BY <1>1, <4>1
      <4> QED BY <4>2 DEF Steps
    <3> HIDE DEF Steps
    <3> DEFINE longer == Append(s, step)
    <3>4. /\ longer \in Seq(Steps) /\ Len(longer) = index + 1 /\ longer[index + 1] = step
          /\ \A k \in 1 .. index : longer[k] = s[k]
      <4> HIDE DEF s
      <4> QED BY <1>1, <3>1, <3>3
    <3>5. longer = [k \in 1 .. index + 1 |-> longer[k]]
      <4> HIDE DEF longer
      <4> QED BY <3>4
    <3> HIDE DEF longer
    <3> QED BY <3>2, <3>4, <3>5 DEF longer
  <2>2. Channels' = Channels
    BY <1>1 DEF Channels
  <2>3. \A k \in 1 .. index :
          Made(document.steps[k], request.step[k], Channels, lengths[k - 1])
    BY <1>1 DEF Resolved, StepsMade, Derived
  <2>4. Made(step, request.step[index + 1], Channels, lengths[(index + 1) - 1])
    <3>1. (index + 1) - 1 = index
      BY <1>1
    <3> QED BY <3>1 DEF Option, StepLength
  <2>5. \A k \in 1 .. index' :
          Made(document'.steps[k], request'.step[k], Channels', lengths'[k - 1])
    BY <1>1, <1>3, <2>1, <2>2, <2>3, <2>4
  <2>6. index' <= StepCount(request')
    BY <1>1, <1>3
  <2> QED BY <1>1, <1>3, <2>1, <2>5, <2>6 DEF StepsMade
<1>7. AsAsked' /\ Validated'
  BY <1>1 DEF AsAsked, Validated, Ended, Resolving, Drawing
<1> QED BY <1>4, <1>5, <1>6, <1>7 DEF Resolved

(* A step in progress leaves the document alone.                           *)
LEMMA SameDocument ==
  ASSUME Resolved, UNCHANGED <<request, lengths, document, index>>,
         phase \in Resolving, phase' \in Resolving \cup {"refused"}
  PROVE  RequestHeld' /\ TimeShared' /\ StepsMade' /\ Validated'
<1>1. /\ phase \notin {"derive", "refused"} /\ ~Ended /\ ~Ended'
      /\ phase' # "derive" /\ phase' # "accepted"
  BY DEF Resolving, Drawing, Ended
<1>2. Time' = Time /\ Channels' = Channels
  BY DEF Time, Channels
<1>3. RequestHeld' /\ Validated'
  BY <1>1 DEF Resolved, RequestHeld, Validated
<1>4. TimeShared'
  BY <1>1, <1>2 DEF Resolved, TimeShared, Derived
<1>5. StepsMade'
  BY <1>1, <1>2 DEF Resolved, StepsMade, Derived
<1> QED BY <1>3, <1>4, <1>5

LEMMA BeginStepResolved == ASSUME Inv, Resolved, BeginStep PROVE Resolved'
<1>1. /\ request \in Requests /\ request' = request /\ lengths' = lengths
      /\ phase = "step" /\ phase \in Resolving /\ request # None
      /\ index \in Nat /\ StepCount(request) \in Nat
  BY RequestsNotNone DEF Inv, RequestKnown, LengthsKnown, BeginStep, Resolving
<1>2. CASE index = StepCount(request)
  <2>1. /\ document' = [document EXCEPT !.total = Wrap(@ + Reach(document))]
        /\ phase' = "validate" /\ index' = index
    BY <1>1, <1>2 DEF BeginStep
  <2>2. document = [channels |-> request.channels, total |-> document.total,
                    steps |-> document.steps]
    BY <1>1 DEF Resolved, RequestHeld
  <2>3. document' = [channels |-> request.channels,
                     total |-> Wrap(document.total + Reach(document)),
                     steps |-> document.steps]
    BY <2>1, <2>2
  <2>4. Reach(document') = Reach(document) /\ Reach(document)' = Reach(document')
    <3>1. document'.steps = document.steps
      BY <2>3
    <3> QED BY <3>1, ReachOfSteps DEF Reach, ActiveSteps
  <2>5. Time' = Time /\ Channels' = Channels
    BY <1>1 DEF Time, Channels
  <2>6. document.total = Time
    BY <1>1 DEF Resolved, TimeShared, Derived, Ended
  <2>7. RequestHeld'
    BY <1>1, <2>1, <2>3 DEF Resolved, RequestHeld
  <2>8. TimeShared'
    <3>1. document'.total = Wrap(Time + Reach(document'))
      BY <2>3, <2>4, <2>6
    <3> QED BY <1>1, <2>1, <2>5, <3>1 DEF Resolved, TimeShared, Derived, Ended
  <2>9. StepsMade'
    <3>1. document'.steps = document.steps
      BY <2>3
    <3> QED BY <1>1, <1>2, <2>1, <2>5, <3>1 DEF Resolved, StepsMade, Derived, Ended
  <2>10. AsAsked' /\ Validated'
    BY <2>1 DEF AsAsked, Validated, Drawing
  <2> QED BY <2>7, <2>8, <2>9, <2>10 DEF Resolved
<1>3. CASE index < StepCount(request) /\ Derivable(Option, StepLength, Channels)
  <2>1. /\ phase' = "delays" /\ delays' = Empty /\ permutation' = Identity(Channels)
        /\ UNCHANGED <<document, index>>
    BY <1>1, <1>3 DEF BeginStep
  <2>2. RequestHeld' /\ TimeShared' /\ StepsMade' /\ Validated'
    BY <1>1, <2>1, SameDocument DEF Resolving, Drawing
  <2>3. AsAsked'
    <3>1. Channels' = Channels
      BY <1>1 DEF Channels
    <3> QED BY <2>1, <3>1 DEF AsAsked, Empty
  <2> QED BY <2>2, <2>3 DEF Resolved
<1>4. CASE index < StepCount(request) /\ ~Derivable(Option, StepLength, Channels)
  <2> DEFINE step == Step(Empty, Empty, {}, Empty)
  <2>1. PushBack(step) /\ phase' = "step"
    BY <1>1, <1>4 DEF BeginStep
  <2>2. Made(step, Option, Channels, StepLength)
    BY <1>4 DEF Made, Step, Empty
  <2> HIDE DEF step
  <2> QED BY <1>1, <1>4, <2>1, <2>2, OneMoreStep DEF Resolving, Drawing
<1> QED BY <1>2, <1>3, <1>4 DEF BeginStep

LEMMA DrawDelayResolved == ASSUME Inv, Resolved, DrawDelay PROVE Resolved'
<1>1. /\ phase = "delays" /\ phase \in Drawing /\ phase \in Resolving
      /\ phase' \in Drawing /\ UNCHANGED <<request, lengths, document, index, permutation>>
  BY DEF DrawDelay, Drawing, Resolving
<1>2. RequestHeld' /\ TimeShared' /\ StepsMade' /\ Validated'
  BY <1>1, SameDocument DEF Resolving
<1>3. PICK k \in 0 .. Channels :
        DOMAIN delays = ChannelsOf(k) /\ (phase = "delays" <=> k < Channels)
  BY <1>1 DEF Inv, DelaysDrawn
<1>4. Channels \in Nat \ {0} /\ k \in Nat /\ Cardinality(DOMAIN delays) = k
  BY <1>1, <1>3, PositionsExact, ChannelsFinite
<1>5. PICK delay \in DelayDraws(k) :
        delays' = [i \in ChannelsOf(k + 1) |-> IF i = k THEN delay ELSE delays[i]]
  BY <1>4 DEF DrawDelay
<1>6. Channels' = Channels /\ Option' = Option /\ StepLength' = StepLength
  BY <1>1, SameStep
<1>7. \A c \in ChannelsOf(k + 1) : c = k \/ c \in DOMAIN delays
  BY <1>3, <1>4 DEF ChannelsOf
<1>8. Option.strategy = "even" => delay = EvenDelay(StepLength, Channels, k)
  BY <1>5 DEF DelayDraws
<1>9. AsAsked'
  <2>1. ~Option.shuffle => phase' # "shuffle" /\ permutation' = Identity(Channels)
    BY <1>1 DEF DrawDelay, Resolved, AsAsked
  <2>2. Option.strategy = "even" =>
          \A c \in DOMAIN delays' : delays'[c] = EvenDelay(StepLength, Channels, c)
    BY <1>1, <1>5, <1>7, <1>8 DEF Resolved, AsAsked
  <2>3. delays' = [c \in DOMAIN delays' |-> delays'[c]]
    BY <1>5
  <2> QED BY <1>6, <2>1, <2>2, <2>3 DEF AsAsked
<1> QED BY <1>2, <1>9 DEF Resolved

LEMMA ShuffleResolved == ASSUME Inv, Resolved, Shuffle PROVE Resolved'
<1>1. /\ phase = "shuffle" /\ phase \in Drawing /\ phase \in Resolving
      /\ phase' \in Drawing /\ UNCHANGED <<request, lengths, document, index, delays>>
  BY DEF Shuffle, Drawing, Resolving
<1>2. RequestHeld' /\ TimeShared' /\ StepsMade' /\ Validated'
  BY <1>1, SameDocument DEF Resolving
<1>3. Channels' = Channels /\ Option' = Option /\ StepLength' = StepLength
  BY <1>1, SameStep
<1>4. AsAsked'
  BY <1>1, <1>3 DEF Resolved, AsAsked
<1> QED BY <1>2, <1>4 DEF Resolved

(* The validator finds the delays that were drawn to be as their strategy  *)
(* says.                                                                   *)
LEMMA DrawnAreValid ==
  ASSUME Inv, Resolved, phase = "modulate", NEW step,
         step.length = StepLength, step.strategy = Option.strategy, step.delays = delays
  PROVE  ValidDelays(step, Channels)
<1> DEFINE n == Channels
           B(k) == PartitionBoundary(Positions, n, k)
           holders(k) == {c \in ChannelsOf(n) : delays[c] >= B(k) /\ delays[c] < B(k + 1)}
<1>1. phase \in Drawing
  BY DEF Drawing
<1>2. /\ n \in Nat \ {0} /\ n * n <= WordSize
      /\ StepLength \in Nat /\ StepLength \in Word
      /\ Positions = StepLength + 1 /\ Positions \in Word
      /\ Option.strategy \in {"segmented-random", "uniform-random", "even"}
      /\ NeedsDistinctPositions(Option.strategy) => n <= Positions
  BY <1>1, PositionsExact
<1>3. DOMAIN delays = ChannelsOf(n)
  BY <1>1, <1>2 DEF Inv, DelaysDrawn
<1>4. \A c \in ChannelsOf(n) : delays[c] \in 0 .. StepLength
  BY <1>1, <1>3 DEF Inv, DelaysDrawn
<1>5. Wrap(step.length + 1) = Positions
  BY DEF Positions
<1>6. \A c \in ChannelsOf(n) : c \in 0 .. n - 1 /\ c \in Nat /\ c \in 0 .. n /\ c + 1 \in 0 .. n
  BY <1>2 DEF ChannelsOf
<1>7. CASE Option.strategy = "segmented-random"
  <2>1. \A c \in ChannelsOf(n) : delays[c] \in B(c) .. B(c + 1) - 1
    BY <1>1, <1>3, <1>7 DEF Inv, DelaysDrawn, Boundary
  <2>2. n <= Positions
    BY <1>2, <1>7 DEF NeedsDistinctPositions
  <2>3. \A k \in 0 .. n : B(k) \in Nat
    BY <1>2, BoundaryExact
  <2>4. ASSUME NEW c \in ChannelsOf(n), NEW e \in ChannelsOf(n), c < e
        PROVE  B(c + 1) <= B(e)
    <3>1. CASE e = c + 1
      BY <1>6, <2>3, <3>1
    <3>2. CASE e # c + 1
      <4>1. c + 1 \in 0 .. n /\ e \in 0 .. n /\ c + 1 < e
        BY <1>6, <2>4, <3>2
      <4>2. B(c + 1) < B(e)
        BY <1>2, <2>2, <4>1, BoundaryIncreases
      <4> QED BY <2>3, <4>1, <4>2
    <3> QED BY <3>1, <3>2
  <2>5. \A c \in ChannelsOf(n) : B(c) \in Nat /\ B(c + 1) \in Nat
    BY <1>6, <2>3
  <2> HIDE DEF B
  <2>6. ASSUME NEW c \in ChannelsOf(n), NEW e \in ChannelsOf(n), c # e
        PROVE  delays[c] # delays[e] /\ ~(delays[c] >= B(e) /\ delays[c] < B(e + 1))
    <3>1. c < e \/ e < c
      BY <1>6, <2>6
    <3>2. c < e => B(c + 1) <= B(e)
      BY <2>4
    <3>3. e < c => B(e + 1) <= B(c)
      BY <2>4
    <3>4. delays[c] \in B(c) .. B(c + 1) - 1 /\ delays[e] \in B(e) .. B(e + 1) - 1
      BY <2>1
    <3> QED BY <2>5, <3>1, <3>2, <3>3, <3>4
  <2>7. ASSUME NEW k \in ChannelsOf(n) PROVE Cardinality(holders(k)) = 1
    <3>1. delays[k] >= B(k) /\ delays[k] < B(k + 1)
      BY <2>1, <2>5
    <3>2. holders(k) = {k}
      BY <2>6, <3>1
    <3> QED BY <3>2, FS_Singleton
  <2> QED BY <1>3, <1>4, <1>5, <1>7, <2>6, <2>7 DEF ValidDelays, B
<1>8. CASE Option.strategy = "even"
  <2>1. \A c \in ChannelsOf(n) : delays[c] = EvenDelay(StepLength, n, c)
    BY <1>1, <1>3, <1>8 DEF Resolved, AsAsked
  <2>2. n <= StepLength + 1
    BY <1>2, <1>8 DEF NeedsDistinctPositions
  <2>3. ASSUME NEW c \in ChannelsOf(n), NEW e \in ChannelsOf(n), c # e
        PROVE  delays[c] # delays[e]
    <3>1. ASSUME NEW x \in ChannelsOf(n), NEW y \in ChannelsOf(n), x < y
          PROVE  delays[x] < delays[y]
      <4>1. EvenDelay(StepLength, n, x) < EvenDelay(StepLength, n, y)
        BY <1>2, <1>6, <2>2, <3>1, EvenDelayIncreases
      <4> QED BY <2>1, <4>1
    <3>2. c < e \/ e < c
      BY <1>6, <2>3
    <3>3. c < e => delays[c] < delays[e]
      BY <3>1
    <3>4. e < c => delays[e] < delays[c]
      BY <3>1
    <3>5. delays[c] \in Int /\ delays[e] \in Int
      BY <1>2, <1>4
    <3> QED BY <3>2, <3>3, <3>4, <3>5
  <2> QED BY <1>3, <1>4, <1>5, <1>8, <2>1, <2>3 DEF ValidDelays
<1>9. CASE Option.strategy = "uniform-random"
  BY <1>3, <1>4, <1>9 DEF ValidDelays
<1> QED BY <1>2, <1>7, <1>8, <1>9

LEMMA ModulateResolved == ASSUME Inv, Resolved, Modulate PROVE Resolved'
<1>1. /\ phase = "modulate" /\ phase \in Drawing /\ phase \in Resolving
      /\ UNCHANGED <<request, lengths>>
  BY DEF Modulate, Drawing, Resolving
<1>2. PICK mask \in SUBSET ChannelsOf(Channels) :
        LET step == Step(delays, permutation, mask, delays)
        IN  IF \A c \in mask : Fits(delays[c], step.excursion)
            THEN /\ PushBack([step EXCEPT !.buffers =
                      [c \in DOMAIN delays |-> BufferSize(step, c)]])
                 /\ phase' = "step"
            ELSE phase' = "refused" /\ UNCHANGED <<document, index>>
  BY DEF Modulate, kSubset
<1> DEFINE step == Step(delays, permutation, mask, delays)
           made == [step EXCEPT !.buffers = [c \in DOMAIN delays |-> BufferSize(step, c)]]
<1>3. CASE ~(\A c \in mask : Fits(delays[c], step.excursion))
  <2>1. phase' = "refused" /\ UNCHANGED <<document, index>>
    BY <1>2, <1>3
  <2>2. RequestHeld' /\ TimeShared' /\ StepsMade' /\ Validated'
    BY <1>1, <2>1, SameDocument
  <2> QED BY <2>1, <2>2 DEF Resolved, AsAsked, Drawing
<1>4. CASE \A c \in mask : Fits(delays[c], step.excursion)
  <2>1. PushBack(made) /\ phase' = "step"
    BY <1>2, <1>4
  <2>2. /\ made.length = StepLength /\ made.strategy = Option.strategy
        /\ made.mix = Option.mix /\ made.shuffle = Option.shuffle
        /\ made.excursion = Option.excursion /\ made.delays = delays
        /\ made.permutation = permutation /\ made.mask = mask
        /\ made.buffers = [c \in DOMAIN delays |-> BufferSize(step, c)]
        /\ step.mask = mask /\ step.delays = delays /\ step.excursion = Option.excursion
    BY DEF Step
  <2> HIDE DEF made, step
  <2>3. Derivable(Option, StepLength, Channels) /\ index < StepCount(request)
    BY <1>1 DEF Inv, LengthsKnown
  <2>4. DOMAIN delays = ChannelsOf(Channels) /\ StepLength \in Nat
    <3>1. Channels \in Nat \ {0} /\ StepLength \in Nat
      BY <1>1, PositionsExact
    <3> QED BY <1>1, <3>1 DEF Inv, DelaysDrawn
  <2>5. \A c \in ChannelsOf(Channels) : delays[c] \in Nat
    BY <1>1, <2>4 DEF Inv, DelaysDrawn
  <2>6. ValidDelays(made, Channels)
    BY <1>1, <2>2, DrawnAreValid
  <2>7. /\ IsPermutation(made.permutation, Channels)
        /\ made.shuffle \/ made.permutation = Identity(Channels)
    BY <1>1, <2>2 DEF Inv, PermutationKept, Resolved, AsAsked
  <2>8. ValidModulation(made, Channels)
    <3>1. \A c : BufferSize(made, c) = BufferSize(step, c)
      BY <2>2 DEF BufferSize, Headroom
    <3> QED BY <1>4, <2>2, <2>4, <3>1 DEF ValidModulation
  <2>9. Made(made, Option, Channels, StepLength)
    BY <2>2, <2>3, <2>5, <2>6, <2>7, <2>8 DEF Made
  <2> QED BY <1>1, <2>1, <2>3, <2>9, OneMoreStep DEF Resolving, Drawing
<1> QED BY <1>3, <1>4

LEMMA ValidateResolved == ASSUME Inv, Resolved, Validate PROVE Resolved'
<1>1. /\ phase = "validate" /\ phase' \in {"accepted", "refused"}
      /\ UNCHANGED <<request, lengths, document, index, delays, permutation, position>>
      /\ phase' = "accepted" => ValidDocument(document)
  BY DEF Validate
<1>2. Time' = Time /\ Channels' = Channels
  BY <1>1 DEF Time, Channels
<1>3. RequestHeld' /\ AsAsked'
  BY <1>1 DEF Resolved, RequestHeld, AsAsked, Drawing
<1>4. TimeShared'
  BY <1>1, <1>2 DEF Resolved, TimeShared, Derived, Ended
<1>5. StepsMade'
  BY <1>1, <1>2 DEF Resolved, StepsMade, Derived, Ended
<1>6. Validated'
  BY <1>1 DEF Validated, ValidDocument
<1> QED BY <1>3, <1>4, <1>5, <1>6 DEF Resolved

LEMMA ResolvedNext == Inv /\ Resolved /\ [Next]_vars => Resolved'
<1> SUFFICES ASSUME Inv, Resolved, [Next]_vars PROVE Resolved'
  OBVIOUS
<1>1. CASE UNCHANGED vars
  BY <1>1 DEF vars, Resolved, RequestHeld, TimeShared, AsAsked, StepsMade, Validated,
     Derived, Ended, Time, Channels, Option, StepLength, ValidDocument
<1> QED BY <1>1, DeriveResolved, BeginStepResolved, DrawDelayResolved, ShuffleResolved,
           ModulateResolved, ValidateResolved DEF Next

LEMMA ResolvedAlways == Spec => [](Inv /\ Resolved)
  BY InvInit, InvNext, ResolvedInit, ResolvedNext, PTL DEF Spec

----------------------------------------------------------------------------
(* The memory of a resolved Diffuser.                                      *)

(* A delay that is modulated exceeds its headroom.                         *)
LEMMA HeadroomFits ==
  ASSUME NEW step, step.excursion \in Nat, NEW delay \in Nat, Fits(delay, step.excursion)
  PROVE  Headroom(step) \in 0 .. delay
<1> DEFINE e == step.excursion
           q == (e + 3) \div 4
<1>1. q \in Nat /\ 4 * q <= e + 3
  BY SMT
<1>2. 4 * delay - e > 12
  BY DEF Fits, InterpolationMargin
<1> HIDE DEF q
<1>3. q + 3 <= delay
  BY <1>1, <1>2
<1> QED BY <1>1, <1>3 DEF Headroom, InterpolationMargin, q

(* What a step of a resolved Diffuser is modulated by.                     *)
LEMMA StepsModest ==
  ASSUME Inv, Resolved, Derived, NEW k \in 1 .. index
  PROVE  LET s == document.steps[k]
         IN  /\ s.length = lengths[k - 1] /\ s.length \in 0 .. Time
             /\ s.excursion \in Nat /\ Headroom(s) \in Nat
             /\ \A c \in s.mask : s.delays[c] \in 0 .. s.length /\ Fits(s.delays[c], s.excursion)
             /\ Active(s) => Headroom(s) \in 0 .. s.length
<1> DEFINE s == document.steps[k]
           option == request.step[k]
<1>1. /\ request \in Requests /\ index \in Nat /\ index <= StepCount(request)
      /\ StepCount(request) \in Nat /\ k \in 1 .. StepCount(request)
  BY DEF Inv, LengthsKnown, Derived, Resolved, RequestHeld, StepsMade
<1>2. Made(s, option, Channels, lengths[k - 1])
  BY DEF Resolved, StepsMade
<1>3. s.length = lengths[k - 1] /\ s.length \in 0 .. Time /\ Time \in Nat
  <2>1. k - 1 \in ChannelsOf(StepCount(request))
    BY <1>1 DEF ChannelsOf
  <2> QED BY <1>2, <2>1 DEF Made, Resolved, TimeShared
<1>4. s.excursion \in Nat
  BY <1>1, <1>2 DEF Made
<1>5. \A c \in s.mask : s.delays[c] \in 0 .. s.length /\ Fits(s.delays[c], s.excursion)
  <2>1. CASE Derivable(option, lengths[k - 1], Channels)
    <3>1. /\ ValidDelays(s, Channels) /\ ValidModulation(s, Channels)
          /\ \A c \in ChannelsOf(Channels) : s.delays[c] \in Nat
      BY <1>2, <2>1 DEF Made
    <3> HIDE DEF s
    <3> QED BY <1>3, <3>1 DEF ValidDelays, ValidModulation
  <2>2. CASE ~Derivable(option, lengths[k - 1], Channels)
    BY <1>2, <2>2 DEF Made
  <2> QED BY <2>1, <2>2
<1>6. Headroom(s) \in Nat
  <2>1. s.excursion + 3 \in Nat
    BY <1>4
  <2>2. (s.excursion + 3) \div 4 \in Nat
    BY <2>1, SMT
  <2> QED BY <2>2 DEF Headroom, InterpolationMargin
<1> HIDE DEF s
<1>7. Active(s) => Headroom(s) \in 0 .. s.length
  <2> SUFFICES ASSUME Active(s) PROVE Headroom(s) \in 0 .. s.length
    OBVIOUS
  <2>1. PICK c \in s.mask : TRUE
    BY DEF Active
  <2>2. s.delays[c] \in Nat /\ s.delays[c] <= s.length /\ s.length \in Nat
    BY <1>3, <1>5
  <2>3. Headroom(s) \in 0 .. s.delays[c]
    BY <1>4, <1>5, <2>2, HeadroomFits
  <2> QED BY <1>6, <2>2, <2>3
<1> QED BY <1>3, <1>4, <1>5, <1>6, <1>7 DEF s

(* The samples and the headroom of each step.                              *)
Samples == [k \in 1 .. index |-> lengths[k - 1]]

Headrooms ==
  [k \in 1 .. index |->
     IF Active(document.steps[k]) THEN Headroom(document.steps[k]) ELSE 0]

(* The headrooms together are no more than the samples, so that the total  *)
(* does not wrap.                                                          *)
LEMMA TotalExact ==
  ASSUME Inv, Resolved, Derived, Ended
  PROVE  /\ index = StepCount(request) /\ index \in Nat \ {0}
         /\ IsFiniteSet(1 .. index) /\ Cardinality(1 .. index) = index
         /\ document.channels = Channels
         /\ DOMAIN document.steps = 1 .. index /\ Len(document.steps) = index
         /\ \A k \in 1 .. index : Samples[k] \in Nat /\ Headrooms[k] \in Nat
         /\ Part(Samples, 1 .. index) = Time
         /\ Part(Headrooms, 1 .. index) \in Nat
         /\ document.total = Time + Part(Headrooms, 1 .. index)
         /\ Reach(document) = Part(Headrooms, 1 .. index)
<1> DEFINE I == 1 .. index
           d == document
           A == ActiveSteps(d)
           all == [k \in I |-> Headroom(d.steps[k])]
           active == [k \in A |-> Headroom(d.steps[k])]
<1>1. /\ index = StepCount(request) /\ index \in Nat \ {0}
      /\ Time \in Nat \ {0} /\ 2 * Time < WordSize
      /\ \A i \in ChannelsOf(index) : lengths[i] \in 0 .. Time
      /\ d.steps = [k \in I |-> d.steps[k]]
      /\ d.total = Wrap(Time + Reach(d))
      /\ d.channels = Channels
  BY DEF Resolved, RequestHeld, TimeShared, StepsMade, Derived, Inv, LengthsKnown, Channels
<1>2. IsFiniteSet(I) /\ Cardinality(I) = index
  <2>1. 1 \in Int /\ index \in Int /\ ~(1 > index)
    BY <1>1
  <2>2. IsFiniteSet(1 .. index) /\ Cardinality(1 .. index) = IF 1 > index THEN 0 ELSE index - 1 + 1
    BY <2>1, FS_Interval
  <2> QED BY <1>1, <2>1, <2>2
<1>3. DOMAIN d.steps = I /\ Len(d.steps) = index
  BY <1>1
<1>4. \A k \in I : /\ Headroom(d.steps[k]) \in Nat
                   /\ lengths[k - 1] \in Nat
                   /\ Active(d.steps[k]) => Headroom(d.steps[k]) \in 0 .. lengths[k - 1]
  BY StepsModest
<1>5. \A k \in I : /\ Samples[k] = lengths[k - 1] /\ Samples[k] \in Nat /\ Headrooms[k] \in Nat
                   /\ Headrooms[k] <= Samples[k]
  BY <1>4 DEF Samples, Headrooms
<1>6. Part(Samples, I) = Time
  <2> DEFINE b == [k \in I |-> k - 1]
             C == ChannelsOf(StepCount(request))
  <2>1. b \in [I -> C] /\ \A x, y \in I : b[x] = b[y] => x = y
    BY <1>1 DEF ChannelsOf
  <2>2. ASSUME NEW y \in C PROVE \E x \in I : b[x] = y
    <3>1. y + 1 \in I /\ b[y + 1] = y
      BY <1>1 DEF ChannelsOf
    <3> QED BY <3>1
  <2>3. \A x \in I : Samples[x] = lengths[b[x]] /\ lengths[b[x]] \in Int
    BY <1>5
  <2>4. IsFiniteSet(C)
    BY <1>1, ChannelsFinite
  <2> HIDE DEF b, I, C
  <2>5. Part(Samples, I) = Part(lengths, C)
    BY <1>2, <2>1, <2>2, <2>3, <2>4, PartReindexed
  <2> QED BY <2>5 DEF Time, C
<1> DEFINE H == Part(Headrooms, I)
<1>7. H \in Nat /\ H <= Time
  <2>1. \A k \in I : Headrooms[k] \in Int /\ Samples[k] \in Int
    BY <1>5
  <2> HIDE DEF I
  <2>2. H \in Nat
    BY <1>2, <1>5, PartNatural
  <2>3. H <= Part(Samples, I)
    BY <1>2, <1>5, <2>1, PartMonotone
  <2> QED BY <1>6, <2>2, <2>3
<1>8. Total(active) = H
  <2>1. A \in SUBSET I /\ \A k \in I : k \in A <=> Active(d.steps[k])
    BY <1>3 DEF ActiveSteps
  <2>2. \A k \in I : all[k] \in Int /\ Headrooms[k] = (IF k \in A THEN all[k] ELSE 0)
    BY <1>4, <2>1 DEF Headrooms
  <2>3. \A k \in A : active[k] = all[k]
    BY <2>1
  <2> HIDE DEF A, I, all
  <2>4. Total(active) = Part(active, A)
    BY TotalIsPart
  <2> HIDE DEF active
  <2>5. Part(active, A) = Part(all, A)
    BY <2>3, PartSame
  <2>6. H = Part(all, A)
    BY <1>2, <2>1, <2>2, PartOfSupport
  <2> QED BY <2>4, <2>5, <2>6
<1>9. Reach(d) = Wrap(H)
  BY <1>8 DEF Reach
<1> HIDE DEF H
<1>10. H \in Word /\ Time + H \in Word
  BY <1>1, <1>7, WordSizeAssumption DEF Word
<1>11. Reach(d) = H /\ d.total = Time + H
  BY <1>1, <1>9, <1>10, WrapWord
<1> QED BY <1>1, <1>2, <1>3, <1>5, <1>6, <1>7, <1>11 DEF H

(* What the resolver made of a request, the validator accepts.             *)
LEMMA ResolvedAccepted == ASSUME Inv, Resolved PROVE ResolvedIsAccepted
<1> SUFFICES ASSUME phase = "validate", request # None,
                    \A k \in DOMAIN document.steps :
                      /\ document.steps[k].length > 0
                      /\ Derivable(request.step[k], document.steps[k].length, document.channels),
                    AffordableDocument(document)
             PROVE  ValidDocument(document)
  BY DEF ResolvedIsAccepted
<1> DEFINE d == document
<1>1. Derived /\ Ended
  BY DEF Derived, Ended
<1>2. /\ index = StepCount(request) /\ index \in Nat \ {0} /\ d.channels = Channels
      /\ DOMAIN d.steps = 1 .. index /\ Len(d.steps) = index
      /\ Part(Headrooms, 1 .. index) \in Nat
      /\ d.total = Time + Part(Headrooms, 1 .. index)
      /\ Reach(d) = Part(Headrooms, 1 .. index)
  BY <1>1, TotalExact
<1>3. /\ Time \in Nat \ {0} /\ 2 * Time < WordSize
      /\ lengths = [i \in ChannelsOf(index) |-> lengths[i]]
  BY <1>1, <1>2 DEF Resolved, TimeShared
<1>4. \A k \in 1 .. index : d.steps[k].length = lengths[k - 1] /\ d.steps[k].length \in 0 .. Time
  BY <1>1, StepsModest
<1>5. StepLengths(d) = lengths
  <2>1. \A i \in ChannelsOf(index) : i + 1 \in 1 .. index /\ (i + 1) - 1 = i
    BY <1>2 DEF ChannelsOf
  <2>2. \A i \in ChannelsOf(index) : d.steps[i + 1].length = lengths[i]
    BY <1>4, <2>1
  <2>3. StepLengths(d) = [i \in ChannelsOf(index) |-> d.steps[i + 1].length]
    BY <1>2 DEF StepLengths
  <2> QED BY <1>3, <2>2, <2>3
<1>6. Wrap(Wrap(Total(StepLengths(d))) + Reach(d)) = d.total
  <2>1. Total(StepLengths(d)) = Time
    BY <1>2, <1>3, <1>5, TotalIsPart DEF Time
  <2>2. Time \in Word
    BY <1>3, WordSizeAssumption DEF Word
  <2>3. d.total = Wrap(Time + Reach(d))
    BY <1>1 DEF Resolved, TimeShared
  <2> QED BY <2>1, <2>2, <2>3, WrapWord
<1>7. ASSUME NEW k \in 1 .. index PROVE ValidStep(d.steps[k], d.channels)
  <2> DEFINE s == d.steps[k]
  <2>1. Made(s, request.step[k], Channels, lengths[k - 1])
    BY <1>1 DEF Resolved, StepsMade
  <2>2. s.length > 0 /\ Derivable(request.step[k], s.length, Channels)
    BY <1>2
  <2>3. s.length \notin {0, WordSize - 1}
    BY <1>3, <1>4, <2>2, WordSizeAssumption
  <2>4. s.length = lengths[k - 1]
    BY <1>4
  <2> HIDE DEF s
  <2>5. ValidStep(s, Channels)
    BY <2>1, <2>2, <2>3, <2>4 DEF Made, Derivable, ValidStep
  <2> QED BY <1>2, <2>5 DEF s
<1>8. d.steps # << >> /\ d.total # 0
  BY <1>2, <1>3
<1> QED BY <1>2, <1>5, <1>6, <1>7, <1>8 DEF ValidDocument

(* What of the budget an accepted Diffuser takes.                          *)
LEMMA BudgetKept == ASSUME Inv, Resolved, request # None PROVE BudgetCovers
<1> SUFFICES ASSUME phase = "accepted"
             PROVE  Total([k \in DOMAIN document.steps |->
                             Total(document.steps[k].buffers)
                               + document.channels * document.channels])
                      * SampleBytes <= MemoryBudget
  BY DEF BudgetCovers
<1> DEFINE d == document
           n == Channels
           I == 1 .. index
           S == ChannelsOf(n)
           size == [k \in I |-> Samples[k] + Headrooms[k]]
           taken == [k \in I |-> Total(d.steps[k].buffers) + n * n]
           square == [k \in I |-> n * n]
           lines == [k \in I |-> Total(d.steps[k].buffers)]
           most == [k \in I |-> n * size[k]]
<1>1. Derived /\ Ended /\ ValidDocument(d)
  BY DEF Derived, Ended, Resolved, Validated
<1>2. /\ index \in Nat \ {0} /\ IsFiniteSet(I) /\ Cardinality(I) = index
      /\ d.channels = n /\ DOMAIN d.steps = I /\ Len(d.steps) = index
      /\ \A k \in I : Samples[k] \in Nat /\ Headrooms[k] \in Nat
      /\ d.total = Part(Samples, I) + Part(Headrooms, I)
  BY <1>1, TotalExact
<1>3. n \in Nat \ {0}
  BY DEF Channels, Resolved, RequestHeld
<1>4. IsFiniteSet(S) /\ Cardinality(S) = n
  BY <1>3, ChannelsFinite
<1>5. \A k \in I : size[k] = Samples[k] + Headrooms[k] /\ size[k] \in Nat
  BY <1>2
<1>6. Part(size, I) = d.total
  <2>1. \A k \in I : Samples[k] \in Int /\ Headrooms[k] \in Int
    BY <1>2
  <2> HIDE DEF size, I
  <2> QED BY <1>2, <1>5, <2>1, PartSum
<1>7. ASSUME NEW k \in I
      PROVE  /\ \A c \in DOMAIN d.steps[k].buffers : d.steps[k].buffers[c] \in 0 .. size[k]
             /\ Total(d.steps[k].buffers) \in Nat
             /\ Total(d.steps[k].buffers) <= n * size[k]
  <2> DEFINE s == d.steps[k]
             limit == [c \in S |-> size[k]]
  <2>1. ValidStep(s, n)
    BY <1>1, <1>2 DEF ValidDocument
  <2>2. s.buffers = [c \in DOMAIN s.buffers |-> s.buffers[c]]
    BY <1>1 DEF Resolved, StepsMade, Made
  <2>3. /\ DOMAIN s.buffers = S /\ s.mask \subseteq S
        /\ \A c \in S : s.buffers[c] = BufferSize(s, c)
    BY <2>1 DEF ValidStep, ValidModulation
  <2>4. /\ s.length = Samples[k] /\ Headroom(s) \in Nat
        /\ \A c \in s.mask : s.delays[c] \in 0 .. s.length
        /\ Headrooms[k] = IF Active(s) THEN Headroom(s) ELSE 0
    BY <1>1, StepsModest DEF Samples, Headrooms
  <2>5. \A c \in S : s.delays[c] \in Nat /\ s.delays[c] <= s.length
    <3>1. Made(s, request.step[k], n, lengths[k - 1])
      BY <1>1 DEF Resolved, StepsMade
    <3>2. DOMAIN s.delays = S /\ \A c \in S : s.delays[c] <= s.length
      BY <2>1 DEF ValidStep, ValidDelays
    <3>3. Derivable(request.step[k], lengths[k - 1], n)
      BY <2>1, <3>1 DEF ValidStep, Made, Derivable
    <3> QED BY <3>1, <3>2, <3>3 DEF Made
  <2> HIDE DEF s
  <2>6. \A c \in S : s.buffers[c] \in 0 .. size[k]
    <3> SUFFICES ASSUME NEW c \in S PROVE s.buffers[c] \in 0 .. size[k]
      OBVIOUS
    <3>1. size[k] = s.length + Headrooms[k] /\ s.length \in Nat /\ Headrooms[k] \in Nat
      BY <1>2, <1>5, <2>4
    <3>2. CASE c \in s.mask
      <4>1. Headrooms[k] = Headroom(s)
        BY <2>4, <3>2 DEF Active
      <4>2. s.buffers[c] = s.delays[c] + Headroom(s)
        BY <2>3, <3>2 DEF BufferSize
      <4> QED BY <2>4, <2>5, <3>1, <4>1, <4>2
    <3>3. CASE c \notin s.mask
      <4>1. s.buffers[c] = s.delays[c]
        BY <2>3, <3>3 DEF BufferSize
      <4> QED BY <2>5, <3>1, <4>1
    <3> QED BY <3>2, <3>3
  <2>7. Total(s.buffers) = Part(s.buffers, S)
    BY <2>2, <2>3, TotalIsPart
  <2>8. \A c \in S : /\ s.buffers[c] \in Nat /\ s.buffers[c] \in Int
                     /\ limit[c] = size[k] /\ limit[c] \in Int /\ s.buffers[c] <= limit[c]
    BY <1>5, <2>6
  <2> HIDE DEF limit, S
  <2>9. Part(s.buffers, S) \in Nat
    BY <1>4, <2>8, PartNatural
  <2>10. Part(s.buffers, S) <= Part(limit, S)
    BY <1>4, <2>8, PartMonotone
  <2>11. Part(limit, S) = size[k] * n
    <3>1. size[k] \in Int
      BY <1>5
    <3> HIDE DEF size
    <3> QED BY <1>4, <2>8, <3>1, PartConstant
  <2>12. size[k] * n = n * size[k]
    BY <1>3, <1>5, SMT
  <2> QED BY <2>3, <2>6, <2>7, <2>9, <2>10, <2>11, <2>12 DEF s
<1>8. Max({d.total} \cup Buffers(d)) = d.total /\ d.total \in Nat
  <2> DEFINE B == {d.total} \cup Buffers(d)
  <2>1. \A k \in I : size[k] <= d.total
    <3> HIDE DEF size, I
    <3> QED BY <1>2, <1>5, <1>6, PartTerm
  <2>2. d.total \in Nat
    <3> HIDE DEF size, I
    <3> QED BY <1>2, <1>5, <1>6, PartNatural
  <2>3. \A b \in Buffers(d) : b \in Nat /\ b <= d.total
    <3> SUFFICES ASSUME NEW b \in Buffers(d) PROVE b \in Nat /\ b <= d.total
      OBVIOUS
    <3>1. PICK k \in I : \E c \in DOMAIN d.steps[k].buffers : b = d.steps[k].buffers[c]
      BY <1>2 DEF Buffers
    <3>2. b \in 0 .. size[k]
      BY <1>7, <3>1
    <3>3. size[k] \in Nat /\ size[k] <= d.total
      BY <1>5, <2>1
    <3> HIDE DEF size
    <3> QED BY <2>2, <3>2, <3>3
  <2>4. d.total \in B /\ \A y \in B : d.total >= y /\ y \in Nat
    BY <2>2, <2>3
  <2> DEFINE x == CHOOSE x \in B : \A y \in B : x >= y
  <2>5. Max(B) = x
    BY DEF Max
  <2> HIDE DEF B
  <2>6. x \in B /\ \A y \in B : x >= y
    BY <2>4
  <2> HIDE DEF x
  <2>7. x = d.total
    BY <2>2, <2>4, <2>6
  <2> QED BY <2>2, <2>5, <2>7 DEF B
<1>9. (n * d.total) * SampleBytes + ((n * n) * SampleBytes) * index <= MemoryBudget
  <2>1. Affordable(n, d.total, index, EstimatedModulationBytes(d))
    BY <1>1, <1>2, <1>8 DEF ValidDocument, AffordableDocument
  <2>2. EstimatedModulationBytes(d) \in Nat \cup {Overflow}
    <3>1. ActiveSteps(d) \in SUBSET I
      BY <1>2 DEF ActiveSteps
    <3>2. Cardinality(ActiveSteps(d)) \in Nat
      BY <1>2, <3>1, FS_Subset, FS_CardinalityType
    <3>3. CheckedMul(d.channels, ModulationBytes) \in Nat \cup {Overflow}
      BY <1>2, <1>3, CheckedMulExact
    <3> QED BY <3>2, <3>3, CheckedMulExact DEF EstimatedModulationBytes
  <2> QED BY <1>2, <1>3, <1>8, <2>1, <2>2, AffordableExact
<1>10. Part(taken, I) <= n * d.total + (n * n) * index /\ Part(taken, I) \in Nat
  <2>1. n * n \in Nat /\ \A k \in I : n * size[k] \in Nat
    BY <1>3, <1>5
  <2>2. \A k \in I : /\ lines[k] \in Nat /\ lines[k] \in Int /\ lines[k] <= most[k]
                     /\ most[k] \in Int /\ most[k] = n * size[k] /\ size[k] \in Int
                     /\ square[k] = n * n /\ square[k] \in Int
                     /\ taken[k] = lines[k] + square[k] /\ taken[k] \in Nat
    BY <1>5, <1>7, <2>1
  <2> HIDE DEF lines, most, square, taken, size, I
  <2>3. Part(taken, I) = Part(lines, I) + Part(square, I) /\ Part(taken, I) \in Nat
    BY <1>2, <2>2, PartSum, PartNatural
  <2>4. Part(lines, I) <= Part(most, I)
    BY <1>2, <2>2, PartMonotone
  <2>5. Part(most, I) = n * d.total
    <3>1. n \in Int
      BY <1>3
    <3> HIDE DEF n
    <3> QED BY <1>2, <1>6, <2>2, <3>1, PartScale
  <2>6. Part(square, I) = (n * n) * index
    <3> DEFINE each == n * n
    <3>1. each \in Int /\ \A k \in I : square[k] = each
      BY <2>1, <2>2
    <3> HIDE DEF n, each
    <3>2. Part(square, I) = each * Cardinality(I)
      BY <1>2, <3>1, PartConstant
    <3>3. Part(square, I) = each * index
      BY <1>2, <3>2
    <3> QED BY <3>3 DEF each
  <2>7. Part(lines, I) \in Int /\ Part(square, I) \in Int
    BY <1>2, <2>2, PartType
  <2>8. n * d.total \in Int
    BY <1>3, <1>8
  <2> HIDE DEF n
  <2> QED BY <2>3, <2>4, <2>5, <2>6, <2>7, <2>8
<1>11. Part(taken, I) * SampleBytes <= MemoryBudget
  <2> DEFINE a == n * d.total
             b == n * n
             p == Part(taken, I)
  <2>1. a \in Nat /\ b \in Nat /\ b * index \in Nat /\ SampleBytes \in Nat /\ p \in Nat
    BY <1>2, <1>3, <1>8, <1>10
  <2>2. a * SampleBytes + (b * SampleBytes) * index <= MemoryBudget /\ p <= a + b * index
    BY <1>9, <1>10
  <2> HIDE DEF a, b, p
  <2>3. p * SampleBytes <= (a + b * index) * SampleBytes
    BY <2>1, <2>2, SMT
  <2>4. (a + b * index) * SampleBytes = a * SampleBytes + (b * SampleBytes) * index
    BY <1>2, <2>1, SMT
  <2>5. MemoryBudget \in Int /\ p * SampleBytes \in Int /\ (a + b * index) * SampleBytes \in Int
    BY <1>2, <2>1 DEF Word
  <2> QED BY <2>2, <2>3, <2>4, <2>5 DEF p
<1>12. Total(taken) = Part(taken, I)
  BY TotalIsPart
<1>13. taken = [k \in DOMAIN d.steps |-> Total(d.steps[k].buffers) + d.channels * d.channels]
  BY <1>2
<1> QED BY <1>11, <1>12, <1>13

(* Resolver and validator, though separate code, agree on every request:   *)
(* the result is refused only for its memory or for a step without any     *)
(* sample, whatever the strategies, draws, shuffles and Modulation.        *)
THEOREM ResolverAgrees == Spec => []ResolvedIsAccepted
  BY ResolvedAlways, ResolvedAccepted, PTL

(* A Diffuser that was requested and accepted fits in the budget, counted  *)
(* without wrapping.  One from a file may not (resolved.json, where the    *)
(* sum of the lengths wraps), which is why the request is a hypothesis.    *)
THEOREM BudgetIsCovered == Spec => [](request # None => BudgetCovers)
<1>1. Inv /\ Resolved => (request # None => BudgetCovers)
  BY BudgetKept
<1> QED BY <1>1, ResolvedAlways, PTL

================================================================================
