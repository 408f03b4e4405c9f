----------------------------- MODULE SumTheorems -----------------------------
(***************************************************************************)
(* Sums of the values of a function over a finite domain (SumFunction of   *)
(* the community modules), which the models use for the work that waits at *)
(* a workstation, for the parts in the units on the floor and for the      *)
(* money of a set of commitments.  What the proofs about them need: a sum  *)
(* is a number, it does not depend on the order of summation, and changing *)
(* the value of one element changes the sum by as much.                    *)
(*                                                                         *)
(* SumFunction is a recursive function over the subsets of the domain, so  *)
(* that the facts about it take induction.  It is done here by taking the  *)
(* smallest counterexample.                                                *)
(***************************************************************************)
EXTENDS Integers, FiniteSets, Functions, FiniteSetTheorems, TLAPS

(* A set of natural numbers that is not empty has a smallest one.          *)
LEMMA Smallest ==
  ASSUME NEW T, T \subseteq Nat, T # {}
  PROVE  \E n \in T : \A k \in T : n <= k
<1> DEFINE R == OpToRel(<, Nat)
<1>1. IsWellFoundedOn(R, Nat)
  BY NatLessThanWellFounded
<1>2. \A x, y \in Nat : <<x, y>> \in R <=> x < y
  BY DEF OpToRel
<1> HIDE DEF R
<1>3. PICK n \in T : \A k \in T : ~(<<k, n>> \in R)
  BY <1>1, WFMin
<1>4. \A k \in T : ~(k < n)
  BY <1>2, <1>3
<1>5. \A k \in T : n <= k
  BY <1>4
<1> QED
  BY <1>5

(* A family of subsets that has a set whenever it has those with fewer     *)
(* elements has all of them.                                               *)
LEMMA SubsetInduction ==
  ASSUME NEW S, IsFiniteSet(S), NEW X,
         \A s \in SUBSET S :
           (\A t \in SUBSET S : Cardinality(t) < Cardinality(s) => t \in X) => s \in X
  PROVE  SUBSET S \subseteq X
<1> SUFFICES ASSUME ~(SUBSET S \subseteq X) PROVE FALSE
  OBVIOUS
<1>1. \A s \in SUBSET S : Cardinality(s) \in Nat
  BY FS_Subset, FS_CardinalityType
<1> DEFINE T == {Cardinality(s) : s \in (SUBSET S) \ X}
<1>2. T \subseteq Nat /\ T # {}
  BY <1>1
<1>3. PICK n \in T : \A k \in T : n <= k
  BY <1>2, Smallest
<1>4. PICK s \in (SUBSET S) \ X : Cardinality(s) = n
  BY <1>3
<1>5. ASSUME NEW t \in SUBSET S, Cardinality(t) < Cardinality(s), t \notin X PROVE FALSE
  <2>1. Cardinality(t) \in T
    BY <1>5
  <2>2. n <= Cardinality(t)
    BY <1>3, <2>1
  <2> QED
    BY <1>1, <1>4, <1>5, <2>2
<1> QED
  BY <1>4, <1>5

-----------------------------------------------------------------------------
(* The recursive function behind SumFunction.                              *)

Pick(s) == CHOOSE x \in s : TRUE

Step(w, g, s) == IF s = {} THEN 0 ELSE w[Pick(s)] + g[s \ {Pick(s)}]

SumsOn(w, g, X) == g = [s \in X |-> Step(w, g, s)]

Sums(w) == CHOOSE g : SumsOn(w, g, SUBSET (DOMAIN w))

(* The element that is picked belongs to the set.                          *)
LEMMA PickIn == \A s : s # {} => Pick(s) \in s
BY DEF Pick

(* SumFunction is the value of the recursive function Sums at the whole    *)
(* domain.                                                                 *)
LEMMA SumIsOfSums == ASSUME NEW w PROVE SumFunction(w) = Sums(w)[DOMAIN w]
BY DEF SumFunction, SumFunctionOnSet, FoldFunctionOnSet, MapThenFoldSet, Sums, SumsOn, Step, Pick

(* A subset without one of its elements is a smaller subset.               *)
LEMMA OneSmaller ==
  ASSUME NEW S, IsFiniteSet(S), NEW s \in SUBSET S, NEW x \in s
  PROVE  /\ s \ {x} \in SUBSET S /\ Cardinality(s \ {x}) = Cardinality(s) - 1
         /\ Cardinality(s) \in Nat \ {0} /\ Cardinality(s \ {x}) < Cardinality(s)
<1>1. IsFiniteSet(s)
  BY FS_Subset
<1>2. Cardinality(s \ {x}) = Cardinality(s) - 1 /\ IsFiniteSet(s \ {x})
  BY <1>1, FS_RemoveElement
<1>3. Cardinality(s) \in Nat /\ Cardinality(s \ {x}) \in Nat
  BY <1>1, <1>2, FS_CardinalityType
<1> QED
  BY <1>2, <1>3

(* The function exists: it can be extended from the sets of up to n        *)
(* elements to those with one more.                                        *)
LEMMA SumsExist ==
  ASSUME NEW w, IsFiniteSet(DOMAIN w)
  PROVE  \E g : SumsOn(w, g, SUBSET (DOMAIN w))
<1> DEFINE S == DOMAIN w
           Upto(n) == {s \in SUBSET S : Cardinality(s) <= n}
           T == {n \in Nat : ~\E g : SumsOn(w, g, Upto(n))}
<1>1. \A s \in SUBSET S : Cardinality(s) \in Nat /\ (Cardinality(s) = 0 <=> s = {})
  BY FS_Subset, FS_CardinalityType, FS_EmptySet
<1>2. T = {}
  <2> SUFFICES ASSUME T # {} PROVE FALSE
    OBVIOUS
  <2>1. PICK n \in T : \A k \in T : n <= k
    BY Smallest
  <2>2. n \in Nat /\ ~\E g : SumsOn(w, g, Upto(n))
    BY <2>1
  <2>3. CASE n = 0
    <3> DEFINE g == [s \in Upto(n) |-> 0]
    <3>1. \A s \in Upto(n) : Step(w, g, s) = 0
      BY <1>1, <2>3 DEF Step
    <3> HIDE DEF Upto
    <3>2. SumsOn(w, g, Upto(n))
      BY <3>1 DEF SumsOn
    <3> QED
      BY <2>2, <3>2
  <2>4. CASE n # 0
    <3>1. n - 1 \in Nat /\ n - 1 \notin T
      <4> HIDE DEF T
      <4> QED
        BY <2>1, <2>2, <2>4
    <3>2. PICK g : SumsOn(w, g, Upto(n - 1))
      BY <3>1
    <3> DEFINE h == [s \in Upto(n) |-> Step(w, g, s)]
    <3>3. \A t \in Upto(n - 1) : t \in Upto(n)
      BY <1>1, <2>2
    <3>4. \A t \in Upto(n - 1) : h[t] = g[t]
      BY <3>2, <3>3 DEF SumsOn
    <3>5. ASSUME NEW s \in Upto(n), s # {} PROVE s \ {Pick(s)} \in Upto(n - 1)
      BY <2>2, <3>5, PickIn, OneSmaller
    <3> HIDE DEF Upto, h
    <3>6. \A s \in Upto(n) : Step(w, h, s) = Step(w, g, s)
      BY <3>4, <3>5 DEF Step
    <3>7. SumsOn(w, h, Upto(n))
      BY <3>6 DEF SumsOn, h
    <3> QED
      BY <2>2, <3>7
  <2> QED
    BY <2>3, <2>4
<1>3. Cardinality(S) \in Nat
  BY FS_CardinalityType
<1>4. PICK g : SumsOn(w, g, Upto(Cardinality(S)))
  BY <1>2, <1>3
<1>5. Upto(Cardinality(S)) = SUBSET S
  BY FS_Subset
<1> QED
  BY <1>4, <1>5

(* The recursive function satisfies the equation that defines it.          *)
LEMMA SumsStep ==
  ASSUME NEW w, IsFiniteSet(DOMAIN w)
  PROVE  /\ Sums(w)[{}] = 0
         /\ \A s \in SUBSET (DOMAIN w) : s # {} => Sums(w)[s] = w[Pick(s)] + Sums(w)[s \ {Pick(s)}]
<1>1. SumsOn(w, Sums(w), SUBSET (DOMAIN w))
  BY SumsExist DEF Sums
<1>2. \A s \in SUBSET (DOMAIN w) : Sums(w)[s] = Step(w, Sums(w), s)
  BY <1>1 DEF SumsOn
<1> QED
  BY <1>2 DEF Step

(* Sums stay in any set of integers that has 0 and is closed under         *)
(* addition.                                                               *)
LEMMA SumsType ==
  ASSUME NEW D \in SUBSET Int, NEW S, IsFiniteSet(S), NEW w \in [S -> D],
         0 \in D, \A a, b \in D : a + b \in D
  PROVE  \A s \in SUBSET S : Sums(w)[s] \in D
<1> DEFINE X == {s \in SUBSET S : Sums(w)[s] \in D}
<1>1. ASSUME NEW s \in SUBSET S,
             \A t \in SUBSET S : Cardinality(t) < Cardinality(s) => t \in X
      PROVE  s \in X
  <2>1. CASE s = {}
    BY <2>1, SumsStep
  <2>2. CASE s # {}
    <3>1. s \ {Pick(s)} \in X /\ Pick(s) \in S
      BY <1>1, <2>2, PickIn, OneSmaller
    <3>2. Sums(w)[s] = w[Pick(s)] + Sums(w)[s \ {Pick(s)}]
      BY <2>2, SumsStep
    <3>3. w[Pick(s)] \in D /\ Sums(w)[s \ {Pick(s)}] \in D
      BY <3>1
    <3>4. Sums(w)[s] \in D
      BY <3>2, <3>3
    <3> QED
      BY <3>4
  <2> QED
    BY <2>1, <2>2
<1> HIDE DEF X
<1>2. SUBSET S \subseteq X
  BY <1>1, SubsetInduction
<1> QED
  BY <1>2 DEF X

(* Any element may be summed first.                                        *)
LEMMA AnyFirst ==
  ASSUME NEW S, IsFiniteSet(S), NEW w \in [S -> Int]
  PROVE  \A s \in SUBSET S : \A x \in s : Sums(w)[s] = w[x] + Sums(w)[s \ {x}]
<1> DEFINE X == {s \in SUBSET S : \A x \in s : Sums(w)[s] = w[x] + Sums(w)[s \ {x}]}
<1>0. \A s \in SUBSET S : Sums(w)[s] \in Int
  BY SumsType
<1>1. ASSUME NEW s \in SUBSET S,
             \A t \in SUBSET S : Cardinality(t) < Cardinality(s) => t \in X
      PROVE  s \in X
  <2> SUFFICES ASSUME NEW x \in s PROVE Sums(w)[s] = w[x] + Sums(w)[s \ {x}]
    OBVIOUS
  <2> DEFINE c == Pick(s)
  <2>1. c \in s /\ Sums(w)[s] = w[c] + Sums(w)[s \ {c}]
    BY PickIn, SumsStep
  <2> HIDE DEF c
  <2>2. CASE x # c
    <3>1. s \ {c} \in X /\ x \in s \ {c} /\ s \ {x} \in X /\ c \in s \ {x}
      BY <1>1, <2>1, <2>2, OneSmaller
    <3>2. Sums(w)[s \ {c}] = w[x] + Sums(w)[(s \ {c}) \ {x}]
      BY <3>1
    <3>3. Sums(w)[s \ {x}] = w[c] + Sums(w)[(s \ {x}) \ {c}]
      BY <3>1
    <3>4. (s \ {c}) \ {x} = (s \ {x}) \ {c} /\ (s \ {x}) \ {c} \in SUBSET S
      OBVIOUS
    <3>5. w[c] \in Int /\ w[x] \in Int /\ Sums(w)[(s \ {x}) \ {c}] \in Int
      BY <1>0, <2>1, <3>4
    <3>6. Sums(w)[s \ {c}] = w[x] + Sums(w)[(s \ {x}) \ {c}]
      BY <3>2, <3>4
    <3> HIDE DEF X
    <3> QED
      BY <2>1, <3>3, <3>5, <3>6
  <2> QED
    BY <2>1, <2>2
<1> HIDE DEF X
<1>2. SUBSET S \subseteq X
  BY <1>1, SubsetInduction
<1> QED
  BY <1>2 DEF X

(* Functions that agree on a set have the same sum there.                  *)
LEMMA SameSums ==
  ASSUME NEW v, NEW w, IsFiniteSet(DOMAIN v), IsFiniteSet(DOMAIN w),
         NEW S, S \subseteq DOMAIN v, S \subseteq DOMAIN w, \A x \in S : v[x] = w[x]
  PROVE  Sums(v)[S] = Sums(w)[S]
<1> DEFINE X == {s \in SUBSET S : Sums(v)[s] = Sums(w)[s]}
<1>0. IsFiniteSet(S)
  BY FS_Subset
<1>1. ASSUME NEW s \in SUBSET S,
             \A t \in SUBSET S : Cardinality(t) < Cardinality(s) => t \in X
      PROVE  s \in X
  <2>1. CASE s = {}
    BY <2>1, SumsStep
  <2>2. CASE s # {}
    <3>1. s \ {Pick(s)} \in X /\ Pick(s) \in S
      BY <1>0, <1>1, <2>2, PickIn, OneSmaller
    <3>2. Sums(v)[s] = v[Pick(s)] + Sums(v)[s \ {Pick(s)}]
      BY <2>2, SumsStep
    <3>3. Sums(w)[s] = w[Pick(s)] + Sums(w)[s \ {Pick(s)}]
      BY <2>2, SumsStep
    <3> QED
      BY <3>1, <3>2, <3>3
  <2> QED
    BY <2>1, <2>2
<1> HIDE DEF X
<1>2. SUBSET S \subseteq X
  BY <1>0, <1>1, SubsetInduction
<1> QED
  BY <1>2 DEF X

-----------------------------------------------------------------------------
(* Sums.                                                                   *)

(* A sum of natural numbers is one, and so is a sum of integers; the sum   *)
(* over no elements is zero.                                               *)
THEOREM SumType ==
  ASSUME NEW S, IsFiniteSet(S), NEW w
  PROVE  /\ w \in [S -> Nat] => SumFunction(w) \in Nat
         /\ w \in [S -> Int] => SumFunction(w) \in Int
         /\ w \in [S -> Int] /\ S = {} => SumFunction(w) = 0
<1>1. ASSUME w \in [S -> Nat] PROVE SumFunction(w) \in Nat
  <2>1. Nat \in SUBSET Int /\ 0 \in Nat /\ \A a, b \in Nat : a + b \in Nat
    OBVIOUS
  <2>2. \A s \in SUBSET S : Sums(w)[s] \in Nat
    BY ONLY <1>1, <2>1, IsFiniteSet(S), SumsType
  <2> QED
    BY <1>1, <2>2, SumIsOfSums
<1>2. ASSUME w \in [S -> Int] PROVE SumFunction(w) \in Int
  BY <1>2, SumsType, SumIsOfSums
<1>3. ASSUME w \in [S -> Int], S = {} PROVE SumFunction(w) = 0
  BY <1>3, SumsStep, SumIsOfSums
<1> QED
  BY <1>1, <1>2, <1>3

(* The element summed last may be any.                                     *)
THEOREM SumSplit ==
  ASSUME NEW S, IsFiniteSet(S), NEW w \in [S -> Int], NEW x \in S,
         NEW v \in [S \ {x} -> Int], \A y \in S \ {x} : v[y] = w[y]
  PROVE  SumFunction(w) = w[x] + SumFunction(v)
<1>1. Sums(w)[S] = w[x] + Sums(w)[S \ {x}]
  BY AnyFirst
<1>2. IsFiniteSet(S \ {x}) /\ DOMAIN v = S \ {x} /\ DOMAIN w = S
  BY FS_RemoveElement
<1>3. Sums(v)[S \ {x}] = Sums(w)[S \ {x}]
  BY <1>2, SameSums
<1> QED
  BY <1>1, <1>2, <1>3, SumIsOfSums

(* Changing one value changes the sum by as much.                          *)
THEOREM SumChange ==
  ASSUME NEW S, IsFiniteSet(S), NEW w \in [S -> Int], NEW v \in [S -> Int], NEW x \in S,
         \A y \in S : y # x => v[y] = w[y]
  PROVE  SumFunction(v) = SumFunction(w) + v[x] - w[x]
<1> DEFINE r == [y \in S \ {x} |-> w[y]]
<1>1. r \in [S \ {x} -> Int] /\ \A y \in S \ {x} : r[y] = w[y] /\ r[y] = v[y]
  OBVIOUS
<1> HIDE DEF r
<1>2. SumFunction(w) = w[x] + SumFunction(r)
  BY <1>1, SumSplit
<1>3. SumFunction(v) = v[x] + SumFunction(r)
  BY <1>1, SumSplit
<1>4. SumFunction(r) \in Int /\ w[x] \in Int /\ v[x] \in Int
  <2>1. IsFiniteSet(S \ {x})
    BY FS_RemoveElement
  <2> QED
    BY <1>1, <2>1, SumType
<1> QED
  BY <1>2, <1>3, <1>4

(* A sum of zeros is zero.                                                 *)
THEOREM SumZero ==
  ASSUME NEW S, IsFiniteSet(S), NEW w \in [S -> {0}]
  PROVE  SumFunction(w) = 0
<1>1. {0} \in SUBSET Int /\ 0 \in {0} /\ \A a, b \in {0} : a + b \in {0}
  OBVIOUS
<1>2. Sums(w)[S] \in {0}
  BY <1>1, SumsType
<1> QED
  BY <1>2, SumIsOfSums


(* The elements may be named in another way: a sum does not depend on it.  *)
THEOREM SumReindex ==
  ASSUME NEW S, IsFiniteSet(S), NEW T, NEW f \in [S -> T],
         \A x, y \in S : f[x] = f[y] => x = y,
         \A z \in T : \E x \in S : f[x] = z,
         NEW w \in [T -> Int], NEW v \in [S -> Int], \A x \in S : v[x] = w[f[x]]
  PROVE  SumFunction(v) = SumFunction(w)
<1> DEFINE F(s) == {f[x] : x \in s}
           X == {s \in SUBSET S : Sums(v)[s] = Sums(w)[F(s)]}
<1>0. IsFiniteSet(T) /\ F(S) = T
  <2>1. f \in Surjection(S, T)
    BY DEF Surjection
  <2> QED
    BY <2>1, FS_Surjection
<1>1. ASSUME NEW s \in SUBSET S,
             \A t \in SUBSET S : Cardinality(t) < Cardinality(s) => t \in X
      PROVE  s \in X
  <2>1. CASE s = {}
    <3>1. F({}) = {}
      OBVIOUS
    <3>2. Sums(v)[{}] = 0 /\ Sums(w)[{}] = 0
      BY <1>0, SumsStep
    <3> QED
      BY <2>1, <3>1, <3>2
  <2>2. CASE s # {}
    <3>1. PICK x \in s : TRUE
      BY <2>2
    <3>2. x \in S /\ s \ {x} \in X
      BY <1>1, OneSmaller
    <3>3. F(s) \in SUBSET T /\ f[x] \in F(s) /\ F(s) \ {f[x]} = F(s \ {x})
      BY <3>1, <3>2
    <3>4. Sums(v)[s] = v[x] + Sums(v)[s \ {x}]
      BY <3>1, AnyFirst
    <3>5. Sums(w)[F(s)] = w[f[x]] + Sums(w)[F(s) \ {f[x]}]
      BY <1>0, <3>3, AnyFirst
    <3>6. Sums(v)[s \ {x}] = Sums(w)[F(s \ {x})]
      BY <3>2
    <3> HIDE DEF F
    <3> QED
      BY <3>2, <3>3, <3>4, <3>5, <3>6
  <2> QED
    BY <2>1, <2>2
<1> HIDE DEF X
<1>2. S \in X
  BY <1>1, SubsetInduction
<1>3. Sums(v)[S] = Sums(w)[T]
  BY <1>0, <1>2 DEF X
<1> QED
  BY <1>3, SumIsOfSums

(* The sum over two disjoint parts is the sum of their sums.               *)
THEOREM SumUnion ==
  ASSUME NEW S, IsFiniteSet(S), NEW A \in SUBSET S, NEW w \in [S -> Int],
         NEW v \in [A -> Int], \A x \in A : v[x] = w[x],
         NEW u \in [S \ A -> Int], \A x \in S \ A : u[x] = w[x]
  PROVE  SumFunction(w) = SumFunction(v) + SumFunction(u)
<1> DEFINE B == S \ A
           X == {s \in SUBSET A : Sums(w)[B \cup s] = Sums(w)[s] + Sums(w)[B]}
<1>0. IsFiniteSet(A) /\ IsFiniteSet(B) /\ \A s \in SUBSET S : Sums(w)[s] \in Int
  BY FS_Subset, SumsType
<1>1. ASSUME NEW s \in SUBSET A,
             \A t \in SUBSET A : Cardinality(t) < Cardinality(s) => t \in X
      PROVE  s \in X
  <2>1. CASE s = {}
    <3>1. B \cup {} = B /\ Sums(w)[{}] = 0 /\ Sums(w)[B] \in Int
      BY <1>0, SumsStep
    <3> HIDE DEF B
    <3> QED
      BY <2>1, <3>1
  <2>2. CASE s # {}
    <3>1. PICK x \in s : TRUE
      BY <2>2
    <3>2. s \ {x} \in X
      BY <1>0, <1>1, OneSmaller
    <3>3. /\ B \cup s \in SUBSET S /\ x \in B \cup s /\ x \in S
          /\ (B \cup s) \ {x} = B \cup (s \ {x})
      OBVIOUS
    <3>4. Sums(w)[s] = w[x] + Sums(w)[s \ {x}]
      BY <3>1, AnyFirst
    <3>5. Sums(w)[B \cup s] = w[x] + Sums(w)[(B \cup s) \ {x}]
      BY <3>3, AnyFirst
    <3>6. Sums(w)[B \cup (s \ {x})] = Sums(w)[s \ {x}] + Sums(w)[B]
      BY <3>2
    <3>7. w[x] \in Int /\ Sums(w)[s \ {x}] \in Int /\ Sums(w)[B] \in Int
      BY <1>0, <3>3
    <3>8. Sums(w)[B \cup s] = Sums(w)[s] + Sums(w)[B]
      <4> HIDE DEF B
      <4>1. Sums(w)[B \cup s] = w[x] + (Sums(w)[s \ {x}] + Sums(w)[B])
        BY <3>3, <3>5, <3>6
      <4> QED
        BY ONLY <3>4, <3>7, <4>1
    <3> QED
      BY <3>8
  <2> QED
    BY <2>1, <2>2
<1> HIDE DEF X
<1>2. A \in X
  <2>1. SUBSET A \subseteq X
    BY <1>0, <1>1, SubsetInduction
  <2> QED
    BY <2>1
<1>3. Sums(w)[S] = Sums(w)[A] + Sums(w)[B]
  <2>1. B \cup A = S
    OBVIOUS
  <2> QED
    BY <1>2, <2>1 DEF X
<1>4. Sums(v)[A] = Sums(w)[A] /\ Sums(u)[B] = Sums(w)[B]
  BY <1>0, SameSums
<1> QED
  BY <1>3, <1>4, SumIsOfSums

=============================================================================
