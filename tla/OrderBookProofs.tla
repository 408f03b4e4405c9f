--------------------------- MODULE OrderBookProofs ---------------------------
(***************************************************************************)
(* Proofs about OrderBook, for every value of its constants: any customers *)
(* and products, any number of holds, returns, orders and rounds.          *)
(***************************************************************************)
EXTENDS OrderBook, SumTheorems

(* Goods without units have no cost; it would pass on to those that come.  *)
NoCostWithoutUnits == \A p \in Products : stock[p].units = 0 => stock[p].cost = 0

(* What may be joined on hold has been: no two holds have the same product,*)
(* release round and reason.                                               *)
Merged(held) == \A i, j \in DOMAIN held : Joins(held[i], held[j]) => i = j
HoldsMerged == Merged(holds)

(* The customers' copies lag behind only until the last return that is due *)
(* has been booked.                                                        *)
ViewsFollow == phase # "returns" \/ RipeReturns = {} => views = ViewsOf(backlog)

(* The age of an entry follows from its origin, in the backlog and in the  *)
(* two lists of the entries that are being served.                         *)
Punctual(e, r, more) == e.age = r - Max({e.origin, 1}) + more /\ e.age <= Expiry
AllPunctual(s, r, more) == \A i \in DOMAIN s : Punctual(s[i], r, more)

OneMore == IF phase = "closed" THEN 1 ELSE 0

AgesKept ==
  /\ AllPunctual(backlog, round, OneMore)
  /\ phase = "sales" => AllPunctual(queue, round, 0) /\ AllPunctual(kept, round, 0)

(* An order keeps a remainder only when nothing is left in stock.          *)
NothingLeft == phase = "sales" => \A i \in DOMAIN kept : stock[kept[i].product].units = 0

IInv ==
  /\ TypeOK /\ round > 0
  /\ NoCostWithoutUnits /\ HoldsMerged /\ ViewsFollow /\ AgesKept /\ NothingLeft
  /\ UnitsConserved /\ DemandConserved /\ ValuedWithinCost

-----------------------------------------------------------------------------
(* Sequences of lots and orders, and the units in them.                    *)

(* What has a quantity: entries of the backlog, holds and returns.         *)
Countable(R) == \A r \in R : r.quantity \in Nat

(* Orders, holds and returns have a quantity.                              *)
LEMMA ItemsCountable == Countable(Entries) /\ Countable(Holds) /\ Countable(Returns)
BY DEF Countable, Entries, Holds, Returns

(* An element of a sequence.                                               *)
LEMMA SeqItem ==
  ASSUME NEW R, NEW s \in Seq(R)
  PROVE  /\ Len(s) \in Nat /\ DOMAIN s = 1 .. Len(s) /\ IsFiniteSet(DOMAIN s)
         /\ \A i \in DOMAIN s : s[i] \in R
<1>1. Len(s) \in Nat /\ DOMAIN s = 1 .. Len(s) /\ \A i \in DOMAIN s : s[i] \in R
  OBVIOUS
<1>2. IsFiniteSet(1 .. Len(s))
  BY <1>1, FS_Interval
<1> QED
  BY <1>1, <1>2

(* The units of what stands at some places of a sequence, or of any other  *)
(* function.                                                               *)
Part(s, places) == [i \in places |-> s[i]]

(* The units of finitely many things are a number, those of none are 0.    *)
LEMMA UnitsType ==
  ASSUME NEW S, IsFiniteSet(S), NEW s, DOMAIN s = S
  PROVE  /\ (\A i \in S : s[i].quantity \in Nat) => Units(s) \in Nat
         /\ S = {} => Units(s) = 0
<1> DEFINE v == [i \in S |-> s[i].quantity]
<1>1. Units(s) = SumFunction(v)
  BY DEF Units
<1>2. (\A i \in S : s[i].quantity \in Nat) => v \in [S -> Nat]
  OBVIOUS
<1>3. S = {} => v \in [S -> Int]
  OBVIOUS
<1> HIDE DEF v
<1> QED
  BY <1>1, <1>2, <1>3, SumType

(* The units of one thing and those of the others make up the whole.       *)
LEMMA UnitsSplit ==
  ASSUME NEW S, IsFiniteSet(S), NEW n \in S,
         NEW s, DOMAIN s = S, \A i \in S : s[i].quantity \in Int
  PROVE  /\ Units(s) = s[n].quantity + Units(Part(s, S \ {n}))
         /\ Units(Part(s, S \ {n})) \in Int
<1> DEFINE w == [i \in S |-> s[i].quantity]
           t == Part(s, S \ {n})
           v == [i \in S \ {n} |-> t[i].quantity]
<1>0. DOMAIN t = S \ {n} /\ \A i \in S \ {n} : t[i] = s[i]
  BY DEF Part
<1> HIDE DEF t
<1>1. /\ IsFiniteSet(S) /\ n \in S /\ w \in [S -> Int] /\ v \in [S \ {n} -> Int]
      /\ \A i \in S \ {n} : v[i] = w[i]
  BY <1>0
<1>2. Units(s) = SumFunction(w) /\ Units(t) = SumFunction(v) /\ w[n] = s[n].quantity
  BY <1>0 DEF Units
<1> HIDE DEF w, v
<1>3. SumFunction(w) = w[n] + SumFunction(v)
  BY ONLY <1>1, SumSplit
<1>4. SumFunction(v) \in Int
  <2>1. IsFiniteSet(S \ {n})
    BY FS_RemoveElement
  <2> QED
    BY ONLY <1>1, <2>1, SumType
<1> QED
  BY <1>2, <1>3, <1>4 DEF t

(* Things that are counted under other names have the same units.          *)
LEMMA UnitsRenamed ==
  ASSUME NEW S, IsFiniteSet(S), NEW T, NEW f \in [S -> T],
         \A x, y \in S : f[x] = f[y] => x = y,
         \A z \in T : \E x \in S : f[x] = z,
         NEW s, DOMAIN s = T, \A i \in T : s[i].quantity \in Int,
         NEW t, DOMAIN t = S, \A j \in S : t[j].quantity = s[f[j]].quantity
  PROVE  Units(t) = Units(s)
<1> DEFINE w == [i \in T |-> s[i].quantity]
           v == [j \in S |-> t[j].quantity]
<1>1. /\ IsFiniteSet(S) /\ f \in [S -> T]
      /\ \A x, y \in S : f[x] = f[y] => x = y
      /\ \A z \in T : \E x \in S : f[x] = z
  OBVIOUS
<1>4. w \in [T -> Int] /\ v \in [S -> Int] /\ \A j \in S : v[j] = w[f[j]]
  OBVIOUS
<1>2. Units(s) = SumFunction(w) /\ Units(t) = SumFunction(v)
  BY DEF Units
<1> HIDE DEF w, v
<1>3. SumFunction(v) = SumFunction(w)
  BY ONLY <1>1, <1>4, SumReindex
<1> QED
  BY <1>2, <1>3

(* The units at some places and those at the others make up the whole.     *)
LEMMA UnitsUnion ==
  ASSUME NEW S, IsFiniteSet(S), NEW A \in SUBSET S,
         NEW s, DOMAIN s = S, \A i \in S : s[i].quantity \in Int
  PROVE  Units(s) = Units(Part(s, A)) + Units(Part(s, S \ A))
<1> DEFINE w == [i \in S |-> s[i].quantity]
           v == [i \in A |-> s[i].quantity]
           u == [i \in S \ A |-> s[i].quantity]
<1>1. /\ IsFiniteSet(S) /\ A \in SUBSET S
      /\ w \in [S -> Int] /\ v \in [A -> Int] /\ u \in [S \ A -> Int]
      /\ \A i \in A : v[i] = w[i]
      /\ \A i \in S \ A : u[i] = w[i]
  OBVIOUS
<1>2. Units(s) = SumFunction(w)
  BY DEF Units
<1>3. Units(Part(s, A)) = SumFunction(v)
  <2>1. DOMAIN Part(s, A) = A /\ \A i \in A : Part(s, A)[i] = s[i]
    BY DEF Part
  <2>2. [i \in DOMAIN Part(s, A) |-> Part(s, A)[i].quantity] = v
    BY <2>1
  <2> QED
    BY <2>2 DEF Units
<1>4. Units(Part(s, S \ A)) = SumFunction(u)
  <2>1. DOMAIN Part(s, S \ A) = S \ A /\ \A i \in S \ A : Part(s, S \ A)[i] = s[i]
    BY DEF Part
  <2>2. [i \in DOMAIN Part(s, S \ A) |-> Part(s, S \ A)[i].quantity] = u
    BY <2>1
  <2> QED
    BY <2>2 DEF Units
<1> HIDE DEF w, v, u
<1>5. SumFunction(w) = SumFunction(v) + SumFunction(u)
  BY ONLY <1>1, SumUnion
<1> QED
  BY <1>2, <1>3, <1>4, <1>5

(* No elements have no units.                                              *)
LEMMA UnitsEmpty == Units(<< >>) = 0
<1>1. DOMAIN << >> = {} /\ IsFiniteSet({})
  BY FS_EmptySet
<1> QED
  BY <1>1, UnitsType

(* The units of a sequence are a natural number.                           *)
LEMMA UnitsOfSeq ==
  ASSUME NEW R, Countable(R), NEW s \in Seq(R)
  PROVE  /\ IsFiniteSet(DOMAIN s) /\ Units(s) \in Nat
         /\ \A i \in DOMAIN s : s[i].quantity \in Nat /\ s[i].quantity \in Int
<1>1. IsFiniteSet(DOMAIN s) /\ \A i \in DOMAIN s : s[i].quantity \in Nat
  BY SeqItem DEF Countable
<1> QED
  BY <1>1, UnitsType

(* An element that is appended adds its units.                             *)
LEMMA UnitsAppend ==
  ASSUME NEW R, Countable(R), NEW s, s \in Seq(R), NEW e, e \in R
  PROVE  Append(s, e) \in Seq(R) /\ Units(Append(s, e)) = Units(s) + e.quantity
<1> DEFINE t == Append(s, e)
           n == Len(s) + 1
<1>1. t \in Seq(R) /\ DOMAIN t = 1 .. n /\ t[n] = e /\ n \in DOMAIN t
  BY SeqItem
<1>2. \A i \in DOMAIN s : s[i] = t[i]
  BY SeqItem
<1>3. DOMAIN s = (1 .. n) \ {n}
  <2>1. Len(s) \in Nat /\ DOMAIN s = 1 .. Len(s)
    BY SeqItem
  <2>2. \A k \in Nat : 1 .. k = (1 .. k + 1) \ {k + 1}
    OBVIOUS
  <2> QED
    BY <2>1, <2>2
<1> HIDE DEF t, n
<1>4. /\ IsFiniteSet(DOMAIN t) /\ n \in DOMAIN t /\ DOMAIN s = DOMAIN t \ {n}
      /\ \A i \in DOMAIN t : t[i].quantity \in Int
  BY <1>1, <1>2, <1>3, UnitsOfSeq
<1>8. Units(t) = t[n].quantity + Units(Part(t, DOMAIN t \ {n}))
  BY ONLY <1>4, UnitsSplit
<1>9. Part(t, DOMAIN t \ {n}) = s
  <2>1. s = [i \in DOMAIN s |-> s[i]]
    OBVIOUS
  <2> QED
    BY <1>2, <1>4, <2>1 DEF Part
<1>5. Units(t) = t[n].quantity + Units(s)
  BY <1>8, <1>9
<1>6. Units(s) \in Nat /\ e.quantity \in Nat
  BY UnitsOfSeq DEF Countable
<1>7. Units(t) = Units(s) + e.quantity
  BY <1>1, <1>5, <1>6
<1> QED
  BY <1>1, <1>7 DEF t

(* What is left of a sequence without one of its elements.                 *)
LEMMA Removed ==
  ASSUME NEW R, NEW s \in Seq(R), NEW i \in DOMAIN s
  PROVE  /\ RemoveAt(s, i) \in Seq(R) /\ Len(RemoveAt(s, i)) = Len(s) - 1
         /\ DOMAIN RemoveAt(s, i) = 1 .. Len(s) - 1
         /\ \A j \in 1 .. Len(s) - 1 :
              RemoveAt(s, i)[j] = IF j < i THEN s[j] ELSE s[j + 1]
<1>1. Len(s) \in Nat /\ i \in 1 .. Len(s) /\ \A j \in 1 .. Len(s) : s[j] \in R
  BY SeqItem
<1> DEFINE a == SubSeq(s, 1, i - 1)
           b == SubSeq(s, i + 1, Len(s))
<1>2. a \in Seq(R) /\ Len(a) = i - 1 /\ \A j \in 1 .. i - 1 : a[j] = s[j]
  BY <1>1
<1>3. b \in Seq(R) /\ Len(b) = Len(s) - i /\ \A j \in 1 .. Len(s) - i : b[j] = s[i + j]
  BY <1>1
<1> HIDE DEF a, b
<1>4. /\ a \o b \in Seq(R) /\ Len(a \o b) = Len(a) + Len(b)
      /\ \A j \in 1 .. Len(a) + Len(b) : (a \o b)[j] = IF j <= Len(a) THEN a[j] ELSE b[j - Len(a)]
  BY <1>2, <1>3
<1>5. Len(a) + Len(b) = Len(s) - 1
  BY ONLY <1>1, <1>2, <1>3
<1>6. ASSUME NEW j \in 1 .. Len(s) - 1 PROVE (a \o b)[j] = IF j < i THEN s[j] ELSE s[j + 1]
  <2>1. (a \o b)[j] = IF j <= i - 1 THEN a[j] ELSE b[j - (i - 1)]
    BY <1>2, <1>4, <1>5
  <2>2. CASE j < i
    BY <1>1, <1>2, <2>1, <2>2
  <2>3. CASE ~(j < i)
    <3>1. j - (i - 1) \in 1 .. Len(s) - i /\ i + (j - (i - 1)) = j + 1
      BY <1>1, <2>3
    <3> QED
      BY <1>1, <1>3, <2>1, <2>3, <3>1
  <2> QED
    BY <2>2, <2>3
<1>7. RemoveAt(s, i) = a \o b
  BY DEF RemoveAt, a, b
<1> QED
  BY <1>4, <1>5, <1>6, <1>7

(* An element that is removed takes its units.                             *)
LEMMA UnitsRemove ==
  ASSUME NEW R, Countable(R), NEW s, s \in Seq(R), NEW i, i \in DOMAIN s
  PROVE  Units(s) = Units(RemoveAt(s, i)) + s[i].quantity
<1> DEFINE t == RemoveAt(s, i)
           S == DOMAIN t
           T == DOMAIN s \ {i}
           f == [j \in S |-> IF j < i THEN j ELSE j + 1]
           u == Part(s, T)
<1>1. Len(s) \in Nat /\ DOMAIN s = 1 .. Len(s) /\ i \in 1 .. Len(s)
  BY SeqItem
<1>2. t \in Seq(R) /\ S = 1 .. Len(s) - 1 /\ \A j \in S : t[j] = IF j < i THEN s[j] ELSE s[j + 1]
  BY Removed
<1> HIDE DEF t
<1>3. f \in [S -> T]
  BY <1>1, <1>2
<1>4. \A j, k \in S : f[j] = f[k] => j = k
  BY <1>1, <1>2
<1>5. \A k \in T : \E j \in S : f[j] = k
  <2> SUFFICES ASSUME NEW k \in T PROVE \E j \in S : f[j] = k
    OBVIOUS
  <2>1. CASE k < i
    <3>1. k \in S /\ f[k] = k
      BY <1>1, <1>2, <2>1
    <3> QED
      BY <3>1
  <2>2. CASE ~(k < i)
    <3>1. k - 1 \in S /\ f[k - 1] = k
      BY <1>1, <1>2, <2>2
    <3> QED
      BY <3>1
  <2> QED
    BY <2>1, <2>2
<1>6. /\ IsFiniteSet(S) /\ IsFiniteSet(DOMAIN s) /\ Units(t) \in Nat
      /\ \A j \in DOMAIN s : s[j].quantity \in Int
  BY <1>2, UnitsOfSeq
<1>7. DOMAIN u = T /\ \A j \in T : u[j] = s[j]
  BY DEF Part
<1>8. \A j \in S : t[j].quantity = u[f[j]].quantity
  BY <1>2, <1>3, <1>7
<1>9. \A j \in T : u[j].quantity \in Int
  BY <1>6, <1>7
<1> HIDE DEF f, u
<1>10. Units(s) = s[i].quantity + Units(u)
  <2>1. Units(s) = s[i].quantity + Units(Part(s, DOMAIN s \ {i}))
    BY <1>6, UnitsSplit
  <2> QED
    BY <2>1 DEF u
<1> HIDE DEF S, T
<1>11. Units(t) = Units(u)
  <2>1. DOMAIN t = S
    BY DEF S
  <2> QED
    BY ONLY <1>3, <1>4, <1>5, <1>6, <1>7, <1>8, <1>9, <2>1, UnitsRenamed
<1>12. s[i].quantity \in Int
  BY <1>6
<1>13. Units(s) = Units(t) + s[i].quantity
  BY ONLY <1>6, <1>10, <1>11, <1>12
<1> QED
  BY <1>13 DEF t

(* A change of one element changes the units by as much.                   *)
LEMMA UnitsChange ==
  ASSUME NEW R, Countable(R), NEW s, s \in Seq(R), NEW t, t \in Seq(R), DOMAIN t = DOMAIN s,
         NEW i, i \in DOMAIN s, \A j \in DOMAIN s : j # i => t[j] = s[j]
  PROVE  Units(t) = Units(s) + t[i].quantity - s[i].quantity
<1> DEFINE S == DOMAIN s
           u == Part(s, S \ {i})
           v == Part(t, S \ {i})
<1>1. u = v
  BY DEF Part
<1>2. /\ IsFiniteSet(S) /\ i \in S /\ DOMAIN s = S /\ DOMAIN t = S
      /\ \A j \in S : s[j].quantity \in Int
      /\ \A j \in S : t[j].quantity \in Int
      /\ Units(s) \in Nat /\ Units(t) \in Nat
  BY UnitsOfSeq
<1> HIDE DEF S
<1>3. Units(s) = s[i].quantity + Units(u) /\ Units(u) \in Int
  BY ONLY <1>2, UnitsSplit
<1>4. Units(t) = t[i].quantity + Units(v)
  BY ONLY <1>2, UnitsSplit
<1>5. s[i].quantity \in Int /\ t[i].quantity \in Int
  BY <1>2
<1> HIDE DEF u, v
<1> QED
  BY ONLY <1>1, <1>2, <1>3, <1>4, <1>5

-----------------------------------------------------------------------------
(* The elements of a sequence at some of its places.                       *)

Rank(places, i) == Cardinality({j \in places : j <= i})

(* The places have the ranks from 1 to their number, each rank one place.  *)
LEMMA Ranked ==
  ASSUME NEW n \in Nat, NEW P, P \subseteq 1 .. n
  PROVE  /\ IsFiniteSet(P) /\ Cardinality(P) \in Nat
         /\ \A k \in 1 .. Cardinality(P) : Nth(P, k) \in P /\ Rank(P, Nth(P, k)) = k
         /\ \A i \in P : Rank(P, i) \in 1 .. Cardinality(P) /\ Nth(P, Rank(P, i)) = i
         /\ \A i, k \in P : i < k => Rank(P, i) < Rank(P, k)
<1> DEFINE N == Cardinality(P)
           Upto(i) == {j \in P : j <= i}
           r == [i \in P |-> Cardinality(Upto(i))]
<1>1. IsFiniteSet(P) /\ N \in Nat
  <2>1. IsFiniteSet(1 .. n)
    BY FS_Interval
  <2> QED
    BY <2>1, FS_Subset, FS_CardinalityType
<1>2. \A i \in P : IsFiniteSet(Upto(i)) /\ Cardinality(Upto(i)) \in 1 .. N
  <2> SUFFICES ASSUME NEW i \in P
               PROVE  IsFiniteSet(Upto(i)) /\ Cardinality(Upto(i)) \in 1 .. N
    OBVIOUS
  <2>1. Upto(i) \subseteq P /\ i \in Upto(i)
    OBVIOUS
  <2> HIDE DEF Upto
  <2>2. IsFiniteSet(Upto(i)) /\ Cardinality(Upto(i)) \in Nat /\ Cardinality(Upto(i)) <= N
    BY <1>1, <2>1, FS_Subset, FS_CardinalityType
  <2>3. Cardinality(Upto(i)) # 0
    BY <2>1, <2>2, FS_EmptySet
  <2> QED
    BY <1>1, <2>2, <2>3
<1>3. \A i, k \in P : i < k => Cardinality(Upto(i)) < Cardinality(Upto(k))
  <2> SUFFICES ASSUME NEW i \in P, NEW k \in P, i < k
               PROVE  Cardinality(Upto(i)) < Cardinality(Upto(k))
    OBVIOUS
  <2>1. Upto(i) \subseteq Upto(k) /\ k \in Upto(k) /\ k \notin Upto(i)
    <3>1. (\A j \in P : j \in Nat) /\ k \in Nat /\ i \in Nat
      OBVIOUS
    <3>2. \A j \in P : j <= i => j <= k
      BY <3>1
    <3>3. k <= k /\ ~(k <= i)
      BY <3>1
    <3> QED
      BY <3>2, <3>3
  <2> HIDE DEF Upto
  <2>2. Cardinality(Upto(i)) <= Cardinality(Upto(k)) /\ Cardinality(Upto(i)) # Cardinality(Upto(k))
    BY <1>2, <2>1, FS_Subset
  <2> QED
    BY <1>2, <2>2
<1>4. r \in Injection(P, 1 .. N)
  <2>1. r \in [P -> 1 .. N]
    BY <1>2
  <2>2. ASSUME NEW i \in P, NEW k \in P, r[i] = r[k] PROVE i = k
    <3>1. i \in Nat /\ k \in Nat /\ r[i] = Cardinality(Upto(i)) /\ r[k] = Cardinality(Upto(k))
      OBVIOUS
    <3>2. ~(i < k) /\ ~(k < i)
      BY <1>2, <1>3, <2>2, <3>1
    <3> QED
      BY <3>1, <3>2
  <2> QED
    BY <2>1, <2>2 DEF Injection, IsInjective
<1>5. r \in Surjection(P, 1 .. N)
  <2>1. IsFiniteSet(1 .. N) /\ Cardinality(1 .. N) = N
    BY <1>1, FS_Interval
  <2> HIDE DEF r
  <2> QED
    BY <1>4, <2>1, FS_Injection
<1>6. \A i \in P : r[i] = Rank(P, i)
  BY DEF Rank
<1>7. ASSUME NEW k \in 1 .. N PROVE Nth(P, k) \in P /\ Rank(P, Nth(P, k)) = k
  <2>1. \E i \in P : Rank(P, i) = k
    BY <1>5, <1>6 DEF Surjection
  <2> QED
    BY <2>1 DEF Nth, Rank
<1>8. ASSUME NEW i \in P PROVE Rank(P, i) \in 1 .. N /\ Nth(P, Rank(P, i)) = i
  <2>1. Rank(P, i) \in 1 .. N
    BY <1>2 DEF Rank
  <2>2. Nth(P, Rank(P, i)) \in P /\ Rank(P, Nth(P, Rank(P, i))) = Rank(P, i)
    BY <1>7, <2>1
  <2>3. \A j \in P : Rank(P, j) = Rank(P, i) => j = i
    BY <1>4, <1>6 DEF Injection, IsInjective
  <2> QED
    BY <2>1, <2>2, <2>3
<1>9. \A i, k \in P : i < k => Rank(P, i) < Rank(P, k)
  BY <1>3 DEF Rank
<1> QED
  BY <1>1, <1>7, <1>8, <1>9

(* A subsequence is one of elements of the sequence.                       *)
LEMMA SubsequenceItems ==
  ASSUME NEW R, NEW s, s \in Seq(R), NEW P, P \subseteq DOMAIN s
  PROVE  /\ Subsequence(s, P) \in Seq(R) /\ DOMAIN Subsequence(s, P) = 1 .. Cardinality(P)
         /\ IsFiniteSet(P)
         /\ \A k \in DOMAIN Subsequence(s, P) :
              Nth(P, k) \in P /\ Subsequence(s, P)[k] = s[Nth(P, k)]
<1>1. Len(s) \in Nat /\ P \subseteq 1 .. Len(s) /\ \A i \in P : s[i] \in R
  BY SeqItem
<1>2. /\ IsFiniteSet(P) /\ Cardinality(P) \in Nat
      /\ \A k \in 1 .. Cardinality(P) : Nth(P, k) \in P
  BY <1>1, Ranked
<1>3. Subsequence(s, P) = [k \in 1 .. Cardinality(P) |-> s[Nth(P, k)]]
  BY DEF Subsequence
<1>4. \A k \in 1 .. Cardinality(P) : s[Nth(P, k)] \in R
  BY <1>1, <1>2
<1>5. [k \in 1 .. Cardinality(P) |-> s[Nth(P, k)]] \in Seq(R)
  BY <1>2, <1>4
<1> QED
  BY <1>2, <1>3, <1>5

(* Its units are those at its places.                                      *)
LEMMA UnitsSubsequence ==
  ASSUME NEW R, Countable(R), NEW s, s \in Seq(R), NEW P, P \subseteq DOMAIN s
  PROVE  Units(Subsequence(s, P)) = Units(Part(s, P))
<1> DEFINE S == 1 .. Cardinality(P)
           f == [k \in S |-> Nth(P, k)]
           t == Subsequence(s, P)
           u == Part(s, P)
<1>1. /\ Len(s) \in Nat /\ P \subseteq 1 .. Len(s) /\ \A i \in P : s[i].quantity \in Int
  BY SeqItem DEF Countable
<1>2. /\ IsFiniteSet(P) /\ Cardinality(P) \in Nat
      /\ \A k \in S : Nth(P, k) \in P /\ Rank(P, Nth(P, k)) = k
      /\ \A i \in P : Rank(P, i) \in S /\ Nth(P, Rank(P, i)) = i
  BY <1>1, Ranked
<1>3. IsFiniteSet(S)
  BY <1>2, FS_Interval
<1>4. f \in [S -> P] /\ \A j, k \in S : f[j] = f[k] => j = k
  BY <1>2
<1>5. \A i \in P : \E k \in S : f[k] = i
  BY <1>2
<1>6. DOMAIN u = P /\ \A i \in P : u[i].quantity \in Int
  BY <1>1 DEF Part
<1>7. DOMAIN t = S /\ \A k \in S : t[k].quantity = u[f[k]].quantity
  <2>1. DOMAIN t = S /\ \A k \in S : t[k] = s[Nth(P, k)]
    BY DEF Subsequence
  <2>2. \A k \in S : u[f[k]] = s[Nth(P, k)]
    BY <1>2 DEF Part
  <2> QED
    BY <2>1, <2>2
<1> HIDE DEF S, f, t, u
<1>8. Units(t) = Units(u)
  BY ONLY <1>3, <1>4, <1>5, <1>6, <1>7, UnitsRenamed
<1> QED
  BY <1>8 DEF t, u

(* An element appended to a sequence is appended to its subsequence, or    *)
(* makes no difference to it.                                              *)
LEMMA SubsequenceAppend ==
  ASSUME NEW R, NEW s, s \in Seq(R), NEW e, e \in R, NEW P, P \subseteq DOMAIN s
  PROVE  /\ Subsequence(Append(s, e), P) = Subsequence(s, P)
         /\ Subsequence(Append(s, e), P \cup {Len(s) + 1}) = Append(Subsequence(s, P), e)
<1> DEFINE n == Len(s) + 1
           Q == P \cup {n}
           N == Cardinality(P)
           t == Append(s, e)
<1>1. n \in Nat /\ P \subseteq 1 .. n - 1 /\ P \subseteq 1 .. n /\ Q \subseteq 1 .. n /\ n \notin P
  BY SeqItem
<1>2. t[n] = e /\ \A i \in P : t[i] = s[i]
  BY SeqItem
<1>3. /\ IsFiniteSet(P) /\ N \in Nat
      /\ \A k \in 1 .. N : Nth(P, k) \in P /\ Rank(P, Nth(P, k)) = k
  BY <1>1, Ranked
<1>4. Cardinality(Q) = N + 1
  BY <1>1, <1>3, FS_AddElement
<1>5. Subsequence(t, P) = Subsequence(s, P)
  BY <1>2, <1>3 DEF Subsequence
<1>6. \A i \in P : Rank(Q, i) = Rank(P, i)
  <2> SUFFICES ASSUME NEW i \in P PROVE {j \in Q : j <= i} = {j \in P : j <= i}
    BY DEF Rank
  <2> QED
    BY <1>1
<1>7. Rank(Q, n) = N + 1
  <2>1. {j \in Q : j <= n} = Q
    BY <1>1
  <2> QED
    BY <1>4, <2>1 DEF Rank
<1>8. \A i \in Q : Nth(Q, Rank(Q, i)) = i
  BY <1>1, Ranked
<1>9. Nth(Q, N + 1) = n /\ \A k \in 1 .. N : Nth(Q, k) = Nth(P, k)
  <2>1. \A k \in 1 .. N : Nth(P, k) \in Q /\ Rank(Q, Nth(P, k)) = k
    BY <1>3, <1>6
  <2> HIDE DEF Q, n
  <2>2. n \in Q
    BY DEF Q
  <2> QED
    BY <1>7, <1>8, <2>1, <2>2
<1>10. Subsequence(s, P) \in Seq(R) /\ Len(Subsequence(s, P)) = N
  BY <1>3, SubsequenceItems
<1>11. Subsequence(t, Q) = Append(Subsequence(s, P), e)
  <2> DEFINE a == Subsequence(t, Q)
             b == Append(Subsequence(s, P), e)
  <2>1. b \in Seq(R) /\ Len(b) = N + 1 /\ b[N + 1] = e
    BY <1>10
  <2>2. \A k \in 1 .. N : b[k] = s[Nth(P, k)]
    <3>1. \A k \in 1 .. N : Subsequence(s, P)[k] = s[Nth(P, k)]
      BY DEF Subsequence
    <3> QED
      BY <1>3, <1>10, <3>1
  <2>3. a = [k \in 1 .. N + 1 |-> t[Nth(Q, k)]]
    BY <1>4 DEF Subsequence
  <2>4. \A k \in 1 .. N : t[Nth(Q, k)] = b[k]
    BY <1>2, <1>3, <1>9, <2>2
  <2>5. t[Nth(Q, N + 1)] = b[N + 1]
    BY <1>2, <1>9, <2>1
  <2> HIDE DEF a, b, t, Q, N
  <2>6. \A k \in 1 .. N + 1 : t[Nth(Q, k)] = b[k]
    <3>1. \A k \in 1 .. N + 1 : k \in 1 .. N \/ k = N + 1
      BY <1>3
    <3> QED
      BY <2>4, <2>5, <3>1
  <2>7. DOMAIN b = 1 .. N + 1 /\ b = [k \in DOMAIN b |-> b[k]]
    BY <2>1, <1>3
  <2>8. a = b
    BY ONLY <2>3, <2>6, <2>7
  <2> QED
    BY <2>8 DEF a, b
<1> QED
  BY <1>5, <1>11


-----------------------------------------------------------------------------
(* The customers' views.                                                   *)

LEMMA ViewsType ==
  ASSUME NEW s, s \in Seq(Entries)
  PROVE  ViewsOf(s) \in [Customers -> Seq(Entries)]
<1>1. \A c \in Customers : OfCustomer(s, c) \in Seq(Entries)
  <2> SUFFICES ASSUME NEW c \in Customers PROVE OfCustomer(s, c) \in Seq(Entries)
    OBVIOUS
  <2> DEFINE P == {i \in DOMAIN s : s[i].customer = c}
  <2>1. P \subseteq DOMAIN s
    OBVIOUS
  <2> HIDE DEF P
  <2>2. Subsequence(s, P) \in Seq(Entries)
    BY <2>1, SubsequenceItems
  <2> QED
    BY <2>2 DEF OfCustomer, P
<1> QED
  BY <1>1 DEF ViewsOf

(* A new order of a customer goes to the end of its view.                  *)
LEMMA ViewsAppend ==
  ASSUME NEW s, s \in Seq(Entries), NEW e, e \in Entries
  PROVE  ViewsOf(Append(s, e)) = [ViewsOf(s) EXCEPT ![e.customer] = Append(@, e)]
<1> DEFINE t == Append(s, e)
           n == Len(s) + 1
           P(c) == {i \in DOMAIN s : s[i].customer = c}
           Q(c) == {i \in DOMAIN t : t[i].customer = c}
<1>1. DOMAIN s = 1 .. n - 1 /\ n \in Nat \ {0}
  BY SeqItem
<1>2. DOMAIN t = 1 .. n /\ t[n] = e /\ \A i \in DOMAIN s : t[i] = s[i]
  BY SeqItem
<1>3. DOMAIN t = DOMAIN s \cup {n} /\ n \notin DOMAIN s
  <2>1. \A k \in Nat \ {0} : 1 .. k = (1 .. k - 1) \cup {k} /\ k \notin 1 .. k - 1
    OBVIOUS
  <2> QED
    BY <1>1, <1>2, <2>1
<1> HIDE DEF t, n
<1>4. ASSUME NEW c \in Customers
      PROVE  /\ Q(c) = IF e.customer = c THEN P(c) \cup {n} ELSE P(c)
             /\ P(c) \subseteq DOMAIN s
  BY <1>2, <1>3
<1> HIDE DEF P, Q
<1>5. ASSUME NEW c \in Customers
      PROVE  Subsequence(t, Q(c)) = IF e.customer = c THEN Append(Subsequence(s, P(c)), e)
                                                      ELSE Subsequence(s, P(c))
  <2>1. /\ Subsequence(t, P(c)) = Subsequence(s, P(c))
        /\ Subsequence(t, P(c) \cup {n}) = Append(Subsequence(s, P(c)), e)
    BY <1>4, SubsequenceAppend DEF t, n
  <2> QED
    BY <1>4, <2>1
<1>6. \A c \in Customers : /\ OfCustomer(t, c) = Subsequence(t, Q(c))
                           /\ OfCustomer(s, c) = Subsequence(s, P(c))
  BY DEF OfCustomer, P, Q
<1>7. e.customer \in Customers
  BY DEF Entries
<1>8. ViewsOf(t) = [ViewsOf(s) EXCEPT ![e.customer] = Append(@, e)]
  BY <1>5, <1>6, <1>7 DEF ViewsOf
<1> QED
  BY <1>8 DEF t

(* Without orders the views are empty.                                     *)
LEMMA ViewsEmpty == \A c \in Customers : ViewsOf(<< >>)[c] = << >>
<1> SUFFICES ASSUME NEW c \in Customers PROVE OfCustomer(<< >>, c) = << >>
  BY DEF ViewsOf
<1>1. {i \in DOMAIN << >> : << >>[i].customer = c} = {}
  OBVIOUS
<1>2. Cardinality({}) = 0
  BY FS_EmptySet
<1>3. Subsequence(<< >>, {}) = << >>
  BY <1>2 DEF Subsequence
<1> QED
  BY <1>1, <1>3 DEF OfCustomer

(* No orders, put together, are no orders.                                 *)
LEMMA FlattenEmpty ==
  ASSUME NEW n \in Nat
  PROVE  FlattenSeq([i \in 1 .. n |-> << >>]) = << >>
<1> DEFINE s == [i \in 1 .. n |-> << >>]
           D == 1 .. n
           F(g) == [i \in D |-> IF i = 1 THEN s[i] ELSE g[i - 1] \o s[i]]
           flat == CHOOSE g : g = F(g)
<1>1. Len(s) = n /\ s \in Seq({<< >>})
  OBVIOUS
<1>2. CASE n = 0
  BY <1>1, <1>2 DEF FlattenSeq
<1>3. CASE n # 0
  <2>1. FlattenSeq(s) = flat[n]
    BY <1>1, <1>3 DEF FlattenSeq
  <2>2. s = F(s)
    OBVIOUS
  <2> HIDE DEF F
  <2>3. flat = F(flat)
    BY <2>2
  <2> HIDE DEF flat
  <2>4. \A i \in D : flat[i] = IF i = 1 THEN << >> ELSE flat[i - 1] \o << >>
    BY <2>3 DEF F
  <2> DEFINE T == {i \in D : flat[i] # << >>}
  <2>5. T = {}
    <3> SUFFICES ASSUME T # {} PROVE FALSE
      OBVIOUS
    <3>1. T \subseteq Nat
      OBVIOUS
    <3>2. PICK i \in T : \A k \in T : i <= k
      BY <3>1, Smallest
    <3>3. i \in D /\ i # 1 /\ i - 1 \in D /\ i - 1 \notin T
      BY <2>4, <3>2
    <3>4. flat[i] = << >> \o << >>
      BY <2>4, <3>3
    <3> QED
      BY <3>2, <3>4
  <2> QED
    BY <1>3, <2>1, <2>5
<1> QED
  BY <1>2, <1>3

(* While the views follow the backlog, the effective backlog is that of    *)
(* the plant: nothing comes back from the customers' copies.               *)
LEMMA EffectiveIsBacklog ==
  ASSUME backlog \in Seq(Entries), views = ViewsOf(backlog)
  PROVE  EffectiveBacklog = backlog
<1>1. CASE backlog # << >>
  BY <1>1 DEF EffectiveBacklog
<1>2. CASE backlog = << >>
  <2> DEFINE n == Len(CustomerList)
  <2>1. n \in Nat /\ DOMAIN CustomerList = 1 .. n /\ \A i \in 1 .. n : CustomerList[i] \in Customers
    BY PartyAssumption
  <2>2. [i \in DOMAIN CustomerList |-> views[CustomerList[i]]] = [i \in 1 .. n |-> << >>]
    BY <1>2, <2>1, ViewsEmpty
  <2> HIDE DEF n
  <2> QED
    BY <1>2, <2>1, <2>2, FlattenEmpty DEF EffectiveBacklog
<1> QED
  BY <1>1, <1>2


-----------------------------------------------------------------------------
(* Goods and holds.                                                        *)

(* The smaller of two numbers is one of them.                              *)
LEMMA MinOfTwo ==
  ASSUME NEW a \in Nat, NEW b \in Nat
  PROVE  Min({a, b}) \in Nat /\ Min({a, b}) \in {a, b} /\ Min({a, b}) <= a /\ Min({a, b}) <= b
<1>1. \E x \in {a, b} : \A y \in {a, b} : x <= y
  BY SMT
<1>2. Min({a, b}) \in {a, b} /\ \A y \in {a, b} : Min({a, b}) <= y
  BY <1>1 DEF Min
<1> QED
  BY <1>2

(* The larger of two numbers is one of them.                               *)
LEMMA MaxOfTwo ==
  ASSUME NEW a \in Nat, NEW b \in Nat
  PROVE  Max({a, b}) \in Nat /\ Max({a, b}) \in {a, b} /\ Max({a, b}) >= a /\ Max({a, b}) >= b
<1>1. \E x \in {a, b} : \A y \in {a, b} : x >= y
  BY SMT
<1>2. Max({a, b}) \in {a, b} /\ \A y \in {a, b} : Max({a, b}) >= y
  BY <1>1 DEF Max
<1> QED
  BY <1>2

(* The first of some places is one of them.                                *)
LEMMA FirstPlace ==
  ASSUME NEW P, P \subseteq Nat, P # {}
  PROVE  Min(P) \in P
BY Smallest DEF Min

(* Between two costs of a set.                                             *)
Between(C, cost) == \E low, high \in C : low <= cost /\ cost <= high

(* The average of two values, rounded down, lies between what both lie     *)
(* between.                                                                *)
LEMMA AverageBetween ==
  ASSUME NEW m \in Nat, NEW n \in Nat, m + n > 0, NEW a \in Nat, NEW b \in Nat,
         NEW low \in Nat, NEW high \in Nat,
         m > 0 => low <= a /\ a <= high, n > 0 => low <= b /\ b <= high
  PROVE  /\ (m * a + n * b) \div (m + n) \in Nat
         /\ low <= (m * a + n * b) \div (m + n) /\ (m * a + n * b) \div (m + n) <= high
<1> DEFINE v == m * a + n * b
           d == m + n
           q == v \div d
<1>0. \A k, x, y \in Nat : (k > 0 => x <= y) => k * x <= k * y
  <2> SUFFICES ASSUME NEW k \in Nat, NEW x \in Nat, NEW y \in Nat, k > 0 => x <= y
               PROVE  k * x <= k * y
    OBVIOUS
  <2>1. CASE k = 0
    BY <2>1
  <2>2. CASE k > 0
    <3>1. PICK z \in Nat : y = x + z
      <4>1. y - x \in Nat /\ y = x + (y - x)
        BY <2>2
      <4> QED
        BY <4>1
    <3>2. k * y = k * x + k * z /\ k * z \in Nat /\ k * x \in Nat
      BY <3>1
    <3> QED
      BY <3>2
  <2> QED
    BY <2>1, <2>2
<1>1. v \in Nat /\ d \in Nat \ {0}
  OBVIOUS
<1>2. m * low <= m * a /\ m * a <= m * high
  BY <1>0
<1>3. n * low <= n * b /\ n * b <= n * high
  BY <1>0
<1>4. d * low = m * low + n * low /\ d * high = m * high + n * high
  OBVIOUS
<1>5. d * low <= v /\ v <= d * high
  <2>1. /\ m * low \in Nat /\ n * low \in Nat /\ m * a \in Nat /\ n * b \in Nat
        /\ m * high \in Nat /\ n * high \in Nat
    OBVIOUS
  <2> QED
    BY <1>2, <1>3, <1>4, <2>1
<1> HIDE DEF v, d
<1>6. q \in Nat /\ d * q <= v /\ v < d * q + d
  BY <1>1
<1> HIDE DEF q
<1>7. low <= q
  <2> SUFFICES ASSUME q < low PROVE FALSE
    BY <1>6
  <2>1. d * (q + 1) <= d * low
    BY <1>0, <1>1, <1>6
  <2>2. d * (q + 1) = d * q + d /\ d * q \in Nat /\ d * low \in Nat
    BY <1>1, <1>6
  <2> QED
    BY <1>1, <1>5, <1>6, <2>1, <2>2
<1>8. q <= high
  <2> SUFFICES ASSUME high < q PROVE FALSE
    BY <1>6
  <2>1. d * (high + 1) <= d * q
    BY <1>0, <1>1, <1>6
  <2>2. d * (high + 1) = d * high + d /\ d * q \in Nat /\ d * high \in Nat
    BY <1>1, <1>6
  <2> QED
    BY <1>1, <1>5, <1>6, <2>1, <2>2
<1> QED
  BY <1>6, <1>7, <1>8 DEF q, v, d

(* Units put into stock: their number, and a cost between those of what    *)
(* was there and what comes.                                               *)
LEMMA StockedEffect ==
  ASSUME NEW item \in Goods, item.units = 0 => item.cost = 0,
         NEW units \in Nat, NEW cost \in Nat
  PROVE  /\ Stocked(item, units, cost) \in Goods
         /\ Stocked(item, units, cost).units = item.units + units
         /\ Stocked(item, units, cost).units = 0 => Stocked(item, units, cost).cost = 0
         /\ \A C \in SUBSET Nat :
              /\ item.units > 0 => Between(C, item.cost)
              /\ units > 0 => Between(C, cost)
              /\ item.units + units > 0
              => Between(C, Stocked(item, units, cost).cost)
<1> DEFINE new == Stocked(item, units, cost)
<1>1. item.units \in Nat /\ item.cost \in Nat
  BY DEF Goods
<1>2. CASE units = 0
  BY <1>1, <1>2 DEF Stocked
<1>3. CASE units > 0 /\ item.cost = 0
  <2>1. new = [units |-> item.units + units, cost |-> cost]
    BY <1>3 DEF Stocked
  <2> QED
    BY <1>1, <1>3, <2>1 DEF Goods
<1>4. CASE units > 0 /\ item.cost > 0 /\ cost = 0
  <2>1. new = [item EXCEPT !.units = @ + units]
    BY <1>4 DEF Stocked
  <2>2. new.units = item.units + units /\ new.cost = item.cost /\ new \in Goods /\ item.units > 0
    BY <1>1, <1>4, <2>1 DEF Goods
  <2> QED
    BY <1>1, <1>4, <2>2
<1>5. CASE units > 0 /\ item.cost > 0 /\ cost > 0
  <2>1. new = [units |-> item.units + units, cost |-> Average(item, units, cost)]
    BY <1>1, <1>5 DEF Stocked
  <2>2. Average(item, units, cost)
          = (item.units * item.cost + units * cost) \div (item.units + units)
    BY DEF Average
  <2>3. Average(item, units, cost) \in Nat
    <3>1. \E low, high \in Nat : /\ low <= item.cost /\ item.cost <= high
                                 /\ low <= cost /\ cost <= high
      <4>1. 0 <= item.cost /\ item.cost <= item.cost + cost
            /\ 0 <= cost /\ cost <= item.cost + cost /\ item.cost + cost \in Nat
        BY <1>1
      <4> QED
        BY <4>1
    <3> QED
      BY <1>1, <1>5, <2>2, <3>1, AverageBetween
  <2>4. new \in Goods /\ new.units = item.units + units /\ new.cost = Average(item, units, cost)
    BY <1>1, <2>1, <2>3 DEF Goods
  <2>5. ASSUME NEW C \in SUBSET Nat, Between(C, item.cost), Between(C, cost)
        PROVE  Between(C, Average(item, units, cost))
    <3>1. PICK l1 \in C, h1 \in C : l1 <= item.cost /\ item.cost <= h1
      BY <2>5 DEF Between
    <3>2. PICK l2 \in C, h2 \in C : l2 <= cost /\ cost <= h2
      BY <2>5 DEF Between
    <3>3. l1 \in Nat /\ h1 \in Nat /\ l2 \in Nat /\ h2 \in Nat
      OBVIOUS
    <3>4. PICK low \in {l1, l2} : low <= l1 /\ low <= l2
      BY <3>3
    <3>5. PICK high \in {h1, h2} : h1 <= high /\ h2 <= high
      BY <3>3
    <3>6. low \in Nat /\ high \in Nat /\ low \in C /\ high \in C
      BY <3>3
    <3>7. low <= item.cost /\ item.cost <= high /\ low <= cost /\ cost <= high
      BY <1>1, <3>1, <3>2, <3>3, <3>4, <3>5, <3>6
    <3>8. low <= Average(item, units, cost) /\ Average(item, units, cost) <= high
      BY <1>1, <1>5, <2>2, <3>6, <3>7, AverageBetween
    <3> QED
      BY <3>6, <3>8 DEF Between
  <2> QED
    BY <1>1, <1>5, <2>4, <2>5
<1> QED
  BY <1>1, <1>2, <1>3, <1>4, <1>5


(* Units taken out of stock: what is left keeps its cost.                  *)
LEMMA TakenEffect ==
  ASSUME NEW item \in Goods, item.units = 0 => item.cost = 0,
         NEW units \in Nat, units <= item.units
  PROVE  /\ Taken(item, units) \in Goods
         /\ Taken(item, units).units = item.units - units
         /\ Taken(item, units).units = 0 => Taken(item, units).cost = 0
         /\ Taken(item, units).units > 0 => Taken(item, units).cost = item.cost /\ item.units > 0
<1>1. item.units \in Nat /\ item.cost \in Nat
  BY DEF Goods
<1>2. CASE units = item.units
  BY <1>1, <1>2 DEF Taken, Goods
<1>3. CASE units # item.units
  <2>1. Taken(item, units) = [item EXCEPT !.units = @ - units]
    BY <1>3 DEF Taken
  <2>2. /\ Taken(item, units).units = item.units - units /\ Taken(item, units).cost = item.cost
        /\ item.units - units \in Nat \ {0}
    BY <1>1, <1>3, <2>1 DEF Goods
  <2>3. Taken(item, units) \in Goods
    BY <1>1, <1>3, <2>1 DEF Goods
  <2> QED
    BY <1>1, <2>2, <2>3
<1> QED
  BY <1>2, <1>3

(* Units in stock before and after those of one product change.            *)
LEMMA InStockChange ==
  ASSUME NEW old, old \in [Products -> Goods], NEW p, p \in Products, NEW item, item \in Goods
  PROVE  /\ [old EXCEPT ![p] = item] \in [Products -> Goods]
         /\ InStock([old EXCEPT ![p] = item]) = InStock(old) + item.units - old[p].units
         /\ InStock(old) \in Nat
<1> DEFINE new == [old EXCEPT ![p] = item]
           w == [q \in Products |-> old[q].units]
           v == [q \in Products |-> new[q].units]
<1>1. new \in [Products -> Goods] /\ new[p] = item /\ \A q \in Products : q # p => new[q] = old[q]
  OBVIOUS
<1> HIDE DEF new
<1>2. /\ w \in [Products -> Nat] /\ w \in [Products -> Int] /\ v \in [Products -> Int]
      /\ p \in Products /\ IsFiniteSet(Products)
      /\ \A q \in Products : q # p => v[q] = w[q]
  BY <1>1, PartyAssumption DEF Goods
<1>3. w[p] = old[p].units /\ v[p] = item.units
  BY <1>1
<1>4. InStock(old) = SumFunction(w) /\ InStock(new) = SumFunction(v)
  BY DEF InStock
<1> HIDE DEF w, v
<1>5. SumFunction(v) = SumFunction(w) + v[p] - w[p]
  BY ONLY <1>2, SumChange
<1>6. SumFunction(w) \in Nat
  BY ONLY <1>2, SumType
<1> QED
  BY <1>1, <1>3, <1>4, <1>5, <1>6 DEF new

(* Units that go on hold: holds stay merged, count them, and have the cost *)
(* of a hold that was there or of the new one.                             *)
LEMMA HoldEffect ==
  ASSUME NEW held, held \in Seq(Holds), Merged(held), NEW new, new \in Holds
  PROVE  /\ Hold(held, new) \in Seq(Holds) /\ Merged(Hold(held, new))
         /\ Units(Hold(held, new)) = Units(held) + new.quantity
         /\ \A i \in DOMAIN Hold(held, new) :
              \/ \E j \in DOMAIN held : /\ Hold(held, new)[i].product = held[j].product
                                        /\ Hold(held, new)[i].cost = held[j].cost
              \/ new.quantity > 0 /\ Hold(held, new)[i].product = new.product
                                  /\ Hold(held, new)[i].cost = new.cost
<1> DEFINE t == Hold(held, new)
           u == [i \in DOMAIN held |->
                   IF Joins(held[i], new) THEN Joined(held[i], new) ELSE held[i]]
<1>1. /\ DOMAIN held = 1 .. Len(held) /\ Len(held) \in Nat
      /\ \A i \in DOMAIN held : held[i] \in Holds
  BY SeqItem
<1>3. ASSUME NEW h \in Holds
      PROVE  /\ Joined(h, new) \in Holds /\ Joined(h, new).quantity = h.quantity + new.quantity
             /\ Joined(h, new).product = h.product /\ Joined(h, new).release = h.release
             /\ Joined(h, new).reason = h.reason
             /\ Joined(h, new).cost = IF h.cost = 0 THEN new.cost ELSE h.cost
  <2> DEFINE c == IF h.cost = 0 THEN new.cost ELSE h.cost
             q == h.quantity + new.quantity
  <2>1. Joined(h, new) = [h EXCEPT !.quantity = q, !.cost = c]
    BY DEF Joined
  <2>2. c \in Nat /\ q \in Nat
    BY DEF Holds
  <2> HIDE DEF c, q
  <2>3. [h EXCEPT !.quantity = q, !.cost = c] \in Holds
    BY <2>2 DEF Holds
  <2>4. /\ Joined(h, new).quantity = q /\ Joined(h, new).product = h.product
        /\ Joined(h, new).release = h.release /\ Joined(h, new).reason = h.reason
        /\ Joined(h, new).cost = c
    BY <2>1 DEF Holds
  <2> QED
    BY <2>1, <2>3, <2>4 DEF c, q
<1>4. new.quantity \in Nat /\ Countable(Holds) /\ Units(held) \in Nat
  BY ItemsCountable, UnitsOfSeq DEF Holds
<1>5. CASE new.quantity = 0
  <2>1. t = held
    BY <1>5 DEF Hold
  <2> QED
    BY <1>4, <1>5, <2>1
<1>6. CASE new.quantity > 0 /\ \E i \in DOMAIN held : Joins(held[i], new)
  <2>1. PICK k \in DOMAIN held : Joins(held[k], new)
    BY <1>6
  <2>2. \A i \in DOMAIN held : Joins(held[i], new) <=> i = k
    BY <2>1 DEF Merged, Joins
  <2>4. t = u
    BY <1>4, <1>6 DEF Hold
  <2>5. \A i \in DOMAIN held : u[i] = IF i = k THEN Joined(held[i], new) ELSE held[i]
    BY <2>2
  <2>6. u \in Seq(Holds) /\ DOMAIN u = DOMAIN held
    <3>1. \A i \in 1 .. Len(held) : u[i] \in Holds
      BY <1>1, <1>3, <2>5
    <3> QED
      BY <1>1, <3>1
  <2> HIDE DEF u
  <2>7. Units(u) = Units(held) + u[k].quantity - held[k].quantity
    BY <1>4, <2>5, <2>6, UnitsChange
  <2>8. u[k].quantity = held[k].quantity + new.quantity /\ held[k].quantity \in Nat
    BY <1>1, <1>3, <2>5 DEF Holds
  <2>9. Units(u) = Units(held) + new.quantity
    BY ONLY <1>4, <2>7, <2>8
  <2>10. \A i \in DOMAIN held : Joins(u[i], held[i])
    BY <1>1, <1>3, <2>5 DEF Joins
  <2>11. Merged(u)
    BY <2>6, <2>10 DEF Merged, Joins
  <2>12. \A i \in DOMAIN u : u[i].product = held[i].product
                            /\ (u[i].cost = held[i].cost \/ (i = k /\ u[i].cost = new.cost))
    BY <1>1, <1>3, <2>5, <2>6
  <2>13. held[k].product = new.product
    BY <2>1 DEF Joins
  <2> QED
    BY <1>6, <2>4, <2>6, <2>9, <2>11, <2>12, <2>13
<1>7. CASE new.quantity > 0 /\ ~\E i \in DOMAIN held : Joins(held[i], new)
  <2>2. t = Append(held, new)
    BY <1>4, <1>7 DEF Hold
  <2>3. t \in Seq(Holds) /\ Units(t) = Units(held) + new.quantity
    BY <1>4, <2>2, UnitsAppend
  <2>4. /\ DOMAIN t = 1 .. Len(held) + 1 /\ t[Len(held) + 1] = new
        /\ \A i \in DOMAIN held : t[i] = held[i]
    BY <1>1, <2>2
  <2> HIDE DEF t, u
  <2>5. \A i \in DOMAIN t : i \in DOMAIN held \/ i = Len(held) + 1
    BY <1>1, <2>4
  <2>6. Merged(t)
    BY <1>7, <2>4, <2>5 DEF Merged, Joins
  <2>7. \A i \in DOMAIN t : (\E j \in DOMAIN held : t[i] = held[j]) \/ t[i] = new
    BY <2>4, <2>5
  <2> QED
    BY <1>7, <2>3, <2>6, <2>7 DEF t
<1> QED
  BY <1>4, <1>5, <1>6, <1>7


-----------------------------------------------------------------------------
(* The inductive invariant, by its parts.                                  *)

FairLots(s) == \A i \in DOMAIN s : Fair(s[i].product, s[i].cost)
FairStock(items) == \A p \in Products : items[p].units > 0 => Fair(p, items[p].cost)

(* ValuedWithinCost speaks of the stock, the holds and the returns.        *)
LEMMA ValuedParts ==
  /\ ValuedWithinCost <=> FairStock(stock) /\ FairLots(holds) /\ FairLots(returns)
  /\ ValuedWithinCost' <=> FairStock(stock') /\ FairLots(holds') /\ FairLots(returns')
BY DEF ValuedWithinCost, FairStock, FairLots, Range

(* Units are made at costs that are natural numbers.                       *)
LEMMA CostsNatural == \A p \in Products : CostsOf(p) \in SUBSET Nat
BY InputAssumption, OpeningAssumption DEF CostsOf, Goods

(* A hold or a return that is removed leaves the others as they were.      *)
LEMMA MergedRemove ==
  ASSUME NEW s, s \in Seq(Holds), Merged(s), NEW i, i \in DOMAIN s
  PROVE  Merged(RemoveAt(s, i))
<1> DEFINE t == RemoveAt(s, i)
<1>1. Len(s) \in Nat /\ DOMAIN s = 1 .. Len(s)
  BY SeqItem
<1>2. DOMAIN t = 1 .. Len(s) - 1 /\ \A j \in DOMAIN t : t[j] = IF j < i THEN s[j] ELSE s[j + 1]
  BY Removed
<1> HIDE DEF t
<1>3. ASSUME NEW j \in DOMAIN t, NEW k \in DOMAIN t, Joins(t[j], t[k]) PROVE j = k
  <2> DEFINE a == IF j < i THEN j ELSE j + 1
             b == IF k < i THEN k ELSE k + 1
  <2>1. a \in DOMAIN s /\ b \in DOMAIN s /\ t[j] = s[a] /\ t[k] = s[b] /\ (a = b => j = k)
    BY <1>1, <1>2
  <2> HIDE DEF a, b
  <2> QED
    BY <1>3, <2>1 DEF Merged
<1> QED
  BY <1>3 DEF Merged, t

(* What is left of a sequence was in it.                                   *)
LEMMA RemovedItems ==
  ASSUME NEW R, NEW s, s \in Seq(R), NEW i, i \in DOMAIN s
  PROVE  \A j \in DOMAIN RemoveAt(s, i) : \E k \in DOMAIN s : RemoveAt(s, i)[j] = s[k]
<1>1. /\ Len(s) \in Nat /\ DOMAIN s = 1 .. Len(s) /\ i \in 1 .. Len(s)
  BY SeqItem
<1>2. /\ DOMAIN RemoveAt(s, i) = 1 .. Len(s) - 1
      /\ \A j \in 1 .. Len(s) - 1 : RemoveAt(s, i)[j] = IF j < i THEN s[j] ELSE s[j + 1]
  BY Removed
<1>3. \A j \in 1 .. Len(s) - 1 : j \in DOMAIN s /\ j + 1 \in DOMAIN s
  BY <1>1
<1> QED
  BY <1>2, <1>3

(* Fairly valued lots are so without one of them.                          *)
LEMMA FairRemove ==
  ASSUME NEW R, NEW s, s \in Seq(R), FairLots(s), NEW i, i \in DOMAIN s
  PROVE  FairLots(RemoveAt(s, i))
BY RemovedItems DEF FairLots

(* Steps that leave goods and counts alone keep what is said of them.      *)
LEMMA QuietGoods ==
  ASSUME IInv, UNCHANGED <<stock, holds, returns, totals>>
  PROVE  NoCostWithoutUnits' /\ HoldsMerged' /\ UnitsConserved' /\ ValuedWithinCost'
BY ValuedParts DEF IInv, NoCostWithoutUnits, HoldsMerged, UnitsConserved

(* The same for what is said of orders.                                    *)
LEMMA QuietDemand ==
  ASSUME IInv, UNCHANGED <<backlog, returns, totals>>, phase # "sales", phase' # "sales"
  PROVE  DemandConserved' /\ NothingLeft'
BY DEF IInv, DemandConserved, Open, NothingLeft

(* Every count of units is a natural number.                               *)
LEMMA CountsNatural ==
  ASSUME TypeOK
  PROVE  /\ totals.yielded \in Nat /\ totals.demanded \in Nat /\ totals.shipped \in Nat
         /\ totals.returned \in Nat /\ totals.lost \in Nat
         /\ Units(holds) \in Nat /\ Units(returns) \in Nat /\ Units(backlog) \in Nat
         /\ Units(queue) \in Nat /\ Units(kept) \in Nat /\ Units(OpeningBacklog) \in Nat
         /\ InStock(stock) \in Nat /\ InStock(OpeningStock) \in Nat
<1>1. \A items \in [Products -> Goods] : InStock(items) \in Nat
  <2> SUFFICES ASSUME NEW items \in [Products -> Goods] PROVE InStock(items) \in Nat
    OBVIOUS
  <2> DEFINE w == [p \in Products |-> items[p].units]
  <2>1. w \in [Products -> Nat] /\ IsFiniteSet(Products)
    BY PartyAssumption DEF Goods
  <2>2. InStock(items) = SumFunction(w)
    BY DEF InStock
  <2> HIDE DEF w
  <2> QED
    BY <2>1, <2>2, SumType
<1>2. stock \in [Products -> Goods] /\ OpeningStock \in [Products -> Goods]
  BY OpeningAssumption DEF TypeOK
<1>3. /\ holds \in Seq(Holds) /\ returns \in Seq(Returns) /\ backlog \in Seq(Entries)
      /\ queue \in Seq(Entries) /\ kept \in Seq(Entries) /\ OpeningBacklog \in Seq(Entries)
  BY OpeningAssumption DEF TypeOK
<1>4. /\ Units(holds) \in Nat /\ Units(returns) \in Nat /\ Units(backlog) \in Nat
      /\ Units(queue) \in Nat /\ Units(kept) \in Nat /\ Units(OpeningBacklog) \in Nat
  BY <1>3, ItemsCountable, UnitsOfSeq
<1> QED
  BY <1>1, <1>2, <1>4 DEF TypeOK, Totals


-----------------------------------------------------------------------------
(* The opening position.                                                   *)

(* The invariant holds when the match opens.                               *)
LEMMA InitIInv == Init => IInv
<1> SUFFICES ASSUME Init PROVE IInv
  OBVIOUS
<1> USE DEF Init
<1>1. /\ OpeningBacklog \in Seq(Entries) /\ ViewsOf(OpeningBacklog) \in [Customers -> Seq(Entries)]
  BY OpeningAssumption, ViewsType
<1>2. TypeOK
  <2>1. << >> \in Seq(Holds) /\ << >> \in Seq(Returns) /\ << >> \in Seq(Entries)
    OBVIOUS
  <2>2. totals \in Totals
    BY DEF Totals
  <2> QED
    BY <1>1, <2>1, <2>2, OpeningAssumption, InputAssumption DEF TypeOK, Phases
<1>3. DOMAIN << >> = {}
  OBVIOUS
<1>4. NoCostWithoutUnits /\ HoldsMerged /\ ViewsFollow /\ NothingLeft
  BY <1>3, OpeningAssumption DEF NoCostWithoutUnits, HoldsMerged, Merged, ViewsFollow, NothingLeft
<1>5. AgesKept
  <2>1. ASSUME NEW i \in DOMAIN OpeningBacklog PROVE Punctual(OpeningBacklog[i], 1, 0)
    <3>1. OpeningBacklog[i].origin = 0 /\ OpeningBacklog[i].age = 0
      BY OpeningAssumption
    <3>2. Max({0, 1}) = 1
      BY MaxOfTwo
    <3> QED
      BY <3>1, <3>2, PartyAssumption DEF Punctual
  <2> QED
    BY <2>1 DEF AgesKept, AllPunctual, OneMore
<1>6. UnitsConserved
  BY <1>2, CountsNatural, UnitsEmpty DEF UnitsConserved
<1>7. DemandConserved
  BY <1>2, CountsNatural, UnitsEmpty DEF DemandConserved, Open
<1>8. ValuedWithinCost
  <2>1. FairLots(<< >>)
    BY <1>3 DEF FairLots
  <2>2. FairStock(OpeningStock)
    <3> SUFFICES ASSUME NEW p \in Products, OpeningStock[p].units > 0
                 PROVE  Fair(p, OpeningStock[p].cost)
      BY DEF FairStock
    <3>1. OpeningStock[p].cost \in CostsOf(p) /\ OpeningStock[p].cost \in Nat
      BY OpeningAssumption DEF CostsOf, Goods
    <3> QED
      BY <3>1 DEF Fair
  <2> QED
    BY <2>1, <2>2, ValuedParts
<1> QED
  BY <1>2, <1>4, <1>5, <1>6, <1>7, <1>8 DEF IInv

-----------------------------------------------------------------------------
(* Holds are released.                                                     *)

(* Goods that join the stock: it stays fairly valued, and counts them.     *)
LEMMA StockJoined ==
  ASSUME IInv, NEW p, p \in Products, NEW units, units \in Nat, NEW cost, cost \in Nat,
         units > 0 => Fair(p, cost),
         stock' = [stock EXCEPT ![p] = Stocked(@, units, cost)]
  PROVE  /\ stock' \in [Products -> Goods] /\ NoCostWithoutUnits' /\ FairStock(stock')
         /\ InStock(stock') = InStock(stock) + units /\ InStock(stock) \in Nat
<1> DEFINE new == Stocked(stock[p], units, cost)
<1>1. stock \in [Products -> Goods] /\ stock[p] \in Goods /\ stock[p].units \in Nat
  BY DEF IInv, TypeOK, Goods
<1>2. stock[p].units = 0 => stock[p].cost = 0
  BY DEF IInv, NoCostWithoutUnits
<1>3. /\ new \in Goods /\ new.units = stock[p].units + units
      /\ new.units = 0 => new.cost = 0
      /\ \A C \in SUBSET Nat :
           /\ stock[p].units > 0 => Between(C, stock[p].cost)
           /\ units > 0 => Between(C, cost)
           /\ stock[p].units + units > 0
           => Between(C, new.cost)
  BY <1>1, <1>2, StockedEffect
<1>4. stock' = [stock EXCEPT ![p] = new]
  OBVIOUS
<1> HIDE DEF new
<1>5. /\ stock' \in [Products -> Goods]
      /\ InStock(stock') = InStock(stock) + new.units - stock[p].units
      /\ InStock(stock) \in Nat
  <2>1. stock \in [Products -> Goods] /\ p \in Products /\ new \in Goods
    BY <1>1, <1>3
  <2>2. /\ [stock EXCEPT ![p] = new] \in [Products -> Goods]
        /\ InStock([stock EXCEPT ![p] = new]) = InStock(stock) + new.units - stock[p].units
        /\ InStock(stock) \in Nat
    BY ONLY <2>1, InStockChange
  <2> QED
    BY <1>4, <2>2
<1>6. stock'[p] = new /\ \A q \in Products : q # p => stock'[q] = stock[q]
  BY <1>1, <1>4
<1>7. NoCostWithoutUnits'
  BY <1>3, <1>6 DEF IInv, NoCostWithoutUnits
<1>8. FairStock(stock')
  <2>1. FairStock(stock)
    BY ValuedParts DEF IInv
  <2>2. new.units > 0 => Fair(p, new.cost)
    <3>1. CostsOf(p) \in SUBSET Nat
      BY CostsNatural
    <3>2. stock[p].units > 0 => Between(CostsOf(p), stock[p].cost)
      BY <2>1 DEF FairStock, Fair, Between
    <3>3. units > 0 => Between(CostsOf(p), cost)
      BY DEF Fair, Between
    <3>4. new.units > 0 => Between(CostsOf(p), new.cost)
      BY <1>3, <3>1, <3>2, <3>3
    <3> QED
      BY <3>4 DEF Fair, Between
  <2> QED
    BY <1>6, <2>1, <2>2 DEF FairStock
<1>9. InStock(stock') = InStock(stock) + units
  BY <1>1, <1>3, <1>5
<1> QED
  BY <1>5, <1>7, <1>8, <1>9

(* A hold that is released takes its units and its cost into the stock.    *)
LEMMA ReleaseHoldIInv == ASSUME IInv, ReleaseHold PROVE IInv'
<1> DEFINE k == Min(RipeHolds)
           h == holds[k]
<1>1. /\ stock' = [stock EXCEPT ![h.product] = Stocked(@, h.quantity, h.cost)]
      /\ holds' = RemoveAt(holds, k) /\ RipeHolds # {} /\ phase = "holds"
      /\ UNCHANGED <<round, phase, returns, finished, marketVars, queue, kept, asked, totals>>
  BY DEF ReleaseHold
<1>2. holds \in Seq(Holds)
  BY DEF IInv, TypeOK
<1>3. k \in DOMAIN holds
  <2>1. RipeHolds \subseteq DOMAIN holds
    BY DEF RipeHolds
  <2>2. RipeHolds \subseteq Nat
    BY <1>2, <2>1, SeqItem
  <2> QED
    BY <1>1, <2>1, <2>2, FirstPlace
<1>4. h \in Holds
  BY <1>2, <1>3, SeqItem
<1> HIDE DEF k, h
<1>5. h.product \in Products /\ h.quantity \in Nat /\ h.cost \in Nat
  BY <1>4 DEF Holds
<1>6. FairLots(holds) /\ FairLots(returns)
  BY ValuedParts DEF IInv
<1>7. Fair(h.product, h.cost)
  BY <1>3, <1>6 DEF FairLots, h
<1>8. /\ stock' \in [Products -> Goods] /\ NoCostWithoutUnits' /\ FairStock(stock')
      /\ InStock(stock') = InStock(stock) + h.quantity /\ InStock(stock) \in Nat
  BY <1>1, <1>5, <1>7, StockJoined
<1>9. holds' \in Seq(Holds)
  BY <1>1, <1>2, <1>3, Removed
<1>10. TypeOK'
  BY <1>1, <1>8, <1>9 DEF IInv, TypeOK, marketVars
<1>11. HoldsMerged'
  BY <1>1, <1>2, <1>3, MergedRemove DEF IInv, HoldsMerged
<1>12. UnitsConserved'
  <2>1. Units(holds) = Units(holds') + h.quantity
    BY <1>1, <1>2, <1>3, ItemsCountable, UnitsRemove DEF h
  <2>2. Units(holds') \in Nat
    BY <1>9, ItemsCountable, UnitsOfSeq
  <2>3. InStock(stock') + Units(holds') = InStock(stock) + Units(holds)
    BY <1>5, <1>8, <2>1, <2>2
  <2>4. /\ totals.yielded \in Nat /\ totals.returned \in Nat /\ totals.shipped \in Nat
        /\ totals' = totals
    BY <1>1, CountsNatural DEF IInv
  <2> QED
    BY <1>8, <2>2, <2>3, <2>4 DEF IInv, UnitsConserved
<1>13. DemandConserved' /\ NothingLeft'
  BY <1>1, QuietDemand DEF marketVars
<1>14. ValuedWithinCost'
  <2>1. FairLots(holds')
    BY <1>1, <1>2, <1>3, <1>6, FairRemove
  <2> QED
    BY <1>1, <1>6, <1>8, <2>1, ValuedParts
<1>15. ViewsFollow'
  BY <1>1 DEF IInv, ViewsFollow, marketVars
<1>16. AgesKept'
  BY <1>1 DEF IInv, AgesKept, OneMore, marketVars
<1> QED
  BY <1>1, <1>8, <1>10, <1>11, <1>12, <1>13, <1>14, <1>15, <1>16 DEF IInv

(* What an order has.                                                      *)
LEMMA EntryFields ==
  ASSUME NEW s, s \in Seq(Entries), NEW i, i \in DOMAIN s
  PROVE  /\ s[i] \in Entries /\ s[i].customer \in Customers /\ s[i].product \in Products
         /\ s[i].quantity \in Nat /\ s[i].origin \in Nat /\ s[i].age \in Nat
<1>1. s[i] \in Entries
  BY SeqItem
<1> QED
  BY <1>1 DEF Entries

(* The steps between the phases leave the goods and the counts alone.      *)
LEMMA EndHoldsIInv == ASSUME IInv, EndHolds PROVE IInv'
<1>1. phase = "holds" /\ phase' = "returns"
  BY DEF EndHolds
<1>2. UNCHANGED <<round, goodsVars, returns, finished, marketVars, queue, kept, asked, totals>>
  BY DEF EndHolds
<1>3. NoCostWithoutUnits' /\ HoldsMerged' /\ UnitsConserved' /\ ValuedWithinCost'
  BY <1>2, QuietGoods DEF goodsVars
<1>4. DemandConserved' /\ NothingLeft'
  BY <1>1, <1>2, QuietDemand DEF marketVars
<1>5. TypeOK'
  BY <1>1, <1>2 DEF IInv, TypeOK, Phases, goodsVars, marketVars
<1>6. ViewsFollow' /\ AgesKept'
  BY <1>1, <1>2 DEF IInv, ViewsFollow, AgesKept, OneMore, marketVars
<1> QED
  BY <1>2, <1>3, <1>4, <1>5, <1>6 DEF IInv

(* When no return is due the customers' views have caught up.              *)
LEMMA EndReturnsIInv == ASSUME IInv, EndReturns PROVE IInv'
<1>1. phase = "returns" /\ phase' = "production" /\ RipeReturns = {}
  BY DEF EndReturns
<1>2. UNCHANGED <<round, goodsVars, returns, finished, marketVars, queue, kept, asked, totals>>
  BY DEF EndReturns
<1>3. NoCostWithoutUnits' /\ HoldsMerged' /\ UnitsConserved' /\ ValuedWithinCost'
  BY <1>2, QuietGoods DEF goodsVars
<1>4. DemandConserved' /\ NothingLeft'
  BY <1>1, <1>2, QuietDemand DEF marketVars
<1>5. TypeOK'
  BY <1>1, <1>2 DEF IInv, TypeOK, Phases, goodsVars, marketVars
<1>6. ViewsFollow' /\ AgesKept'
  BY <1>1, <1>2 DEF IInv, ViewsFollow, AgesKept, OneMore, marketVars
<1> QED
  BY <1>2, <1>3, <1>4, <1>5, <1>6 DEF IInv

(* The end of a round's bookings changes nothing that is counted.          *)
LEMMA EndDemandIInv == ASSUME IInv, EndDemand PROVE IInv'
<1>1. phase = "demand" /\ phase' = "ageing" /\ asked' = {}
  BY DEF EndDemand
<1>2. UNCHANGED <<round, goodsVars, returns, finished, marketVars, queue, kept, totals>>
  BY DEF EndDemand
<1>3. NoCostWithoutUnits' /\ HoldsMerged' /\ UnitsConserved' /\ ValuedWithinCost'
  BY <1>2, QuietGoods DEF goodsVars
<1>4. DemandConserved' /\ NothingLeft'
  BY <1>1, <1>2, QuietDemand DEF marketVars
<1>5. TypeOK'
  BY <1>1, <1>2 DEF IInv, TypeOK, Phases, goodsVars, marketVars
<1>6. ViewsFollow' /\ AgesKept'
  BY <1>1, <1>2 DEF IInv, ViewsFollow, AgesKept, OneMore, marketVars
<1> QED
  BY <1>2, <1>3, <1>4, <1>5, <1>6 DEF IInv

(* A round later an entry that has aged is as old as its origin says.      *)
LEMMA NextRoundIInv == ASSUME IInv, NextRound PROVE IInv'
<1>1. phase = "closed" /\ phase' = "holds" /\ round' = round + 1
  BY DEF NextRound
<1>2. UNCHANGED <<goodsVars, returns, finished, marketVars, queue, kept, asked, totals>>
  BY DEF NextRound
<1>3. NoCostWithoutUnits' /\ HoldsMerged' /\ UnitsConserved' /\ ValuedWithinCost'
  BY <1>2, QuietGoods DEF goodsVars
<1>4. DemandConserved' /\ NothingLeft'
  BY <1>1, <1>2, QuietDemand DEF marketVars
<1>5. TypeOK' /\ round' > 0
  BY <1>1, <1>2 DEF IInv, TypeOK, Phases, goodsVars, marketVars
<1>6. ViewsFollow'
  BY <1>1, <1>2 DEF IInv, ViewsFollow, marketVars
<1>7. AgesKept'
  <2>1. ASSUME NEW i \in DOMAIN backlog PROVE Punctual(backlog[i], round + 1, 0)
    <3>1. Punctual(backlog[i], round, 1)
      BY <1>1 DEF IInv, AgesKept, AllPunctual, OneMore
    <3>2. backlog[i].origin \in Nat /\ backlog[i].age \in Nat /\ round \in Nat
      BY EntryFields DEF IInv, TypeOK
    <3>3. Max({backlog[i].origin, 1}) \in Nat
      BY <3>2, MaxOfTwo
    <3> QED
      BY <3>1, <3>2, <3>3 DEF Punctual
  <2> QED
    BY <1>1, <1>2, <2>1 DEF AgesKept, AllPunctual, OneMore, marketVars
<1> QED
  BY <1>3, <1>4, <1>5, <1>6, <1>7 DEF IInv

(* What is served is the plant's own backlog, and nothing is served yet.   *)
LEMMA EndProductionIInv == ASSUME IInv, EndProduction PROVE IInv'
<1>1. phase = "production" /\ phase' = "sales" /\ finished' = 0 /\ kept' = << >>
  BY DEF EndProduction
<1>2. UNCHANGED <<round, goodsVars, returns, marketVars, asked, totals>>
  BY DEF EndProduction
<1>3. backlog \in Seq(Entries) /\ views = ViewsOf(backlog)
  BY <1>1 DEF IInv, TypeOK, ViewsFollow
<1>4. queue' = backlog
  BY <1>3, EffectiveIsBacklog DEF EndProduction
<1>5. NoCostWithoutUnits' /\ HoldsMerged' /\ UnitsConserved' /\ ValuedWithinCost'
  BY <1>2, QuietGoods DEF goodsVars
<1>6. << >> \in Seq(Entries) /\ DOMAIN << >> = {}
  OBVIOUS
<1>7. TypeOK'
  BY <1>1, <1>2, <1>3, <1>4, <1>6, InputAssumption DEF IInv, TypeOK, Phases, goodsVars, marketVars
<1>8. DemandConserved'
  <2>1. Open = Units(backlog) /\ Open' = Units(backlog) + 0
    BY <1>1, <1>4, UnitsEmpty DEF Open
  <2>2. Open' = Open
    BY <2>1, CountsNatural DEF IInv
  <2> QED
    BY <1>2, <2>2 DEF IInv, DemandConserved
<1>9. NothingLeft'
  BY <1>1, <1>6 DEF NothingLeft
<1>10. ViewsFollow' /\ AgesKept'
  <2>1. AllPunctual(backlog, round, 0) /\ AllPunctual(<< >>, round, 0)
    BY <1>1, <1>6 DEF IInv, AgesKept, AllPunctual, OneMore
  <2> QED
    BY <1>1, <1>2, <1>3, <1>4, <2>1 DEF IInv, ViewsFollow, AgesKept, OneMore, marketVars
<1> QED
  BY <1>2, <1>5, <1>7, <1>8, <1>9, <1>10 DEF IInv

(* What was kept becomes the backlog, and the customers see it.            *)
LEMMA EndSalesIInv == ASSUME IInv, EndSales PROVE IInv'
<1>1. /\ phase = "sales" /\ queue = << >> /\ phase' = "demand"
      /\ backlog' = kept /\ views' = ViewsOf(kept) /\ kept' = << >>
  BY DEF EndSales
<1>2. UNCHANGED <<round, goodsVars, returns, finished, sentiment, queue, asked, totals>>
  BY DEF EndSales
<1>3. kept \in Seq(Entries) /\ ViewsOf(kept) \in [Customers -> Seq(Entries)]
  BY ViewsType DEF IInv, TypeOK
<1>4. NoCostWithoutUnits' /\ HoldsMerged' /\ UnitsConserved' /\ ValuedWithinCost'
  BY <1>2, QuietGoods DEF goodsVars
<1>5. TypeOK'
  BY <1>1, <1>2, <1>3 DEF IInv, TypeOK, Phases, goodsVars
<1>6. DemandConserved'
  <2>1. Open = 0 + Units(kept) /\ Open' = Units(kept)
    BY <1>1, UnitsEmpty DEF Open
  <2>2. Open' = Open
    BY <2>1, CountsNatural DEF IInv
  <2> QED
    BY <1>2, <2>2 DEF IInv, DemandConserved
<1>7. NothingLeft' /\ ViewsFollow'
  BY <1>1 DEF NothingLeft, ViewsFollow
<1>8. AgesKept'
  BY <1>1, <1>2 DEF IInv, AgesKept, OneMore
<1> QED
  BY <1>2, <1>4, <1>5, <1>6, <1>7, <1>8 DEF IInv

-----------------------------------------------------------------------------
(* Units that go on hold, and orders that are booked.                      *)

LEMMA HoldsJoined ==
  ASSUME IInv, NEW new, new \in Holds, new.quantity > 0 => Fair(new.product, new.cost),
         holds' = Hold(holds, new)
  PROVE  /\ holds' \in Seq(Holds) /\ HoldsMerged' /\ FairLots(holds')
         /\ Units(holds') = Units(holds) + new.quantity
<1>1. holds \in Seq(Holds) /\ Merged(holds) /\ FairLots(holds)
  BY ValuedParts DEF IInv, TypeOK, HoldsMerged
<1> DEFINE t == Hold(holds, new)
<1>2. /\ t \in Seq(Holds) /\ Merged(t) /\ Units(t) = Units(holds) + new.quantity
      /\ \A i \in DOMAIN t :
           \/ \E j \in DOMAIN holds : t[i].product = holds[j].product /\ t[i].cost = holds[j].cost
           \/ new.quantity > 0 /\ t[i].product = new.product /\ t[i].cost = new.cost
  <2>1. new \in Holds
    OBVIOUS
  <2> QED
    BY ONLY <1>1, <2>1, HoldEffect
<1>3. holds' = t
  OBVIOUS
<1> HIDE DEF t
<1>4. FairLots(t)
  BY <1>1, <1>2 DEF FairLots
<1> QED
  BY <1>2, <1>3, <1>4 DEF HoldsMerged

(* A new order goes to the end of the backlog, of this round and not aged. *)
LEMMA OrderBooked ==
  ASSUME IInv, phase \notin {"sales", "closed"}, UNCHANGED <<round, phase>>,
         NEW e, e \in Entries, e.origin = round, e.age = 0, backlog' = Append(backlog, e)
  PROVE  /\ backlog' \in Seq(Entries) /\ AgesKept'
         /\ Units(backlog') = Units(backlog) + e.quantity
<1>1. backlog \in Seq(Entries) /\ round \in Nat /\ round > 0 /\ OneMore = 0 /\ OneMore' = 0
  BY DEF IInv, TypeOK, OneMore
<1>2. backlog' \in Seq(Entries) /\ Units(backlog') = Units(backlog) + e.quantity
  BY <1>1, ItemsCountable, UnitsAppend
<1>3. Punctual(e, round, 0)
  <2>1. Max({round, 1}) = round
    BY <1>1, MaxOfTwo
  <2> QED
    BY <1>1, <2>1, PartyAssumption DEF Punctual
<1>4. \A i \in DOMAIN backlog' : backlog'[i] = e \/ (i \in DOMAIN backlog /\ backlog'[i] = backlog[i])
  <2>1. /\ Len(backlog) \in Nat /\ DOMAIN backlog = 1 .. Len(backlog)
        /\ DOMAIN Append(backlog, e) = 1 .. Len(backlog) + 1
        /\ Append(backlog, e)[Len(backlog) + 1] = e
        /\ \A i \in 1 .. Len(backlog) : Append(backlog, e)[i] = backlog[i]
    BY <1>1
  <2>2. \A i \in 1 .. Len(backlog) + 1 : i = Len(backlog) + 1 \/ i \in 1 .. Len(backlog)
    BY <2>1
  <2> QED
    BY <2>1, <2>2
<1>5. AllPunctual(backlog, round, 0)
  BY <1>1 DEF IInv, AgesKept
<1>6. AllPunctual(backlog', round, 0)
  BY <1>3, <1>4, <1>5 DEF AllPunctual
<1> QED
  BY <1>1, <1>2, <1>6 DEF AgesKept

(* A return that has been booked is still due as the others are.           *)
LEMMA StillRipe ==
  ASSUME IInv, NEW k, k \in RipeReturns, returns' = RemoveAt(returns, k), UNCHANGED round,
         RipeReturns' = {}
  PROVE  RipeReturns = {k}
<1>1. /\ returns \in Seq(Returns) /\ k \in DOMAIN returns
      /\ DOMAIN returns = 1 .. Len(returns) /\ Len(returns) \in Nat
  BY SeqItem DEF IInv, TypeOK, RipeReturns
<1>2. /\ DOMAIN returns' = 1 .. Len(returns) - 1
      /\ \A j \in 1 .. Len(returns) - 1 :
           returns'[j] = IF j < k THEN returns[j] ELSE returns[j + 1]
  BY <1>1, Removed
<1>3. ASSUME NEW j \in RipeReturns, j # k PROVE FALSE
  <2> DEFINE i == IF j < k THEN j ELSE j - 1
  <2>1. j \in 1 .. Len(returns) /\ returns[j].due <= round
    BY <1>1 DEF RipeReturns
  <2>2. i \in 1 .. Len(returns) - 1 /\ returns'[i] = returns[j]
    BY <1>1, <1>2, <1>3, <2>1
  <2> HIDE DEF i
  <2>3. i \in RipeReturns'
    BY <1>2, <2>1, <2>2 DEF RipeReturns
  <2> QED
    BY <2>3
<1> QED
  BY <1>3

(* What comes back is counted as returned, held and owed again.            *)
LEMMA BookReturnIInv == ASSUME IInv, BookReturn PROVE IInv'
<1> DEFINE k == Min(RipeReturns)
           r == returns[k]
           new == [product |-> r.product, quantity |-> r.quantity,
                   cost |-> r.cost, release |-> round + 1, reason |-> "return"]
           e == [customer |-> r.customer, product |-> r.product,
                 quantity |-> r.quantity, origin |-> round, age |-> 0]
<1>1. /\ phase = "returns" /\ RipeReturns # {} /\ returns' = RemoveAt(returns, k)
      /\ holds' = Hold(holds, new) /\ backlog' = Append(backlog, e)
      /\ totals' = [totals EXCEPT !.returned = @ + r.quantity]
      /\ sentiment' = [sentiment EXCEPT ![r.customer] = @ - 1]
      /\ views' = IF RipeReturns = {k} THEN ViewsOf(backlog') ELSE views
      /\ UNCHANGED <<round, phase, stock, finished, queue, kept, asked>>
  BY DEF BookReturn
<1>2. /\ returns \in Seq(Returns) /\ totals \in Totals /\ round \in Nat
      /\ sentiment \in [Customers -> Int] /\ FairLots(returns) /\ FairStock(stock)
  BY ValuedParts DEF IInv, TypeOK
<1>3. k \in RipeReturns /\ k \in DOMAIN returns
  <2>1. RipeReturns \subseteq DOMAIN returns
    BY DEF RipeReturns
  <2>2. RipeReturns \subseteq Nat
    BY <1>2, <2>1, SeqItem
  <2> QED
    BY <1>1, <2>1, <2>2, FirstPlace
<1> HIDE DEF k
<1>4. r \in Returns
  BY <1>2, <1>3, SeqItem
<1>5. Fair(r.product, r.cost)
  BY <1>2, <1>3 DEF FairLots
<1> HIDE DEF r
<1>6. /\ r.customer \in Customers /\ r.product \in Products /\ r.quantity \in Nat /\ r.cost \in Nat
  BY <1>4 DEF Returns
<1>7. /\ new \in Holds /\ new.product = r.product /\ new.cost = r.cost
      /\ new.quantity = r.quantity
  BY <1>2, <1>6 DEF Holds
<1>8. e \in Entries /\ e.origin = round /\ e.age = 0 /\ e.quantity = r.quantity
  BY <1>2, <1>6 DEF Entries
<1> HIDE DEF new, e
<1>9. /\ holds' \in Seq(Holds) /\ HoldsMerged' /\ FairLots(holds')
      /\ Units(holds') = Units(holds) + r.quantity
  BY <1>1, <1>5, <1>7, HoldsJoined
<1>10. /\ backlog' \in Seq(Entries) /\ AgesKept' /\ Units(backlog') = Units(backlog) + r.quantity
  BY <1>1, <1>8, OrderBooked
<1>11. /\ returns' \in Seq(Returns) /\ FairLots(returns')
       /\ Units(returns) = Units(returns') + r.quantity
  BY <1>1, <1>2, <1>3, Removed, FairRemove, ItemsCountable, UnitsRemove DEF r
<1>12. /\ totals' \in Totals /\ totals'.returned = totals.returned + r.quantity
       /\ totals'.yielded = totals.yielded /\ totals'.demanded = totals.demanded
       /\ totals'.shipped = totals.shipped /\ totals'.lost = totals.lost
  <2> DEFINE q == totals.returned + r.quantity
  <2>1. totals' = [totals EXCEPT !.returned = q] /\ q \in Nat
    BY <1>1, <1>2, <1>6 DEF Totals
  <2> HIDE DEF q
  <2>2. /\ totals' \in Totals /\ totals'.returned = q
        /\ totals'.yielded = totals.yielded /\ totals'.demanded = totals.demanded
        /\ totals'.shipped = totals.shipped /\ totals'.lost = totals.lost
    BY <1>2, <2>1 DEF Totals
  <2> QED
    BY <2>2 DEF q
<1>13. TypeOK'
  <2>1. views' \in [Customers -> Seq(Entries)]
    BY <1>1, <1>10, ViewsType DEF IInv, TypeOK
  <2>2. sentiment' \in [Customers -> Int]
    BY <1>1, <1>2, <1>6
  <2> QED
    BY <1>1, <1>9, <1>10, <1>11, <1>12, <2>1, <2>2 DEF IInv, TypeOK
<1>14. /\ Units(holds) \in Nat /\ Units(returns) \in Nat /\ Units(backlog) \in Nat
       /\ InStock(stock) \in Nat /\ InStock(OpeningStock) \in Nat /\ Units(OpeningBacklog) \in Nat
       /\ totals.yielded \in Nat /\ totals.demanded \in Nat /\ totals.shipped \in Nat
       /\ totals.returned \in Nat /\ totals.lost \in Nat
  BY CountsNatural DEF IInv
<1>15. UnitsConserved'
  <2>1. UnitsConserved /\ InStock(stock') = InStock(stock)
    BY <1>1 DEF IInv
  <2>2. InStock(OpeningStock) + totals.yielded + totals.returned
          = InStock(stock) + Units(holds) + totals.shipped
    BY <2>1 DEF UnitsConserved
  <2>3. InStock(OpeningStock) + totals'.yielded + totals'.returned
          = InStock(stock') + Units(holds') + totals'.shipped
    <3>1. \A a, b, c, d, m, f, q \in Nat :
            a + b + c = d + m + f => a + b + (c + q) = d + (m + q) + f
      OBVIOUS
    <3>2. /\ InStock(OpeningStock) \in Nat /\ totals.yielded \in Nat /\ totals.returned \in Nat
          /\ InStock(stock) \in Nat /\ Units(holds) \in Nat /\ totals.shipped \in Nat
          /\ r.quantity \in Nat
      BY <1>6, <1>14
    <3>3. InStock(OpeningStock) + totals.yielded + (totals.returned + r.quantity)
            = InStock(stock) + (Units(holds) + r.quantity) + totals.shipped
      BY ONLY <2>2, <3>1, <3>2
    <3> QED
      BY <1>9, <1>12, <2>1, <3>3
  <2> QED
    BY <2>3 DEF UnitsConserved
<1>16. DemandConserved'
  <2>1. Open = Units(backlog) /\ Open' = Units(backlog')
    BY <1>1 DEF Open
  <2>2. Units(returns') \in Nat
    BY <1>11, ItemsCountable, UnitsOfSeq
  <2>3. DemandConserved
    BY DEF IInv
  <2>4. Units(OpeningBacklog) + totals'.demanded + totals'.returned
          = Open' + totals'.shipped + totals'.lost
    <3>1. \A a, b, c, d, m, f, q \in Nat :
            a + b + c = d + m + f => a + b + (c + q) = (d + q) + m + f
      OBVIOUS
    <3>2. Units(OpeningBacklog) + totals.demanded + (totals.returned + r.quantity)
            = (Units(backlog) + r.quantity) + totals.shipped + totals.lost
      BY <1>6, <1>14, <2>1, <2>3, <3>1 DEF DemandConserved
    <3> QED
      BY <1>10, <1>12, <2>1, <3>2
  <2>5. totals'.returned + Units(returns') <= totals'.shipped
    <3>1. totals.returned + Units(returns) <= totals.shipped
      BY <2>3 DEF DemandConserved
    <3>2. (totals.returned + r.quantity) + Units(returns') <= totals.shipped
      BY <1>6, <1>11, <1>14, <2>2, <3>1
    <3> QED
      BY <1>12, <3>2
  <2> QED
    BY <2>4, <2>5 DEF DemandConserved
<1>17. NothingLeft' /\ NoCostWithoutUnits' /\ ValuedWithinCost'
  BY <1>1, <1>2, <1>9, <1>11, ValuedParts DEF IInv, NothingLeft, NoCostWithoutUnits
<1>18. ViewsFollow'
  BY <1>1, <1>3, StillRipe DEF ViewsFollow
<1> QED
  BY <1>1, <1>9, <1>10, <1>13, <1>15, <1>16, <1>17, <1>18 DEF IInv

(* What an allocation finishes goes into stock and on hold.                *)
LEMMA ProduceIInv == ASSUME IInv, NEW yield \in Yields, Produce(yield) PROVE IInv'
<1> DEFINE new == [product |-> yield.product, quantity |-> yield.held,
                   cost |-> yield.cost, release |-> round + Max({HoldRounds, 1}),
                   reason |-> "quality"]
           p == yield.product
           g == yield.good
           h == yield.held
           c == yield.cost
<1>1. /\ phase = "production" /\ finished < MaxYields /\ finished' = finished + 1
      /\ stock' = [stock EXCEPT ![p] = Stocked(@, g, c)]
      /\ holds' = Hold(holds, new)
      /\ totals' = [totals EXCEPT !.yielded = @ + g + h]
      /\ UNCHANGED <<round, phase, returns, marketVars, queue, kept, asked>>
  BY DEF Produce
<1>2. p \in Products /\ g \in Nat /\ h \in Nat /\ c \in Nat
  BY InputAssumption
<1>3. totals \in Totals /\ round \in Nat /\ finished \in 0 .. MaxYields /\ FairLots(returns)
  BY ValuedParts DEF IInv, TypeOK
<1>4. Fair(p, c)
  <2>1. c \in CostsOf(p)
    BY DEF CostsOf
  <2> QED
    BY <1>2, <2>1 DEF Fair
<1>5. /\ new \in Holds /\ new.product = p /\ new.cost = c /\ new.quantity = h
  <2>1. HoldRounds \in Nat /\ Max({HoldRounds, 1}) \in Nat
    BY PartyAssumption, MaxOfTwo
  <2>2. round + Max({HoldRounds, 1}) \in Nat
    BY <1>3, <2>1
  <2> QED
    BY <1>2, <2>2 DEF Holds
<1> HIDE DEF new, p, g, h, c
<1>6. /\ stock' \in [Products -> Goods] /\ NoCostWithoutUnits' /\ FairStock(stock')
      /\ InStock(stock') = InStock(stock) + g
  BY <1>1, <1>2, <1>4, StockJoined
<1>7. /\ holds' \in Seq(Holds) /\ HoldsMerged' /\ FairLots(holds')
      /\ Units(holds') = Units(holds) + h
  BY <1>1, <1>4, <1>5, HoldsJoined
<1>8. /\ totals' \in Totals /\ totals'.yielded = totals.yielded + g + h
      /\ totals'.returned = totals.returned /\ totals'.demanded = totals.demanded
      /\ totals'.shipped = totals.shipped /\ totals'.lost = totals.lost
  <2> DEFINE q == totals.yielded + g + h
  <2>1. totals' = [totals EXCEPT !.yielded = q] /\ q \in Nat
    BY <1>1, <1>2, <1>3 DEF Totals
  <2> HIDE DEF q
  <2>2. /\ totals' \in Totals /\ totals'.yielded = q
        /\ totals'.returned = totals.returned /\ totals'.demanded = totals.demanded
        /\ totals'.shipped = totals.shipped /\ totals'.lost = totals.lost
    BY <1>3, <2>1 DEF Totals
  <2> QED
    BY <2>2 DEF q
<1>9. TypeOK'
  <2>1. finished' \in 0 .. MaxYields
    BY <1>1, <1>3, InputAssumption
  <2> QED
    BY <1>1, <1>6, <1>7, <1>8, <2>1 DEF IInv, TypeOK, marketVars
<1>10. UnitsConserved'
  <2>1. \A a, b, k, d, m, f, x, y \in Nat :
          a + b + k = d + m + f => a + (b + x + y) + k = (d + x) + (m + y) + f
    OBVIOUS
  <2>2. /\ InStock(OpeningStock) \in Nat /\ totals.yielded \in Nat /\ totals.returned \in Nat
        /\ InStock(stock) \in Nat /\ Units(holds) \in Nat /\ totals.shipped \in Nat
    BY CountsNatural DEF IInv
  <2>3. InStock(OpeningStock) + totals.yielded + totals.returned
          = InStock(stock) + Units(holds) + totals.shipped
    BY DEF IInv, UnitsConserved
  <2>4. InStock(OpeningStock) + (totals.yielded + g + h) + totals.returned
          = (InStock(stock) + g) + (Units(holds) + h) + totals.shipped
    BY <1>2, <2>1, <2>2, <2>3
  <2> QED
    BY <1>6, <1>7, <1>8, <2>4 DEF UnitsConserved
<1>11. DemandConserved'
  <2>1. Open' = Open
    BY <1>1 DEF Open, marketVars
  <2> QED
    BY <1>1, <1>8, <2>1 DEF IInv, DemandConserved
<1>12. ValuedWithinCost'
  BY <1>1, <1>3, <1>6, <1>7, ValuedParts
<1>13. NothingLeft' /\ ViewsFollow' /\ AgesKept'
  BY <1>1 DEF IInv, NothingLeft, ViewsFollow, AgesKept, OneMore, marketVars
<1> QED
  BY <1>1, <1>6, <1>7, <1>9, <1>10, <1>11, <1>12, <1>13 DEF IInv

(* An order that is booked is in the backlog and in its customer's view.   *)
LEMMA BookDemandIInv ==
  ASSUME IInv, NEW c \in Customers, NEW p \in Products, NEW units \in Demands,
         BookDemand(c, p, units)
  PROVE  IInv'
<1> DEFINE e == [customer |-> c, product |-> p, quantity |-> units,
                 origin |-> round, age |-> 0]
<1>1. /\ phase = "demand" /\ asked' = asked \union {<<c, p>>}
      /\ backlog' = Append(backlog, e) /\ views' = [views EXCEPT ![c] = Append(@, e)]
      /\ totals' = [totals EXCEPT !.demanded = @ + units]
      /\ UNCHANGED <<round, phase, goodsVars, returns, finished, sentiment, queue, kept>>
  BY DEF BookDemand
<1>2. /\ totals \in Totals /\ round \in Nat /\ units \in Nat /\ backlog \in Seq(Entries)
      /\ asked \subseteq Customers \X Products
  BY InputAssumption DEF IInv, TypeOK
<1>3. e \in Entries /\ e.origin = round /\ e.age = 0 /\ e.quantity = units /\ e.customer = c
  BY <1>2 DEF Entries
<1> HIDE DEF e
<1>4. /\ backlog' \in Seq(Entries) /\ AgesKept' /\ Units(backlog') = Units(backlog) + units
  BY <1>1, <1>3, OrderBooked
<1>5. views' = ViewsOf(backlog')
  <2>1. views = ViewsOf(backlog)
    BY <1>1 DEF IInv, ViewsFollow
  <2>2. ViewsOf(Append(backlog, e)) = [ViewsOf(backlog) EXCEPT ![e.customer] = Append(@, e)]
    BY <1>2, <1>3, ViewsAppend
  <2> QED
    BY <1>1, <1>3, <2>1, <2>2
<1>6. /\ totals' \in Totals /\ totals'.demanded = totals.demanded + units
      /\ totals'.returned = totals.returned /\ totals'.yielded = totals.yielded
      /\ totals'.shipped = totals.shipped /\ totals'.lost = totals.lost
  <2> DEFINE q == totals.demanded + units
  <2>1. totals' = [totals EXCEPT !.demanded = q] /\ q \in Nat
    BY <1>1, <1>2 DEF Totals
  <2> HIDE DEF q
  <2>2. /\ totals' \in Totals /\ totals'.demanded = q
        /\ totals'.returned = totals.returned /\ totals'.yielded = totals.yielded
        /\ totals'.shipped = totals.shipped /\ totals'.lost = totals.lost
    BY <1>2, <2>1 DEF Totals
  <2> QED
    BY <2>2 DEF q
<1>7. TypeOK'
  <2>1. views' \in [Customers -> Seq(Entries)]
    BY <1>4, <1>5, ViewsType
  <2>2. asked' \subseteq Customers \X Products
    BY <1>1, <1>2
  <2> QED
    BY <1>1, <1>4, <1>6, <2>1, <2>2 DEF IInv, TypeOK, goodsVars
<1>8. DemandConserved'
  <2>1. \A a, b, k, d, m, f, x \in Nat :
          a + b + k = d + m + f => a + (b + x) + k = (d + x) + m + f
    OBVIOUS
  <2>2. /\ Units(OpeningBacklog) \in Nat /\ totals.demanded \in Nat /\ totals.returned \in Nat
        /\ Units(backlog) \in Nat /\ totals.shipped \in Nat /\ totals.lost \in Nat
    BY CountsNatural DEF IInv
  <2>3. Open = Units(backlog) /\ Open' = Units(backlog')
    BY <1>1 DEF Open
  <2>4. /\ Units(OpeningBacklog) + totals.demanded + totals.returned
             = Units(backlog) + totals.shipped + totals.lost
        /\ totals.returned + Units(returns) <= totals.shipped
    BY <2>3 DEF IInv, DemandConserved
  <2>5. Units(OpeningBacklog) + (totals.demanded + units) + totals.returned
          = (Units(backlog) + units) + totals.shipped + totals.lost
    <3>1. units \in Nat
      BY <1>2
    <3> QED
      BY ONLY <2>1, <2>2, <2>4, <3>1
  <2> QED
    BY <1>1, <1>4, <1>6, <2>3, <2>4, <2>5 DEF DemandConserved
<1>9. UnitsConserved' /\ ValuedWithinCost' /\ NoCostWithoutUnits' /\ HoldsMerged'
  BY <1>1, <1>6, ValuedParts
     DEF IInv, UnitsConserved, NoCostWithoutUnits, HoldsMerged, goodsVars
<1>10. NothingLeft' /\ ViewsFollow'
  BY <1>1, <1>5 DEF NothingLeft, ViewsFollow
<1> QED
  BY <1>1, <1>4, <1>7, <1>8, <1>9, <1>10 DEF IInv

-----------------------------------------------------------------------------
(* Sales.                                                                  *)

(* What is taken out of stock for an order: no more than is there or is    *)
(* asked for, and all of one of the two.                                   *)
LEMMA ShippedUnits ==
  ASSUME IInv, NEW e, e \in Entries, NEW s, s = Shippable(e),
         stock' = [stock EXCEPT ![e.product] = Taken(@, s)]
  PROVE  /\ s \in Nat /\ s <= e.quantity /\ s <= stock[e.product].units
         /\ s = e.quantity \/ s = stock[e.product].units
         /\ stock' \in [Products -> Goods] /\ NoCostWithoutUnits' /\ FairStock(stock')
         /\ stock'[e.product].units = stock[e.product].units - s
         /\ \A q \in Products : q # e.product => stock'[q] = stock[q]
         /\ InStock(stock') + s = InStock(stock) /\ InStock(stock') \in Nat
<1> DEFINE p == e.product
           item == stock[p]
           new == Taken(item, s)
<1>1. /\ e.quantity \in Nat /\ p \in Products /\ stock \in [Products -> Goods]
      /\ item \in Goods /\ item.units \in Nat
  BY DEF IInv, TypeOK, Entries, Goods
<1>2. s \in Nat /\ s <= e.quantity /\ s <= item.units /\ (s = e.quantity \/ s = item.units)
  BY <1>1, MinOfTwo DEF Shippable
<1>3. item.units = 0 => item.cost = 0
  BY <1>1 DEF IInv, NoCostWithoutUnits
<1>4. /\ new \in Goods /\ new.units = item.units - s
      /\ new.units = 0 => new.cost = 0
      /\ new.units > 0 => new.cost = item.cost /\ item.units > 0
  BY <1>1, <1>2, <1>3, TakenEffect
<1>5. stock' = [stock EXCEPT ![p] = new]
  OBVIOUS
<1> HIDE DEF new
<1>6. /\ stock' \in [Products -> Goods] /\ stock'[p] = new
      /\ \A q \in Products : q # p => stock'[q] = stock[q]
  BY <1>1, <1>4, <1>5
<1>7. NoCostWithoutUnits'
  BY <1>4, <1>6 DEF IInv, NoCostWithoutUnits
<1>8. FairStock(stock')
  <2>1. FairStock(stock)
    BY ValuedParts DEF IInv
  <2> QED
    BY <1>1, <1>4, <1>6, <2>1 DEF FairStock
<1>9. InStock(stock') + s = InStock(stock)
  <2>1. stock \in [Products -> Goods] /\ p \in Products /\ new \in Goods
    BY <1>1, <1>4
  <2>2. /\ InStock([stock EXCEPT ![p] = new]) = InStock(stock) + new.units - stock[p].units
        /\ InStock(stock) \in Nat
    BY ONLY <2>1, InStockChange
  <2> QED
    <3>1. InStock(stock') = InStock(stock) + new.units - item.units
      BY <1>5, <2>2
    <3>2. new.units = item.units - s /\ item.units \in Nat /\ s \in Nat /\ InStock(stock) \in Nat
      BY <1>1, <1>2, <1>4, <2>2
    <3> QED
      BY ONLY <3>1, <3>2
<1>10. InStock(stock') \in Nat
  <2>1. \A q \in Products : stock'[q] \in Goods
    BY <1>6
  <2> DEFINE w == [q \in Products |-> stock'[q].units]
  <2>2. w \in [Products -> Nat] /\ IsFiniteSet(Products)
    BY <2>1, PartyAssumption DEF Goods
  <2>3. InStock(stock') = SumFunction(w)
    BY DEF InStock
  <2> HIDE DEF w
  <2> QED
    BY <2>2, <2>3, SumType
<1> QED
  BY <1>1, <1>2, <1>4, <1>6, <1>7, <1>8, <1>9, <1>10

(* What may come back of a shipment has the cost it left with.             *)
LEMMA ReturnScheduled ==
  ASSUME IInv, NEW e, e \in Entries, NEW back, back \in Nat, back <= stock[e.product].units,
         returns' = ScheduleReturn(e, back)
  PROVE  /\ returns' \in Seq(Returns) /\ FairLots(returns')
         /\ Units(returns') = Units(returns) + back
<1>1. /\ returns \in Seq(Returns) /\ FairLots(returns) /\ FairStock(stock) /\ round \in Nat
      /\ stock[e.product] \in Goods
  BY ValuedParts DEF IInv, TypeOK, Entries
<1>2. Units(returns) \in Nat
  BY CountsNatural DEF IInv
<1>3. CASE back = 0
  BY <1>1, <1>2, <1>3 DEF ScheduleReturn
<1>4. CASE back # 0
  <2> DEFINE ret == [customer |-> e.customer, product |-> e.product, quantity |-> back,
                     cost |-> stock[e.product].cost, due |-> round + Max({ReturnDelay, 1})]
  <2>1. returns' = Append(returns, ret)
    BY <1>4 DEF ScheduleReturn
  <2>2. ret \in Returns /\ ret.quantity = back /\ ret.product = e.product
        /\ ret.cost = stock[e.product].cost
    <3>1. ReturnDelay \in Nat /\ Max({ReturnDelay, 1}) \in Nat
      BY PartyAssumption, MaxOfTwo
    <3>2. round + Max({ReturnDelay, 1}) \in Nat
      BY <1>1, <3>1
    <3>3. e.customer \in Customers /\ e.product \in Products /\ stock[e.product].cost \in Nat
      BY <1>1 DEF Entries, Goods
    <3> QED
      BY <3>2, <3>3 DEF Returns
  <2>3. Fair(e.product, stock[e.product].cost)
    <3>1. stock[e.product].units \in Nat /\ e.product \in Products
      BY <1>1 DEF Goods, Entries
    <3>2. stock[e.product].units > 0
      BY <1>4, <3>1
    <3> QED
      BY <1>1, <3>1, <3>2 DEF FairStock
  <2> HIDE DEF ret
  <2>4. Append(returns, ret) \in Seq(Returns) /\ Units(Append(returns, ret)) = Units(returns) + ret.quantity
    BY <1>1, <2>2, ItemsCountable, UnitsAppend
  <2>5. FairLots(Append(returns, ret))
    <3>1. /\ Len(returns) \in Nat /\ DOMAIN returns = 1 .. Len(returns)
          /\ DOMAIN Append(returns, ret) = 1 .. Len(returns) + 1
          /\ Append(returns, ret)[Len(returns) + 1] = ret
          /\ \A j \in 1 .. Len(returns) : Append(returns, ret)[j] = returns[j]
      BY <1>1
    <3>2. \A j \in 1 .. Len(returns) + 1 : j = Len(returns) + 1 \/ j \in 1 .. Len(returns)
      BY <3>1
    <3> QED
      BY <1>1, <2>2, <2>3, <3>1, <3>2 DEF FairLots
  <2> QED
    BY <2>1, <2>2, <2>4, <2>5
<1> QED
  BY <1>3, <1>4

(* What is left of an order stays in the backlog, as old as it was.        *)
LEMMA RemainderKept ==
  ASSUME IInv, phase = "sales", NEW e, e \in Entries, Punctual(e, round, 0),
         NEW s, s \in Nat, s <= e.quantity,
         kept' = IF s = e.quantity THEN kept ELSE Append(kept, Remainder(e, s))
  PROVE  /\ kept' \in Seq(Entries) /\ Units(kept') + s = Units(kept) + e.quantity
         /\ AllPunctual(kept', round, 0)
         /\ \A j \in DOMAIN kept' :
              \/ \E k \in DOMAIN kept : kept'[j] = kept[k]
              \/ s # e.quantity /\ kept'[j].product = e.product
<1>1. kept \in Seq(Entries) /\ AllPunctual(kept, round, 0) /\ Units(kept) \in Nat
  BY CountsNatural DEF IInv, TypeOK, AgesKept
<1>2. CASE s = e.quantity
  BY <1>1, <1>2
<1>3. CASE s # e.quantity
  <2> DEFINE r == Remainder(e, s)
  <2>1. kept' = Append(kept, r)
    BY <1>3
  <2>2. /\ r \in Entries /\ r.product = e.product /\ r.origin = e.origin /\ r.age = e.age
        /\ r.quantity = e.quantity - s /\ r.quantity \in Nat /\ e.quantity \in Nat
    <3> DEFINE q == e.quantity - s
    <3>1. q \in Nat /\ e.quantity \in Nat
      BY DEF Entries
    <3>2. r = [e EXCEPT !.quantity = q]
      BY DEF Remainder
    <3> HIDE DEF q
    <3>3. /\ r \in Entries /\ r.product = e.product /\ r.origin = e.origin /\ r.age = e.age
          /\ r.quantity = q
      BY <3>1, <3>2 DEF Entries
    <3> QED
      BY <3>1, <3>3 DEF q
  <2> HIDE DEF r
  <2>3. Append(kept, r) \in Seq(Entries) /\ Units(Append(kept, r)) = Units(kept) + r.quantity
    BY <1>1, <2>2, ItemsCountable, UnitsAppend
  <2>4. Punctual(r, round, 0)
    BY <2>2 DEF Punctual
  <2>5. \A j \in DOMAIN kept' : kept'[j] = r \/ (j \in DOMAIN kept /\ kept'[j] = kept[j])
    <3>1. /\ Len(kept) \in Nat /\ DOMAIN kept = 1 .. Len(kept)
          /\ DOMAIN Append(kept, r) = 1 .. Len(kept) + 1
          /\ Append(kept, r)[Len(kept) + 1] = r
          /\ \A j \in 1 .. Len(kept) : Append(kept, r)[j] = kept[j]
      BY <1>1
    <3>2. \A j \in 1 .. Len(kept) + 1 : j = Len(kept) + 1 \/ j \in 1 .. Len(kept)
      BY <3>1
    <3> QED
      BY <2>1, <3>1, <3>2
  <2>6. AllPunctual(kept', round, 0)
    BY <1>1, <2>4, <2>5 DEF AllPunctual
  <2>7. Units(kept') + s = Units(kept) + e.quantity
    BY <1>1, <2>1, <2>2, <2>3
  <2> QED
    BY <1>3, <2>1, <2>2, <2>3, <2>5, <2>6, <2>7
<1> QED
  BY <1>2, <1>3

(* Whatever an order gets leaves the stock, and what it does not get stays *)
(* open.                                                                   *)
LEMMA ShipEntryIInv ==
  ASSUME IInv, NEW i \in DOMAIN queue, NEW back \in 0 .. MaxReturn, ShipEntry(i, back)
  PROVE  IInv'
<1> DEFINE e == queue[i]
           p == e.product
           s == Shippable(e)
<1>1. /\ phase = "sales" /\ back <= s
      /\ stock' = [stock EXCEPT ![e.product] = Taken(@, s)]
      /\ returns' = ScheduleReturn(e, back)
      /\ totals' = [totals EXCEPT !.shipped = @ + s]
      /\ queue' = RemoveAt(queue, i)
      /\ kept' = IF s = e.quantity THEN kept ELSE Append(kept, Remainder(e, s))
      /\ UNCHANGED <<round, phase, holds, finished, marketVars, asked>>
  BY DEF ShipEntry
<1>2. queue \in Seq(Entries) /\ totals \in Totals /\ AllPunctual(queue, round, 0) /\ back \in Nat
  BY <1>1, InputAssumption DEF IInv, TypeOK, AgesKept
<1>3. e \in Entries /\ Punctual(e, round, 0) /\ e.quantity \in Nat /\ e.product \in Products
  BY <1>2, EntryFields DEF AllPunctual
<1>4. s = Shippable(e)
  OBVIOUS
<1> HIDE DEF e, s
<1>5. /\ s \in Nat /\ s <= e.quantity /\ s <= stock[e.product].units
      /\ s = e.quantity \/ s = stock[e.product].units
      /\ stock' \in [Products -> Goods] /\ NoCostWithoutUnits' /\ FairStock(stock')
      /\ stock'[e.product].units = stock[e.product].units - s
      /\ \A q \in Products : q # e.product => stock'[q] = stock[q]
      /\ InStock(stock') + s = InStock(stock) /\ InStock(stock') \in Nat
  BY <1>1, <1>3, <1>4, ShippedUnits
<1>6. stock \in [Products -> Goods] /\ \A q \in Products : stock[q].units \in Nat
  BY DEF IInv, TypeOK, Goods
<1>7. back <= stock[e.product].units
  BY <1>1, <1>2, <1>3, <1>5, <1>6
<1>8. /\ returns' \in Seq(Returns) /\ FairLots(returns')
      /\ Units(returns') = Units(returns) + back
  BY <1>1, <1>2, <1>3, <1>7, ReturnScheduled
<1>9. /\ kept' \in Seq(Entries) /\ Units(kept') + s = Units(kept) + e.quantity
      /\ AllPunctual(kept', round, 0)
      /\ \A j \in DOMAIN kept' :
           \/ \E k \in DOMAIN kept : kept'[j] = kept[k]
           \/ s # e.quantity /\ kept'[j].product = e.product
  BY <1>1, <1>3, <1>5, RemainderKept
<1>10. queue' \in Seq(Entries) /\ Units(queue) = Units(queue') + e.quantity
  BY <1>1, <1>2, Removed, ItemsCountable, UnitsRemove DEF e
<1>11. AllPunctual(queue', round, 0)
  <2>1. \A j \in DOMAIN queue' : \E k \in DOMAIN queue : queue'[j] = queue[k]
    BY <1>1, <1>2, RemovedItems
  <2> QED
    BY <1>2, <2>1 DEF AllPunctual
<1>12. /\ totals' \in Totals /\ totals'.shipped = totals.shipped + s
       /\ totals'.returned = totals.returned /\ totals'.demanded = totals.demanded
       /\ totals'.yielded = totals.yielded /\ totals'.lost = totals.lost
  <2> DEFINE q == totals.shipped + s
  <2>1. totals' = [totals EXCEPT !.shipped = q] /\ q \in Nat
    BY <1>1, <1>2, <1>5 DEF Totals
  <2> HIDE DEF q
  <2>2. /\ totals' \in Totals /\ totals'.shipped = q
        /\ totals'.returned = totals.returned /\ totals'.demanded = totals.demanded
        /\ totals'.yielded = totals.yielded /\ totals'.lost = totals.lost
    BY <1>2, <2>1 DEF Totals
  <2> QED
    BY <2>2 DEF q
<1>13. TypeOK'
  BY <1>1, <1>5, <1>8, <1>9, <1>10, <1>12 DEF IInv, TypeOK, marketVars
<1>14. /\ InStock(OpeningStock) \in Nat /\ totals.yielded \in Nat /\ totals.returned \in Nat
       /\ Units(holds) \in Nat /\ Units(returns) \in Nat /\ Units(OpeningBacklog) \in Nat
       /\ totals.shipped \in Nat /\ totals.demanded \in Nat /\ totals.lost \in Nat
       /\ Units(kept) \in Nat
  BY CountsNatural DEF IInv
<1>15. UnitsConserved'
  <2>1. \A a, b, k, d, m, f, x, y \in Nat :
          a + b + k = d + m + f /\ y + x = d => a + b + k = y + m + (f + x)
    OBVIOUS
  <2>2. InStock(OpeningStock) + totals.yielded + totals.returned
          = InStock(stock) + Units(holds) + totals.shipped
    BY DEF IInv, UnitsConserved
  <2>3. InStock(stock) \in Nat
    BY <1>5
  <2>4. InStock(OpeningStock) + totals.yielded + totals.returned
          = InStock(stock') + Units(holds) + (totals.shipped + s)
    BY ONLY <1>5, <1>14, <2>1, <2>2, <2>3
  <2> QED
    BY <1>1, <1>12, <2>4 DEF UnitsConserved
<1>16. DemandConserved'
  <2>1. \A a, b, k, d, m, f, g, d2, m2, x, y \in Nat :
          /\ a + b + k = (d + m) + f + g /\ d = d2 + x /\ m2 + y = m + x
          => a + b + k = (d2 + m2) + (f + y) + g
    OBVIOUS
  <2>2. Open = Units(queue) + Units(kept) /\ Open' = Units(queue') + Units(kept')
    BY <1>1 DEF Open
  <2>3. /\ Units(OpeningBacklog) + totals.demanded + totals.returned
             = (Units(queue) + Units(kept)) + totals.shipped + totals.lost
        /\ totals.returned + Units(returns) <= totals.shipped
    BY <2>2 DEF IInv, DemandConserved
  <2>4. Units(queue) \in Nat /\ Units(queue') \in Nat /\ Units(kept') \in Nat
    BY <1>2, <1>9, <1>10, ItemsCountable, UnitsOfSeq
  <2>5. e.quantity \in Nat /\ s \in Nat /\ back \in Nat /\ back <= s
    BY <1>1, <1>2, <1>3, <1>5
  <2>6. Units(queue) = Units(queue') + e.quantity /\ Units(kept') + s = Units(kept) + e.quantity
    BY <1>9, <1>10
  <2>7. Units(OpeningBacklog) + totals.demanded + totals.returned
          = (Units(queue') + Units(kept')) + (totals.shipped + s) + totals.lost
    BY ONLY <1>14, <2>1, <2>3, <2>4, <2>5, <2>6
  <2>8. totals.returned + (Units(returns) + back) <= totals.shipped + s
    BY ONLY <1>14, <2>3, <2>5
  <2> QED
    BY <1>8, <1>12, <2>2, <2>7, <2>8 DEF DemandConserved
<1>17. NothingLeft'
  <2> SUFFICES ASSUME NEW j \in DOMAIN kept' PROVE stock'[kept'[j].product].units = 0
    BY DEF NothingLeft
  <2>1. CASE \E k \in DOMAIN kept : kept'[j] = kept[k]
    <3>1. PICK k \in DOMAIN kept : kept'[j] = kept[k]
      BY <2>1
    <3>2. stock[kept[k].product].units = 0
      BY <1>1 DEF IInv, NothingLeft
    <3>3. kept[k].product \in Products
      BY EntryFields DEF IInv, TypeOK
    <3>4. CASE kept[k].product = e.product
      BY <1>3, <1>5, <1>6, <3>1, <3>2, <3>4
    <3>5. CASE kept[k].product # e.product
      BY <1>5, <3>1, <3>2, <3>3, <3>5
    <3> QED
      BY <3>4, <3>5
  <2>2. CASE s # e.quantity /\ kept'[j].product = e.product
    <3>1. s = stock[e.product].units
      BY <1>5, <2>2
    <3>2. stock'[e.product].units = 0
      BY <1>5, <3>1
    <3> QED
      BY <2>2, <3>2
  <2> QED
    BY <1>9, <2>1, <2>2
<1>18. ValuedWithinCost' /\ HoldsMerged'
  BY <1>1, <1>5, <1>8, ValuedParts DEF IInv, HoldsMerged
<1>19. ViewsFollow' /\ AgesKept'
  BY <1>1, <1>9, <1>11 DEF IInv, ViewsFollow, AgesKept, OneMore, marketVars
<1> QED
  BY <1>1, <1>5, <1>13, <1>15, <1>16, <1>17, <1>18, <1>19 DEF IInv

-----------------------------------------------------------------------------
(* Ageing.                                                                 *)

(* The backlog a round older: the same orders, each a round older.         *)
LEMMA AgedBacklog ==
  ASSUME IInv, phase = "ageing"
  PROVE  /\ Aged \in Seq(Entries) /\ Units(Aged) = Units(backlog)
         /\ \A j \in DOMAIN Aged : Aged[j].age = round - Max({Aged[j].origin, 1}) + 1
<1>1. backlog \in Seq(Entries) /\ EffectiveBacklog = backlog
  BY EffectiveIsBacklog DEF IInv, TypeOK, ViewsFollow
<1>2. Aged = [j \in DOMAIN backlog |-> [backlog[j] EXCEPT !.age = @ + 1]]
  BY <1>1 DEF Aged
<1>3. DOMAIN backlog = 1 .. Len(backlog) /\ Len(backlog) \in Nat
  BY <1>1
<1>4. ASSUME NEW j \in DOMAIN backlog
      PROVE  /\ Aged[j] \in Entries /\ Aged[j].quantity = backlog[j].quantity
             /\ Aged[j].origin = backlog[j].origin /\ Aged[j].age = backlog[j].age + 1
  <2> DEFINE e == backlog[j]
             n == e.age + 1
  <2>1. e \in Entries /\ n \in Nat
    BY <1>1, EntryFields
  <2>2. Aged[j] = [e EXCEPT !.age = n]
    BY <1>2
  <2> HIDE DEF e, n
  <2>3. /\ Aged[j] \in Entries /\ Aged[j].quantity = e.quantity
        /\ Aged[j].origin = e.origin /\ Aged[j].age = n
    BY <2>1, <2>2 DEF Entries
  <2> QED
    BY <2>3 DEF e, n
<1>5. Aged \in Seq(Entries) /\ DOMAIN Aged = DOMAIN backlog
  <2> DEFINE n == Len(backlog)
  <2>1. DOMAIN Aged = 1 .. n /\ n \in Nat /\ Aged = [j \in 1 .. n |-> Aged[j]]
    BY <1>2, <1>3
  <2>2. \A j \in 1 .. n : Aged[j] \in Entries
    BY <1>3, <1>4
  <2> HIDE DEF n
  <2>3. [j \in 1 .. n |-> Aged[j]] \in Seq(Entries)
    BY ONLY <2>1, <2>2
  <2> QED
    BY <1>2, <2>1, <2>3
<1>6. Units(Aged) = Units(backlog)
  BY <1>4, <1>5 DEF Units
<1>7. ASSUME NEW j \in DOMAIN Aged PROVE Aged[j].age = round - Max({Aged[j].origin, 1}) + 1
  <2>1. backlog[j].age = round - Max({backlog[j].origin, 1}) + 0
    BY <1>5 DEF IInv, AgesKept, AllPunctual, Punctual, OneMore
  <2>2. round \in Nat /\ backlog[j].origin \in Nat /\ Max({backlog[j].origin, 1}) \in Nat
    <3>1. round \in Nat
      BY DEF IInv, TypeOK
    <3>2. backlog[j].origin \in Nat
      BY <1>1, <1>5, EntryFields
    <3> QED
      BY <3>1, <3>2, MaxOfTwo
  <2>3. Aged[j].origin = backlog[j].origin /\ Aged[j].age = backlog[j].age + 1
    BY <1>4, <1>5
  <2> QED
    BY <2>1, <2>2, <2>3
<1> QED
  BY <1>5, <1>6, <1>7

(* The backlog loses what has expired, and what it loses is counted.       *)
LEMMA AgeBacklogIInv == ASSUME IInv, AgeBacklog PROVE IInv'
<1> DEFINE P == DOMAIN Aged \ Expired
           lost == SumFunction([j \in Expired |-> Aged[j].quantity])
           hits(c) == {j \in Expired : Aged[j].customer = c}
<1>1. /\ phase = "ageing" /\ phase' = "closed"
      /\ backlog' = Subsequence(Aged, P) /\ views' = ViewsOf(backlog')
      /\ sentiment' = [c \in Customers |-> sentiment[c] - Cardinality(hits(c))]
      /\ totals' = [totals EXCEPT !.lost = @ + lost]
      /\ UNCHANGED <<round, goodsVars, returns, finished, queue, kept, asked>>
  BY DEF AgeBacklog
<1>2. /\ Aged \in Seq(Entries) /\ Units(Aged) = Units(backlog)
      /\ \A j \in DOMAIN Aged : Aged[j].age = round - Max({Aged[j].origin, 1}) + 1
  BY <1>1, AgedBacklog
<1>3. /\ IsFiniteSet(DOMAIN Aged) /\ Expired \in SUBSET DOMAIN Aged
      /\ \A j \in DOMAIN Aged : Aged[j].quantity \in Int /\ Aged[j].quantity \in Nat
  BY <1>2, ItemsCountable, UnitsOfSeq DEF Expired
<1>4. IsFiniteSet(Expired)
  BY <1>3, FS_Subset
<1>5. lost = Units(Part(Aged, Expired)) /\ lost \in Nat
  <2> DEFINE u == Part(Aged, Expired)
  <2>1. DOMAIN u = Expired /\ \A j \in Expired : u[j] = Aged[j]
    BY DEF Part
  <2>2. [j \in DOMAIN u |-> u[j].quantity] = [j \in Expired |-> Aged[j].quantity]
    BY <2>1
  <2>3. \A j \in Expired : u[j].quantity \in Nat
    BY <1>3, <2>1
  <2> HIDE DEF u
  <2>4. Units(u) \in Nat
    BY <1>4, <2>1, <2>3, UnitsType
  <2> QED
    BY <2>2, <2>4 DEF Units, u
<1>6. P \subseteq DOMAIN Aged
  OBVIOUS
<1>7. Units(Aged) = lost + Units(Part(Aged, P))
  BY <1>3, <1>5, UnitsUnion
<1> HIDE DEF P, lost
<1>8. /\ backlog' \in Seq(Entries) /\ DOMAIN backlog' = 1 .. Cardinality(P)
      /\ \A k \in DOMAIN backlog' : Nth(P, k) \in P /\ backlog'[k] = Aged[Nth(P, k)]
  BY <1>1, <1>2, <1>6, SubsequenceItems
<1>9. Units(backlog') = Units(Part(Aged, P))
  BY <1>1, <1>2, <1>6, ItemsCountable, UnitsSubsequence
<1>10. totals \in Totals
  BY DEF IInv, TypeOK
<1>11. /\ totals' \in Totals /\ totals'.lost = totals.lost + lost
       /\ totals'.returned = totals.returned /\ totals'.demanded = totals.demanded
       /\ totals'.yielded = totals.yielded /\ totals'.shipped = totals.shipped
  <2> DEFINE q == totals.lost + lost
  <2>1. totals' = [totals EXCEPT !.lost = q] /\ q \in Nat
    BY <1>1, <1>5, <1>10 DEF Totals
  <2> HIDE DEF q
  <2>2. /\ totals' \in Totals /\ totals'.lost = q
        /\ totals'.returned = totals.returned /\ totals'.demanded = totals.demanded
        /\ totals'.yielded = totals.yielded /\ totals'.shipped = totals.shipped
    BY <1>10, <2>1 DEF Totals
  <2> QED
    BY <2>2 DEF q
<1>12. TypeOK'
  <2>1. views' \in [Customers -> Seq(Entries)]
    BY <1>1, <1>8, ViewsType
  <2>2. ASSUME NEW c \in Customers PROVE sentiment[c] - Cardinality(hits(c)) \in Int
    <3>1. hits(c) \subseteq Expired
      OBVIOUS
    <3>2. sentiment[c] \in Int
      BY DEF IInv, TypeOK
    <3> HIDE DEF hits
    <3>3. Cardinality(hits(c)) \in Nat
      BY <1>4, <3>1, FS_Subset, FS_CardinalityType
    <3> QED
      BY <3>2, <3>3
  <2>3. sentiment' \in [Customers -> Int]
    BY <1>1, <2>2
  <2> QED
    BY <1>1, <1>8, <1>11, <2>1, <2>3 DEF IInv, TypeOK, Phases, goodsVars
<1>13. DemandConserved'
  <2>1. \A a, b, k, d, m, f, x, y \in Nat :
          a + b + k = d + m + f /\ d = x + y => a + b + k = y + m + (f + x)
    OBVIOUS
  <2>2. /\ Units(OpeningBacklog) \in Nat /\ totals.demanded \in Nat /\ totals.returned \in Nat
        /\ Units(backlog) \in Nat /\ totals.shipped \in Nat /\ totals.lost \in Nat
    BY CountsNatural DEF IInv
  <2>3. Open = Units(backlog) /\ Open' = Units(backlog')
    BY <1>1 DEF Open
  <2>4. /\ Units(OpeningBacklog) + totals.demanded + totals.returned
             = Units(backlog) + totals.shipped + totals.lost
        /\ totals.returned + Units(returns) <= totals.shipped
    BY <2>3 DEF IInv, DemandConserved
  <2>5. Units(backlog') \in Nat /\ lost \in Nat /\ Units(backlog) = lost + Units(backlog')
    BY <1>2, <1>5, <1>7, <1>8, <1>9, ItemsCountable, UnitsOfSeq
  <2>6. Units(OpeningBacklog) + totals.demanded + totals.returned
          = Units(backlog') + totals.shipped + (totals.lost + lost)
    BY ONLY <2>1, <2>2, <2>4, <2>5
  <2> QED
    BY <1>1, <1>11, <2>3, <2>4, <2>6 DEF DemandConserved
<1>14. UnitsConserved' /\ ValuedWithinCost' /\ NoCostWithoutUnits' /\ HoldsMerged'
  BY <1>1, <1>11, ValuedParts
     DEF IInv, UnitsConserved, NoCostWithoutUnits, HoldsMerged, goodsVars
<1>15. NothingLeft' /\ ViewsFollow'
  BY <1>1 DEF NothingLeft, ViewsFollow
<1>16. AgesKept'
  <2>1. ASSUME NEW k \in DOMAIN backlog' PROVE Punctual(backlog'[k], round, 1)
    <3>1. /\ Nth(P, k) \in DOMAIN Aged /\ Nth(P, k) \notin Expired
          /\ backlog'[k] = Aged[Nth(P, k)]
      BY <1>8 DEF P
    <3>2. ~(backlog'[k].age > Expiry)
      BY <3>1 DEF Expired
    <3>3. backlog'[k].age = round - Max({backlog'[k].origin, 1}) + 1
      BY <1>2, <3>1
    <3>4. backlog'[k].age \in Nat /\ Expiry \in Nat
      BY <1>8, EntryFields, PartyAssumption
    <3> QED
      BY <3>2, <3>3, <3>4 DEF Punctual
  <2> QED
    BY <1>1, <2>1 DEF AgesKept, AllPunctual, OneMore
<1> QED
  BY <1>1, <1>12, <1>13, <1>14, <1>15, <1>16 DEF IInv

-----------------------------------------------------------------------------
(* The theorems.                                                           *)

(* A step that changes nothing.                                            *)
LEMMA StutterIInv == ASSUME IInv, UNCHANGED vars PROVE IInv'
<1>1. UNCHANGED <<round, phase, stock, holds, returns, finished, backlog, views, sentiment,
                  queue, kept, asked, totals>>
  BY DEF vars
<1>2. NoCostWithoutUnits' /\ HoldsMerged' /\ UnitsConserved' /\ ValuedWithinCost'
  BY <1>1, QuietGoods
<1>3. TypeOK' /\ DemandConserved' /\ NothingLeft' /\ ViewsFollow' /\ AgesKept'
  <2>1. RipeReturns' = RipeReturns
    BY <1>1 DEF RipeReturns
  <2> QED
    BY <1>1, <2>1 DEF IInv, TypeOK, DemandConserved, Open, NothingLeft, ViewsFollow, AgesKept, OneMore
<1> QED
  BY <1>1, <1>2, <1>3 DEF IInv

(* Every step keeps the inductive invariant.                               *)
LEMMA NextIInv == IInv /\ [Next]_vars => IInv'
<1> SUFFICES ASSUME IInv, [Next]_vars PROVE IInv'
  OBVIOUS
<1>1. CASE ReleaseHold
  BY <1>1, ReleaseHoldIInv
<1>2. CASE EndHolds
  BY <1>2, EndHoldsIInv
<1>3. CASE BookReturn
  BY <1>3, BookReturnIInv
<1>4. CASE EndReturns
  BY <1>4, EndReturnsIInv
<1>5. CASE \E yield \in Yields : Produce(yield)
  BY <1>5, ProduceIInv
<1>6. CASE EndProduction
  BY <1>6, EndProductionIInv
<1>7. CASE \E i \in DOMAIN queue, back \in 0 .. MaxReturn : ShipEntry(i, back)
  BY <1>7, ShipEntryIInv
<1>8. CASE EndSales
  BY <1>8, EndSalesIInv
<1>9. CASE \E c \in Customers, p \in Products, units \in Demands : BookDemand(c, p, units)
  BY <1>9, BookDemandIInv
<1>10. CASE EndDemand
  BY <1>10, EndDemandIInv
<1>11. CASE AgeBacklog
  BY <1>11, AgeBacklogIInv
<1>12. CASE NextRound
  BY <1>12, NextRoundIInv
<1>13. CASE Horizon \/ UNCHANGED vars
  BY <1>13, StutterIInv DEF Horizon
<1> QED
  BY <1>1, <1>2, <1>3, <1>4, <1>5, <1>6, <1>7, <1>8, <1>9, <1>10, <1>11, <1>12, <1>13 DEF Next

(* The inductive invariant holds in every state of every match: what the   *)
(* steps of releaseInspectionHolds, processCustomerReturns, resolveSales,  *)
(* applyDemand and finalizeRound keep together.                            *)
THEOREM Inductive == Spec => []IInv
BY InitIInv, NextIInv, PTL DEF Spec

(* PF-5: the variables keep their types, the stock above all: no shipment  *)
(* takes out of stock what is not there.                                   *)
THEOREM TypeCorrect == Spec => []TypeOK
<1>1. IInv => TypeOK
  BY DEF IInv
<1> QED
  BY <1>1, Inductive, PTL

(* The plant's backlog and the customers' copies of it agree whenever the  *)
(* returns of a round are not being booked.                                *)
THEOREM ViewsAlwaysAgree == Spec => []ViewsAgree
<1>1. IInv => ViewsAgree
  BY DEF IInv, ViewsFollow, ViewsAgree
<1> QED
  BY <1>1, Inductive, PTL

(* PF-5 and PF-7: no finished unit appears or disappears, whichever way it *)
(* goes through stock, inspection, customers and returns.                  *)
THEOREM UnitsAlwaysConserved == Spec => []UnitsConserved
<1>1. IInv => UnitsConserved
  BY DEF IInv
<1> QED
  BY <1>1, Inductive, PTL

(* FB-5: every unit ordered, or owed again, is open, shipped or lost, and  *)
(* no more comes back than was shipped.                                    *)
THEOREM DemandAlwaysConserved == Spec => []DemandConserved
<1>1. IInv => DemandConserved
  BY DEF IInv
<1> QED
  BY <1>1, Inductive, PTL

(* FB-4: averaging, inspection, shipment and return never value a unit     *)
(* outside the costs at which units of its product were made.              *)
THEOREM AlwaysValuedWithinCost == Spec => []ValuedWithinCost
<1>1. IInv => ValuedWithinCost
  BY DEF IInv
<1> QED
  BY <1>1, Inductive, PTL

(* TR-3: the age of an order in the backlog is the number of rounds since  *)
(* it was booked, and never more than the expiry window.                   *)
THEOREM ExpiryAlwaysKept == Spec => []ExpiryWindow
<1>1. IInv => ExpiryWindow
  <2> SUFFICES ASSUME IInv, NEW i \in DOMAIN backlog
               PROVE  /\ backlog[i].age = round - Max({backlog[i].origin, 1})
                                            + (IF phase = "closed" THEN 1 ELSE 0)
                      /\ backlog[i].age <= Expiry
    BY DEF ExpiryWindow, Range
  <2> QED
    BY DEF IInv, AgesKept, AllPunctual, Punctual, OneMore
<1> QED
  BY <1>1, Inductive, PTL

(* A shipment goes to the oldest order that is open for its product: those *)
(* still to be served are no older, and for what older orders keep open    *)
(* nothing was left to ship.                                               *)
THEOREM OldestAlwaysFirst == Spec => OldestFirst
<1> DEFINE Oldest ==
      phase = "sales" /\ totals'.shipped > totals.shipped =>
        \E i \in DOMAIN queue :
          /\ queue' = RemoveAt(queue, i)
          /\ \A e \in Range(kept) \union Range(queue') :
               e.product = queue[i].product => e.origin >= queue[i].origin
<1>1. IInv /\ [Next]_vars => Oldest
  <2> SUFFICES ASSUME IInv, [Next]_vars, phase = "sales", totals'.shipped > totals.shipped
               PROVE  \E i \in DOMAIN queue :
                        /\ queue' = RemoveAt(queue, i)
                        /\ \A e \in Range(kept) \union Range(queue') :
                             e.product = queue[i].product => e.origin >= queue[i].origin
    OBVIOUS
  <2>1. totals.shipped \in Nat
    BY CountsNatural DEF IInv
  <2>2. totals' # totals
    BY <2>1
  <2>3. \E i \in DOMAIN queue, back \in 0 .. MaxReturn : ShipEntry(i, back)
    BY <2>2 DEF Next, vars, ReleaseHold, EndHolds, BookReturn, EndReturns, Produce, EndProduction,
                EndSales, BookDemand, EndDemand, AgeBacklog, NextRound, Horizon
  <2>4. PICK i \in DOMAIN queue, back \in 0 .. MaxReturn : ShipEntry(i, back)
    BY <2>3
  <2> DEFINE e == queue[i]
             s == Shippable(e)
  <2>5. /\ queue' = RemoveAt(queue, i) /\ totals' = [totals EXCEPT !.shipped = @ + s]
        /\ \A j \in DOMAIN queue : ~Before(queue[j], e)
    BY <2>4 DEF ShipEntry
  <2>6. queue \in Seq(Entries) /\ kept \in Seq(Entries) /\ totals \in Totals
    BY DEF IInv, TypeOK
  <2>7. e \in Entries /\ e.quantity \in Nat /\ e.origin \in Nat /\ e.product \in Products
    BY <2>6, EntryFields
  <2>8. stock[e.product].units \in Nat
    BY <2>7 DEF IInv, TypeOK, Goods
  <2>9. s \in Nat /\ s <= stock[e.product].units
    BY <2>7, <2>8, MinOfTwo DEF Shippable
  <2> HIDE DEF s
  <2>10. s > 0
    <3>1. totals'.shipped = totals.shipped + s
      BY <2>5, <2>6 DEF Totals
    <3> QED
      BY <2>1, <2>9, <3>1
  <2>11. stock[e.product].units # 0
    BY <2>8, <2>9, <2>10
  <2>12. \A k \in DOMAIN kept : kept[k].product # e.product
    BY <2>11 DEF IInv, NothingLeft
  <2>13. \A j \in DOMAIN queue : queue[j].origin >= e.origin
    <3> SUFFICES ASSUME NEW j \in DOMAIN queue PROVE queue[j].origin >= e.origin
      OBVIOUS
    <3>1. queue[j].origin \in Nat
      BY <2>6, EntryFields
    <3>2. ~(queue[j].origin < e.origin)
      BY <2>5 DEF Before
    <3> QED
      BY <2>7, <3>1, <3>2
  <2>14. \A j \in DOMAIN queue' : queue'[j].origin >= e.origin
    <3>1. \A j \in DOMAIN queue' : \E k \in DOMAIN queue : queue'[j] = queue[k]
      BY <2>5, <2>6, RemovedItems
    <3> QED
      BY <2>13, <3>1
  <2>15. \A f \in Range(kept) \union Range(queue') :
           f.product = queue[i].product => f.origin >= queue[i].origin
    BY <2>12, <2>14 DEF Range
  <2> QED
    BY <2>5, <2>15
<1>2. Oldest => [Oldest]_vars
  OBVIOUS
<1> QED
  BY <1>1, Inductive, PTL DEF Spec, OldestFirst

=============================================================================
