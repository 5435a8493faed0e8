----------------------------- MODULE SumLemmas ------------------------------
(***************************************************************************)
(* Facts about MapThenSumSet, the sum of a function over a finite set,     *)
(* which the properties about totals are stated with, and about Min and    *)
(* Max.  The sum is a function defined by recursion over the subsets, so   *)
(* each fact is proved from a smallest set it would fail for.              *)
(***************************************************************************)
EXTENDS Integers, FiniteSets, FiniteSetsExt, FiniteSetTheorems,
        WellFoundedInduction, TLAPS

Total(f, S) == MapThenSumSet(LAMBDA x : f[x], S)

Pick(s) == CHOOSE x \in s : TRUE

(* g sums f over the subsets of S. *)
Sums(g, f, S) ==
  g = [s \in SUBSET S |-> IF s = {} THEN 0 ELSE f[Pick(s)] + g[s \ {Pick(s)}]]

(* The sum is the value of such a function, if there is one. *)
LEMMA TotalIs ==
  ASSUME NEW f, NEW S
  PROVE  Total(f, S) = (CHOOSE g : Sums(g, f, S))[S]
BY DEF Total, MapThenSumSet, MapThenFoldSet, Sums, Pick

(* The element taken out is one of the set. *)
LEMMA PickIn == ASSUME NEW s, s # {} PROVE Pick(s) \in s
BY DEF Pick

(* A family of subsets of a finite set has a smallest member. *)
LEMMA Smallest ==
  ASSUME NEW S, IsFiniteSet(S), NEW B \in SUBSET SUBSET S, B # {}
  PROVE  \E T \in B : \A U \in SUBSET T : U # T => U \notin B
<1>1. B \subseteq FiniteSubsetsOf(S)
  BY FS_FiniteSubsetsOfFinite
<1>2. \E T \in B : \A U \in B : ~(<<U, T>> \in StrictSubsetOrdering(S))
  BY <1>1, FS_StrictSubsetOrderingWellFounded, WFMin
<1>3. PICK T \in B : \A U \in B : ~(<<U, T>> \in StrictSubsetOrdering(S))
  BY <1>2
<1>4. \A U \in SUBSET T : U # T => U \notin B
  BY <1>3 DEF StrictSubsetOrdering
<1> QED
  BY <1>4

(* All such functions agree where they are defined. *)
LEMMA SumsAgree ==
  ASSUME NEW f, NEW S, NEW T, NEW g, NEW h, Sums(g, f, S), Sums(h, f, T),
         NEW R, R \subseteq S, R \subseteq T, IsFiniteSet(R)
  PROVE  g[R] = h[R]
<1> DEFINE B == {U \in SUBSET R : g[U] # h[U]}
<1>1. SUFFICES ASSUME B # {} PROVE FALSE
  OBVIOUS
<1>2. PICK U \in B : \A V \in SUBSET U : V # U => V \notin B
  <2>1. B \in SUBSET SUBSET R
    OBVIOUS
  <2> HIDE DEF B
  <2> QED
    BY <1>1, <2>1, Smallest
<1>3. U \in SUBSET S /\ U \in SUBSET T
  OBVIOUS
<1>4. U # {}
  BY <1>2, <1>3 DEF Sums
<1>5. g[U] = f[Pick(U)] + g[U \ {Pick(U)}] /\ h[U] = f[Pick(U)] + h[U \ {Pick(U)}]
  BY <1>3, <1>4 DEF Sums
<1>6. g[U \ {Pick(U)}] = h[U \ {Pick(U)}]
  BY <1>2, <1>4, PickIn
<1> QED
  BY <1>2, <1>5, <1>6

(* There is one for every finite set. *)
LEMMA SumsExist ==
  ASSUME NEW f, NEW S, IsFiniteSet(S)
  PROVE  \E g : Sums(g, f, S)
<1> DEFINE B == {T \in SUBSET S : ~ \E g : Sums(g, f, T)}
<1>1. SUFFICES ASSUME B # {} PROVE FALSE
  OBVIOUS
<1>2. PICK T \in B : \A U \in SUBSET T : U # T => U \notin B
  <2>1. B \in SUBSET SUBSET S
    OBVIOUS
  <2> HIDE DEF B
  <2> QED
    BY <1>1, <2>1, Smallest
<1>3. T # {}
  <2>1. Sums([s \in SUBSET {} |-> 0], f, {})
    BY DEF Sums
  <2> QED
    BY <1>2, <2>1
<1> DEFINE h(U) == CHOOSE g : Sums(g, f, U)
           part(U) == h(U)[U]
           all == [s \in SUBSET T |->
                     IF s = {} THEN 0 ELSE f[Pick(s)] + part(s \ {Pick(s)})]
<1>4. \A U \in SUBSET T : U # T => Sums(h(U), f, U)
  BY <1>2
<1>5. \A U \in SUBSET T : U # T => all[U] = part(U)
  <2> SUFFICES ASSUME NEW U \in SUBSET T, U # T PROVE all[U] = part(U)
    OBVIOUS
  <2>1. Sums(h(U), f, U)
    BY <1>4
  <2>2. CASE U = {}
    BY <2>1, <2>2 DEF Sums
  <2>3. CASE U # {}
    <3> DEFINE V == U \ {Pick(U)}
    <3>1. Pick(U) \in U
      BY <2>3, PickIn
    <3>2. V \in SUBSET T /\ V # T /\ V \subseteq U
      BY <3>1
    <3>3. Sums(h(V), f, V)
      BY <1>4, <3>2
    <3>4. IsFiniteSet(V)
      BY <3>2, FS_Subset
    <3> HIDE DEF h
    <3>5. h(V)[V] = h(U)[V]
      BY <2>1, <3>2, <3>3, <3>4, SumsAgree
    <3>6. h(U)[U] = f[Pick(U)] + h(U)[V]
      BY <2>1, <2>3 DEF Sums
    <3> QED
      BY <2>3, <3>5, <3>6
  <2> QED
    BY <2>2, <2>3
<1>6. Sums(all, f, T)
  <2>1. \A s \in SUBSET T : s # {} => s \ {Pick(s)} \in SUBSET T /\ s \ {Pick(s)} # T
    BY PickIn
  <2> HIDE DEF h, part
  <2>2. \A s \in SUBSET T : s # {} => all[s \ {Pick(s)}] = part(s \ {Pick(s)})
    BY <1>5, <2>1
  <2> QED
    BY <2>2 DEF Sums
<1> QED
  BY <1>2, <1>6

(* So the sum unfolds the way its definition says. *)
LEMMA TotalOf ==
  ASSUME NEW f, NEW S, IsFiniteSet(S), NEW g, NEW T, Sums(g, f, T), S \subseteq T
  PROVE  Total(f, S) = g[S]
<1> DEFINE h == CHOOSE k : Sums(k, f, S)
<1>1. Sums(h, f, S)
  BY SumsExist
<1>2. Total(f, S) = h[S]
  BY TotalIs
<1> HIDE DEF h
<1> QED
  BY <1>1, <1>2, SumsAgree

(* Nothing sums to zero. *)
LEMMA TotalEmpty == ASSUME NEW f PROVE Total(f, {}) = 0
<1>1. IsFiniteSet({})
  BY FS_EmptySet
<1>2. PICK g : Sums(g, f, {})
  BY <1>1, SumsExist
<1>3. g[{}] = 0
  BY <1>2 DEF Sums
<1> QED
  BY <1>1, <1>2, <1>3, TotalOf

(* The sum of integers is an integer, of naturals a natural; and which     *)
(* element is taken out first does not matter.                             *)
LEMMA TotalType ==
  ASSUME NEW S, IsFiniteSet(S), NEW f, \A x \in S : f[x] \in Int
  PROVE  /\ Total(f, S) \in Int
         /\ (\A x \in S : f[x] >= 0) => Total(f, S) >= 0
<1>1. PICK g : Sums(g, f, S)
  BY SumsExist
<1>2. \A T \in SUBSET S : Total(f, T) = g[T]
  BY <1>1, TotalOf, FS_Subset
<1>3. \A T \in SUBSET S :
        T # {} => Pick(T) \in T /\ g[T] = f[Pick(T)] + g[T \ {Pick(T)}]
  BY <1>1, PickIn DEF Sums
<1>4. g[{}] = 0
  BY <1>1 DEF Sums
<1> DEFINE Good(T) == g[T] \in Int /\ ((\A x \in S : f[x] >= 0) => g[T] >= 0)
           B == {T \in SUBSET S : ~Good(T)}
<1>5. B = {}
  <2> SUFFICES ASSUME B # {} PROVE FALSE
    OBVIOUS
  <2>1. B \in SUBSET SUBSET S
    OBVIOUS
  <2>2. PICK T \in B : \A U \in SUBSET T : U # T => U \notin B
    <3> HIDE DEF B
    <3> QED
      BY <2>1, Smallest
  <2>3. T # {}
    BY <1>4
  <2>4. Good(T \ {Pick(T)})
    BY <1>3, <2>2, <2>3
  <2>5. f[Pick(T)] \in Int /\ g[T] = f[Pick(T)] + g[T \ {Pick(T)}]
    BY <1>3, <2>3
  <2>6. g[T] \in Int
    BY <2>4, <2>5
  <2>7. (\A x \in S : f[x] >= 0) => f[Pick(T)] >= 0
    BY <1>3, <2>3
  <2>8. (\A x \in S : f[x] >= 0) => g[T] >= 0
    BY <2>4, <2>5, <2>7
  <2> QED
    BY <2>6, <2>8
<1>6. Good(S)
  BY <1>5
<1> QED
  BY <1>2, <1>6

(* Any element may be taken out first. *)
LEMMA TotalRemove ==
  ASSUME NEW S, IsFiniteSet(S), NEW f, \A x \in S : f[x] \in Int, NEW y \in S
  PROVE  Total(f, S) = f[y] + Total(f, S \ {y})
<1>1. PICK g : Sums(g, f, S)
  BY SumsExist
<1>2. \A T \in SUBSET S : Total(f, T) = g[T]
  BY <1>1, TotalOf, FS_Subset
<1>3. \A T \in SUBSET S :
        T # {} => Pick(T) \in T /\ g[T] = f[Pick(T)] + g[T \ {Pick(T)}]
  BY <1>1, PickIn DEF Sums
<1>4. \A T \in SUBSET S : g[T] \in Int
  <2> SUFFICES ASSUME NEW T \in SUBSET S PROVE Total(f, T) \in Int
    BY <1>2
  <2>1. IsFiniteSet(T)
    BY FS_Subset
  <2> QED
    BY <2>1, TotalType
<1> DEFINE B == {T \in SUBSET S : \E z \in T : g[T] # f[z] + g[T \ {z}]}
<1>5. B = {}
  <2> SUFFICES ASSUME B # {} PROVE FALSE
    OBVIOUS
  <2>1. B \in SUBSET SUBSET S
    OBVIOUS
  <2>2. PICK T \in B : \A U \in SUBSET T : U # T => U \notin B
    <3> HIDE DEF B
    <3> QED
      BY <2>1, Smallest
  <2>3. PICK z \in T : g[T] # f[z] + g[T \ {z}]
    BY <2>2
  <2> DEFINE x == Pick(T)
  <2>4. x \in T /\ g[T] = f[x] + g[T \ {x}]
    BY <1>3, <2>3
  <2> HIDE DEF x
  <2>5. x # z
    BY <2>3, <2>4
  <2>6. g[T \ {x}] = f[z] + g[(T \ {x}) \ {z}]
    BY <2>2, <2>4, <2>5
  <2>7. g[T \ {z}] = f[x] + g[(T \ {z}) \ {x}]
    BY <2>2, <2>3, <2>4, <2>5
  <2>8. (T \ {x}) \ {z} = (T \ {z}) \ {x}
    OBVIOUS
  <2>9. f[x] \in Int /\ f[z] \in Int /\ g[(T \ {x}) \ {z}] \in Int
    BY <1>4, <2>4
  <2> DEFINE rest == g[(T \ {x}) \ {z}]
  <2>10. f[x] + (f[z] + rest) = f[z] + (f[x] + rest)
    BY <2>9
  <2> QED
    BY <2>3, <2>4, <2>6, <2>7, <2>8, <2>10
<1>6. g[S] = f[y] + g[S \ {y}]
  BY <1>5
<1> QED
  BY <1>2, <1>6

(* Equal terms, equal sums. *)
LEMMA TotalSame ==
  ASSUME NEW S, IsFiniteSet(S), NEW f, NEW h, \A x \in S : f[x] = h[x]
  PROVE  Total(f, S) = Total(h, S)
<1>1. PICK g : Sums(g, f, S)
  BY SumsExist
<1>2. Sums(g, h, S)
  BY <1>1, PickIn DEF Sums
<1> QED
  BY <1>1, <1>2, TotalOf

(* If every term of one sum has a term of the other to itself that is not  *)
(* smaller, the sum is not greater.                                        *)
LEMMA TotalBelow ==
  ASSUME NEW S, IsFiniteSet(S), NEW T, IsFiniteSet(T), NEW f, NEW h, NEW m,
         \A x \in S : f[x] \in Int, \A y \in T : h[y] \in Nat,
         \A x \in S : m[x] \in T /\ f[x] <= h[m[x]],
         \A x, y \in S : m[x] = m[y] => x = y
  PROVE  Total(f, S) <= Total(h, T)
<1> DEFINE Below(U, V) == Total(f, U) <= Total(h, V)
           Into(U, V) == V \in SUBSET T /\ \A x \in U : m[x] \in V
           B == {U \in SUBSET S : \E V \in SUBSET T : Into(U, V) /\ ~Below(U, V)}
<1>1. B = {}
  <2> SUFFICES ASSUME B # {} PROVE FALSE
    OBVIOUS
  <2>1. B \in SUBSET SUBSET S
    OBVIOUS
  <2>2. PICK U \in B : \A R \in SUBSET U : R # U => R \notin B
    <3> HIDE DEF B
    <3> QED
      BY <2>1, Smallest
  <2>3. PICK V \in SUBSET T : Into(U, V) /\ ~Below(U, V)
    BY <2>2
  <2>4. IsFiniteSet(U) /\ IsFiniteSet(V)
    BY <2>2, FS_Subset
  <2>5. Total(h, V) \in Int /\ Total(h, V) >= 0
    BY <2>4, TotalType
  <2>6. PICK x \in U : TRUE
    <3>1. U # {}
      BY <2>3, <2>5, TotalEmpty
    <3> QED
      BY <3>1
  <2>7. Total(f, U) = f[x] + Total(f, U \ {x})
    BY <2>4, TotalRemove
  <2>8. Total(h, V) = h[m[x]] + Total(h, V \ {m[x]})
    BY <2>3, <2>4, TotalRemove
  <2>9. Below(U \ {x}, V \ {m[x]})
    <3>1. Into(U \ {x}, V \ {m[x]})
      BY <2>2, <2>3
    <3>2. U \ {x} \in SUBSET U /\ U \ {x} # U
      OBVIOUS
    <3> HIDE DEF Below, Into
    <3> QED
      BY <2>2, <3>1, <3>2 DEF Into
  <2>10. Total(f, U \ {x}) \in Int /\ Total(h, V \ {m[x]}) \in Int
    <3>1. IsFiniteSet(U \ {x}) /\ IsFiniteSet(V \ {m[x]})
      BY <2>4, FS_Subset
    <3> QED
      BY <2>2, <3>1, TotalType
  <2>11. f[x] \in Int /\ h[m[x]] \in Int /\ f[x] <= h[m[x]]
    BY <2>2, <2>6
  <2> QED
    BY <2>3, <2>7, <2>8, <2>9, <2>10, <2>11
<1>2. Into(S, T)
  OBVIOUS
<1> QED
  BY <1>1, <1>2

(* Term by term no greater, in all no greater. *)
LEMMA TotalLeq ==
  ASSUME NEW S, IsFiniteSet(S), NEW f, NEW h,
         \A x \in S : f[x] \in Int /\ h[x] \in Nat /\ f[x] <= h[x]
  PROVE  Total(f, S) <= Total(h, S)
<1> DEFINE id == [x \in S |-> x]
<1>1. \A x \in S : id[x] = x
  OBVIOUS
<1> HIDE DEF id
<1>2. /\ \A x \in S : id[x] \in S /\ f[x] <= h[id[x]]
      /\ \A x, y \in S : id[x] = id[y] => x = y
  BY <1>1
<1> QED
  BY <1>2, TotalBelow

(* An initial segment of the naturals and its size. *)
LEMMA UpTo == ASSUME NEW n \in Nat PROVE IsFiniteSet(1 .. n) /\ Cardinality(1 .. n) = n
BY FS_Interval

(* As many terms as there are, none above b. *)
LEMMA TotalAtMost ==
  ASSUME NEW S, IsFiniteSet(S), NEW f, NEW b \in Int,
         \A x \in S : f[x] \in Int /\ f[x] <= b
  PROVE  Total(f, S) <= Cardinality(S) * b
<1> DEFINE B == {T \in SUBSET S : ~(Total(f, T) <= Cardinality(T) * b)}
<1>1. SUFFICES ASSUME B # {} PROVE FALSE
  OBVIOUS
<1>2. PICK T \in B : \A U \in SUBSET T : U # T => U \notin B
  <2>1. B \in SUBSET SUBSET S
    OBVIOUS
  <2> HIDE DEF B
  <2> QED
    BY <1>1, <2>1, Smallest
<1>3. T # {}
  <2>1. Total(f, {}) = 0 /\ Cardinality({}) = 0
    BY TotalEmpty, FS_EmptySet
  <2>2. 0 <= 0 * b
    OBVIOUS
  <2>3. Total(f, {}) <= Cardinality({}) * b
    BY <2>1, <2>2
  <2>4. {} \notin B
    BY <2>3
  <2> HIDE DEF B
  <2> QED
    BY <1>2, <2>4
<1>4. PICK y \in T : TRUE
  BY <1>3
<1>5. IsFiniteSet(T) /\ IsFiniteSet(T \ {y})
  BY <1>2, FS_Subset
<1>6. Total(f, T) = f[y] + Total(f, T \ {y})
  BY <1>2, <1>5, TotalRemove
<1>7. PICK n \in Nat : n = Cardinality(T \ {y}) /\ Cardinality(T) = n + 1
  <2>1. Cardinality(T \ {y}) = Cardinality(T) - 1
    BY <1>5, FS_RemoveElement
  <2>2. Cardinality(T \ {y}) \in Nat /\ Cardinality(T) \in Nat
    BY <1>5, FS_CardinalityType
  <2> QED
    BY <2>1, <2>2
<1>8. PICK rest \in Int : rest = Total(f, T \ {y})
  BY <1>2, <1>5, TotalType
<1>9. rest <= n * b
  BY <1>2, <1>7, <1>8
<1>10. PICK z \in Int : z = n * b /\ (n + 1) * b = z + b
  OBVIOUS
<1>11. f[y] \in Int /\ f[y] <= b
  BY <1>2
<1>12. Total(f, T) <= Cardinality(T) * b
  BY <1>6, <1>7, <1>8, <1>9, <1>10, <1>11
<1> QED
  BY <1>2, <1>12

(* The values a function takes on a finite set are finite. *)
LEMMA FiniteRange ==
  ASSUME NEW S, IsFiniteSet(S), NEW f
  PROVE  IsFiniteSet({f[x] : x \in S})
<1> DEFINE g == [x \in S |-> f[x]]
           T == {f[x] : x \in S}
<1>1. g \in Surjection(S, T)
  BY DEF Surjection
<1> QED
  BY <1>1, FS_Surjection

(* A set of naturals has a smallest one, and a bounded one a largest. *)
LEMMA SmallestNat ==
  ASSUME NEW S \in SUBSET Nat, S # {}
  PROVE  \E x \in S : \A y \in S : x <= y
<1>1. PICK z \in S : TRUE
  OBVIOUS
<1> DEFINE B == {0 .. y : y \in {x \in S : x <= z}}
<1>2. B \in SUBSET SUBSET (0 .. z) /\ B # {}
  BY <1>1
<1>3. IsFiniteSet(0 .. z)
  BY <1>1, FS_Interval
<1>4. PICK T \in B : \A U \in SUBSET T : U # T => U \notin B
  <2> HIDE DEF B
  <2> QED BY <1>2, <1>3, Smallest
<1>5. PICK x \in S : x <= z /\ T = 0 .. x
  BY <1>4
<1>6. ASSUME NEW y \in S, y < x PROVE FALSE
  <2>1. 0 .. y \in B
    BY <1>1, <1>5, <1>6
  <2>2. 0 .. y \subseteq 0 .. x /\ 0 .. y # 0 .. x
    <3>1. x \in 0 .. x /\ x \notin 0 .. y
      BY <1>6
    <3> QED BY <1>6, <3>1
  <2> HIDE DEF B
  <2> QED BY <1>4, <1>5, <2>1, <2>2
<1> QED
  BY <1>5, <1>6

LEMMA LargestNat ==
  ASSUME NEW S \in SUBSET Nat, S # {}, NEW b \in Nat, \A x \in S : x <= b
  PROVE  Max(S) \in S /\ \A x \in S : x <= Max(S)
<1> DEFINE above == {c \in Nat : \A x \in S : x <= c}
<1>1. above \in SUBSET Nat /\ above # {}
  OBVIOUS
<1>2. PICK c \in above : \A d \in above : c <= d
  <2> HIDE DEF above
  <2> QED BY <1>1, SmallestNat
<1>3. c \in S
  <2>1. SUFFICES ASSUME c \notin S PROVE FALSE
    OBVIOUS
  <2>2. PICK y \in S : TRUE
    OBVIOUS
  <2>3. c # 0
    BY <1>2, <2>1, <2>2
  <2>4. c - 1 \in above
    BY <1>2, <2>1, <2>3
  <2> HIDE DEF above
  <2> QED BY <1>1, <1>2, <2>4
<1>4. \E x \in S : \A y \in S : x >= y
  BY <1>2, <1>3
<1>5. Max(S) \in S /\ \A y \in S : Max(S) >= y
  BY <1>4 DEF Max
<1> QED
  BY <1>5

(* The smaller and the larger of two. *)
LEMMA SmallerOfTwo ==
  ASSUME NEW a \in Int, NEW b \in Int
  PROVE  Min({a, b}) = IF a <= b THEN a ELSE b
<1>1. \E x \in {a, b} : \A y \in {a, b} : x <= y
  OBVIOUS
<1>2. PICK m : m = Min({a, b})
  OBVIOUS
<1>3. m \in {a, b} /\ \A y \in {a, b} : m <= y
  BY <1>1, <1>2 DEF Min
<1> QED
  BY <1>2, <1>3

LEMMA LargerOfTwo ==
  ASSUME NEW a \in Int, NEW b \in Int
  PROVE  Max({a, b}) = IF a >= b THEN a ELSE b
<1>1. \E x \in {a, b} : \A y \in {a, b} : x >= y
  OBVIOUS
<1>2. PICK m : m = Max({a, b})
  OBVIOUS
<1>3. m \in {a, b} /\ \A y \in {a, b} : m >= y
  BY <1>1, <1>2 DEF Max
<1> QED
  BY <1>2, <1>3

(* Two sets that share nothing add up. *)
LEMMA TotalUnion ==
  ASSUME NEW S, IsFiniteSet(S), NEW T, IsFiniteSet(T), S \cap T = {},
         NEW f, \A x \in S \cup T : f[x] \in Int
  PROVE  Total(f, S \cup T) = Total(f, S) + Total(f, T)
<1> DEFINE Adds(U) == Total(f, U \cup T) = Total(f, U) + Total(f, T)
           B == {U \in SUBSET S : ~Adds(U)}
<1>0. Total(f, T) \in Int
  BY TotalType
<1>1. B = {}
  <2> SUFFICES ASSUME B # {} PROVE FALSE
    OBVIOUS
  <2>1. B \in SUBSET SUBSET S
    OBVIOUS
  <2>2. PICK U \in B : \A R \in SUBSET U : R # U => R \notin B
    <3> HIDE DEF B
    <3> QED
      BY <2>1, Smallest
  <2>3. U \in SUBSET S /\ ~Adds(U)
    BY <2>2
  <2>4. PICK x \in U : TRUE
    <3>1. SUFFICES ASSUME U = {} PROVE FALSE
      OBVIOUS
    <3>2. {} \cup T = T /\ Total(f, {}) = 0
      BY TotalEmpty
    <3> QED
      BY <1>0, <2>3, <3>1, <3>2
  <2>5. IsFiniteSet(U) /\ IsFiniteSet(U \cup T)
    BY <2>3, FS_Subset, FS_Union
  <2>6. Total(f, U) = f[x] + Total(f, U \ {x})
    BY <2>3, <2>5, TotalRemove
  <2>7. Total(f, U \cup T) = f[x] + Total(f, (U \cup T) \ {x})
    BY <2>3, <2>5, TotalRemove
  <2>8. (U \cup T) \ {x} = (U \ {x}) \cup T
    BY <2>3, <2>4
  <2>9. Adds(U \ {x})
    <3>1. U \ {x} \in SUBSET U /\ U \ {x} # U
      BY <2>4
    <3> HIDE DEF Adds
    <3> QED
      BY <2>2, <2>3, <3>1
  <2>10. f[x] \in Int /\ Total(f, U \ {x}) \in Int
    <3>1. IsFiniteSet(U \ {x})
      BY <2>5, FS_Subset
    <3> QED
      BY <2>3, <2>4, <3>1, TotalType
  <2>11. Total(f, (U \ {x}) \cup T) = Total(f, U \ {x}) + Total(f, T)
    BY <2>9
  <2>12. Total(f, U \cup T) = f[x] + (Total(f, U \ {x}) + Total(f, T))
    BY <2>7, <2>8, <2>11
  <2>13. f[x] + (Total(f, U \ {x}) + Total(f, T)) = Total(f, U) + Total(f, T)
    BY <1>0, <2>6, <2>10
  <2> QED
    BY <2>3, <2>12, <2>13
<1>2. Adds(S)
  BY <1>1
<1> QED
  BY <1>2
=============================================================================
