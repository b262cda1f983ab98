------------------------------- MODULE Indices -------------------------------
(***************************************************************************)
(* Numbers: the first of a set of positions, which is what std::find_if,   *)
(* ArgParse::get and the first instruction of a basic block rest on, and   *)
(* the powers of two, which the sizes of hash tables are.                  *)
(***************************************************************************)
EXTENDS Integers, FiniteSetTheorems, WellFoundedInduction, TLAPS

(* A set of indices that is not empty has a least one.                     *)
LEMMA LeastIndex ==
  ASSUME NEW L \in Nat, NEW M \in SUBSET (1..L), M # {}
  PROVE  \E n \in M : \A m \in M : n <= m
<1> DEFINE Below == {1..n : n \in M}
           Proper == StrictSubsetOrdering(1..L)
<1>1. Below \subseteq FiniteSubsetsOf(1..L)
  <2>1. SUFFICES ASSUME NEW n \in M PROVE 1..n \in FiniteSubsetsOf(1..L)
    OBVIOUS
  <2>2. 1..n \subseteq 1..L /\ IsFiniteSet(1..n)
    BY FS_Interval
  <2> QED
    BY <2>2 DEF FiniteSubsetsOf
<1>2. IsWellFoundedOn(Proper, FiniteSubsetsOf(1..L))
  BY FS_StrictSubsetOrderingWellFounded
<1>3. Below # {}
  OBVIOUS
<1>4. \E x \in Below : \A y \in Below : <<y, x>> \notin Proper
  <2> HIDE DEF Below, Proper
  <2> QED
    BY <1>1, <1>2, <1>3, WFMin
<1>5. PICK n \in M : \A m \in M : <<1..m, 1..n>> \notin Proper
  BY <1>4
<1>6. ASSUME NEW m \in M, m < n
      PROVE  FALSE
  <2>1. 1..m \subseteq 1..n /\ n \in 1..n /\ n \notin 1..m
    BY <1>6
  <2>2. <<1..m, 1..n>> \in Proper
    BY <2>1 DEF StrictSubsetOrdering
  <2> QED
    BY <1>5, <2>2
<1> QED
  BY <1>6

(***************************************************************************)
(* Powers of two.                                                          *)
(***************************************************************************)

\* A set with one more element has twice as many subsets.
LEMMA TwiceTheSubsets ==
  ASSUME NEW S, IsFiniteSet(S), NEW x, x \notin S
  PROVE  Cardinality(SUBSET (S \cup {x})) = 2 * Cardinality(SUBSET S)
<1> DEFINE W == {T \cup {x} : T \in SUBSET S}
           f == [T \in SUBSET S |-> T \cup {x}]
<1>1. SUBSET (S \cup {x}) = (SUBSET S) \cup W
  <2>1. ASSUME NEW T \in SUBSET (S \cup {x}) PROVE T \in (SUBSET S) \cup W
    <3>1. CASE x \in T
      <4>1. T = (T \ {x}) \cup {x} /\ T \ {x} \in SUBSET S
        BY <3>1
      <4> QED BY <4>1
    <3> QED BY <3>1
  <2> QED BY <2>1
<1>2. (SUBSET S) \cap W = {}
  OBVIOUS
<1>3. IsFiniteSet(SUBSET S)
  BY FS_SUBSET
<1>4. ExistsBijection(SUBSET S, W)
  <2>1. f \in [SUBSET S -> W]
    OBVIOUS
  <2>2. \A T, U \in SUBSET S : f[T] = f[U] => T = U
    OBVIOUS
  <2>3. \A V \in W : \E T \in SUBSET S : f[T] = V
    OBVIOUS
  <2> HIDE DEF f, W
  <2>4. f \in Injection(SUBSET S, W)
    BY <2>1, <2>2 DEF Injection, IsInjective
  <2>5. f \in Surjection(SUBSET S, W)
    BY <2>1, <2>3 DEF Surjection
  <2> QED BY <2>4, <2>5 DEF ExistsBijection, Bijection
<1>5. IsFiniteSet(W) /\ Cardinality(W) = Cardinality(SUBSET S)
  BY <1>3, <1>4, FS_Bijection
<1>6. Cardinality(SUBSET S) \in Nat
  BY <1>3, FS_CardinalityType
<1>7. Cardinality((SUBSET S) \cup W)
        = Cardinality(SUBSET S) + Cardinality(W) - Cardinality((SUBSET S) \cap W)
  BY <1>3, <1>5, FS_Union
<1>8. Cardinality((SUBSET S) \cap W) = 0
  BY <1>2, FS_EmptySet
<1> HIDE DEF W, f
<1>9. Cardinality((SUBSET S) \cup W) = Cardinality(SUBSET S) + Cardinality(SUBSET S)
  BY <1>5, <1>6, <1>7, <1>8
<1> DEFINE c == Cardinality(SUBSET S)
<1>10. c + c = 2 * c
  <2>1. c \in Nat
    BY <1>6
  <2> HIDE DEF c
  <2> QED BY <2>1
<1>11. Cardinality(SUBSET (S \cup {x})) = Cardinality((SUBSET S) \cup W)
  BY <1>1, Zenon
<1> QED BY <1>9, <1>10, <1>11, Zenon

\* The powers of two, from the number of subsets of 1..n.
LEMMA PowersOfTwo ==
  /\ 2^0 = 1
  /\ \A n \in Nat : 2^n \in Nat /\ 2^n > 0 /\ 2^(n + 1) = 2 * 2^n
<1>1. ASSUME NEW n \in Nat
      PROVE  2^n \in Nat /\ 2^n > 0 /\ 2^(n + 1) = 2 * 2^n
  <2>1. /\ IsFiniteSet(1..n) /\ Cardinality(1..n) = n
        /\ IsFiniteSet(1..(n + 1)) /\ Cardinality(1..(n + 1)) = n + 1
    BY FS_Interval
  <2>2. Cardinality(SUBSET (1..n)) = 2^n
    BY <2>1, FS_SUBSET
  <2>3. IsFiniteSet(SUBSET (1..n)) /\ Cardinality(SUBSET (1..n)) \in Nat
    BY <2>1, FS_SUBSET, FS_CardinalityType
  <2>4. Cardinality(SUBSET (1..n)) # 0
    BY <2>3, FS_EmptySet
  <2>5. Cardinality(SUBSET (1..(n + 1))) = 2^(n + 1)
    BY <2>1, FS_SUBSET
  <2>6. 1..(n + 1) = (1..n) \cup {n + 1} /\ n + 1 \notin 1..n
    OBVIOUS
  <2>7. Cardinality(SUBSET ((1..n) \cup {n + 1})) = 2 * Cardinality(SUBSET (1..n))
    BY <2>1, <2>6, TwiceTheSubsets
  <2>8. 2^(n + 1) = 2 * 2^n
    BY <2>2, <2>5, <2>6, <2>7
  <2>9. 2^n \in Nat /\ 2^n # 0
    BY <2>2, <2>3, <2>4
  <2> QED BY <2>8, <2>9
<1> QED BY <1>1

\* A set of numbers that is not empty has a least one.
LEMMA LeastNumber ==
  ASSUME NEW S \in SUBSET Nat, S # {}
  PROVE  \E n \in S : \A m \in S : n <= m
<1>1. PICK x \in S : TRUE
  OBVIOUS
<1> DEFINE M == {y \in 1..(x + 1) : y - 1 \in S}
<1>2. M \in SUBSET (1..(x + 1)) /\ x + 1 \in M /\ x + 1 \in Nat
  BY <1>1
<1>3. PICK y \in M : \A z \in M : y <= z
  <2> HIDE DEF M
  <2> QED BY <1>2, LeastIndex
<1>4. ASSUME NEW m \in S PROVE y - 1 <= m
  <2>1. CASE m <= x
    <3>1. m + 1 \in M
      BY <2>1
    <3> QED BY <1>3, <3>1
  <2>2. CASE m > x
    BY <1>3, <2>2
  <2> QED BY <2>1, <2>2
<1> QED BY <1>3, <1>4

Divides(p, x) == \E q \in Nat : x = p * q

\* An odd factor adds nothing to the powers of two that divide a product.
LEMMA OddFactor ==
  ASSUME NEW d \in Nat, NEW a \in Nat, a % 2 = 1, NEW b \in Nat,
         Divides(2^d, a * b)
  PROVE  Divides(2^d, b)
<1> DEFINE Holds(n) == \A x \in Nat : Divides(2^n, a * x) => Divides(2^n, x)
           Fails == {n \in Nat : ~Holds(n)}
<1>1. Holds(0)
  BY PowersOfTwo DEF Divides
<1>2. ASSUME NEW n \in Nat, Holds(n) PROVE Holds(n + 1)
  <2> SUFFICES ASSUME NEW x \in Nat, Divides(2^(n + 1), a * x)
               PROVE  Divides(2^(n + 1), x)
    OBVIOUS
  <2>1. PICK p \in Nat : p = 2^n /\ p > 0 /\ 2^(n + 1) = 2 * p
    BY PowersOfTwo
  <2>2. PICK q \in Nat : a * x = (2 * p) * q
    BY <2>1 DEF Divides
  <2>3. PICK e \in Nat : a = 2 * e + 1
    <3>1. a \div 2 \in Nat /\ a = 2 * (a \div 2) + 1
      OBVIOUS
    <3> QED BY <3>1
  <2>4. PICK y \in Nat : x = 2 * y
    <3>1. a * x = 2 * (e * x) + x /\ e * x \in Nat
      BY <2>3
    <3>2. (2 * p) * q = 2 * (p * q) /\ p * q \in Nat
      BY <2>1
    <3>3. x = 2 * (p * q) - 2 * (e * x)
      BY <2>2, <3>1, <3>2
    <3>4. x = 2 * (p * q - e * x) /\ p * q - e * x \in Int
      BY <3>1, <3>2, <3>3
    <3>5. p * q - e * x \in Nat
      BY <3>4
    <3> QED BY <3>4, <3>5
  <2>5. a * y = p * q
    <3>1. a * x = 2 * (a * y) /\ a * y \in Nat
      BY <2>4
    <3>2. (2 * p) * q = 2 * (p * q) /\ p * q \in Nat
      BY <2>1
    <3> QED BY <2>2, <3>1, <3>2
  <2>6. Divides(2^n, y)
    BY <1>2, <2>1, <2>5 DEF Divides
  <2>7. PICK r \in Nat : y = p * r
    BY <2>1, <2>6 DEF Divides
  <2>8. x = (2 * p) * r
    BY <2>4, <2>7
  <2> QED BY <2>1, <2>8 DEF Divides
<1>3. Fails = {}
  <2> SUFFICES ASSUME Fails # {} PROVE FALSE
    OBVIOUS
  <2>1. PICK n \in Fails : \A m \in Fails : n <= m
    <3> HIDE DEF Holds
    <3> QED BY LeastNumber
  <2>2. n # 0
    BY <1>1, <2>1
  <2>3. n - 1 \in Nat /\ n - 1 \notin Fails
    <3> HIDE DEF Holds
    <3> QED BY <2>1, <2>2
  <2>4. Holds(n - 1) /\ (n - 1) + 1 = n
    <3> HIDE DEF Holds
    <3> QED BY <2>1, <2>3
  <2>5. Holds((n - 1) + 1)
    <3> HIDE DEF Holds
    <3> QED BY <1>2, <2>3, <2>4
  <2> QED
    <3> HIDE DEF Holds
    <3> QED BY <2>1, <2>4, <2>5
<1> QED BY <1>3
==============================================================================
