-------------------------- MODULE SparseHashProofs --------------------------
(***************************************************************************)
(* Proofs about sparsepp.h's hash map, for every set of keys and values,   *)
(* hash function, group size and size of a table: the quadratic probes     *)
(* meet every bucket, the table's counters, types and assertions, that     *)
(* every item is found, and that the map implements Map.                   *)
(***************************************************************************)
EXTENDS SparseHash, SparseGroupProofs

(***************************************************************************)
(* Probing.                                                                *)
(***************************************************************************)

\* The jumps add up to half of n * (n + 1).
LEMMA JumpsTwice ==
  ASSUME NEW n \in Nat
  PROVE  Jumps(n) \in Nat /\ 2 * Jumps(n) = n * (n + 1)
<1>1. PICK m \in Nat : n = 2 * m \/ n = 2 * m + 1
  <2>1. n \div 2 \in Nat /\ (n = 2 * (n \div 2) \/ n = 2 * (n \div 2) + 1)
    OBVIOUS
  <2> QED BY <2>1
<1>2. \E e \in Nat : n * (n + 1) = 2 * e
  <2>1. CASE n = 2 * m
    <3>1. n * (n + 1) = 2 * (m * (n + 1)) /\ m * (n + 1) \in Nat
      BY <2>1
    <3> QED BY <3>1
  <2>2. CASE n = 2 * m + 1
    <3>1. n + 1 = 2 * (m + 1)
      BY <2>2
    <3>2. n * (n + 1) = 2 * (n * (m + 1)) /\ n * (m + 1) \in Nat
      BY <3>1
    <3> QED BY <3>2
  <2> QED BY <1>1, <2>1, <2>2
<1>3. PICK e \in Nat : n * (n + 1) = 2 * e
  BY <1>2
<1>4. Jumps(n) = (2 * e) \div 2
  BY <1>3 DEF Jumps
<1>5. (2 * e) \div 2 = e
  OBVIOUS
<1> QED
  BY <1>3, <1>4, <1>5

(* In a table with a power of two of buckets the probes of a key meet no   *)
(* bucket twice.                                                           *)
LEMMA ProbesDiffer ==
  ASSUME NEW d \in Nat, NEW s \in Nat, s = 2^d, NEW x \in Nat,
         NEW n \in 0..(s - 1), NEW m \in 0..(s - 1), m < n,
         (x + Jumps(n)) % s = (x + Jumps(m)) % s
  PROVE  FALSE
<1>1. s > 0 /\ 2^(d + 1) = 2 * s /\ d + 1 \in Nat
  BY PowersOfTwo
<1>2. PICK i \in Nat, j \in Nat : /\ i = Jumps(n) /\ 2 * i = n * (n + 1)
                                  /\ j = Jumps(m) /\ 2 * j = m * (m + 1)
  <2>1. n \in Nat /\ m \in Nat
    BY <1>1
  <2>2. /\ Jumps(n) \in Nat /\ 2 * Jumps(n) = n * (n + 1)
        /\ Jumps(m) \in Nat /\ 2 * Jumps(m) = m * (m + 1)
    BY <2>1, JumpsTwice
  <2> QED BY <2>2
<1>3. PICK a \in Nat, b \in Nat : a = n - m /\ b = n + m + 1 /\ a > 0 /\ b > 0
  <2>1. n - m \in Nat /\ n + m + 1 \in Nat /\ n - m > 0 /\ n + m + 1 > 0
    BY <1>1
  <2> QED BY <2>1
<1>4. a * b = 2 * i - 2 * j
  <2>1. a * b = (n - m) * (n + m + 1)
    BY <1>3
  <2>2. (n - m) * (n + m + 1) = n * (n + 1) - m * (m + 1)
    <3>1. n \in Int /\ m \in Int
      BY <1>1
    <3> QED BY <3>1
  <2> QED BY <1>2, <2>1, <2>2
<1>5. PICK q \in Nat : i - j = s * q
  <2>1. (x + i) % s = (x + j) % s
    BY <1>2
  <2>2. /\ x + i = s * ((x + i) \div s) + ((x + i) % s) /\ (x + i) \div s \in Nat
        /\ x + j = s * ((x + j) \div s) + ((x + j) % s) /\ (x + j) \div s \in Nat
    BY <1>1
  <2>7. PICK u \in Nat, v \in Nat, r \in Int : /\ x + i = s * u + r /\ x + j = s * v + r
                                        /\ r = (x + i) % s
    <3>1. (x + i) % s \in Int
      BY <1>1
    <3> QED BY <2>1, <2>2, <3>1
  <2>8. s * u \in Int /\ s * v \in Int
    BY <1>1, <2>7
  <2>3. i - j = s * u - s * v
    BY <2>7, <2>8
  <2>4. i - j = s * (u - v) /\ u - v \in Int
    BY <2>3
  <2>5. i - j >= 0
    <3>1. a * b >= 0
      BY <1>3
    <3>2. 2 * i - 2 * j = 2 * (i - j)
      OBVIOUS
    <3>3. 2 * (i - j) >= 0
      BY <1>4, <3>1, <3>2
    <3> QED BY <3>3
  <2>6. u - v >= 0
    BY <1>1, <2>4, <2>5
  <2>9. PICK q \in Nat : q = u - v
    BY <2>4, <2>6
  <2> QED BY <2>4, <2>9
<1>6. a * b = (2 * s) * q
  <2>1. 2 * i - 2 * j = 2 * (i - j)
    OBVIOUS
  <2>2. 2 * (s * q) = (2 * s) * q
    OBVIOUS
  <2> QED BY <1>4, <1>5, <2>1, <2>2
<1>7. ASSUME NEW y \in Nat, y > 0, y < 2 * s PROVE ~Divides(2^(d + 1), y)
  <2>1. SUFFICES ASSUME NEW r \in Nat, y = (2 * s) * r PROVE FALSE
    BY <1>1 DEF Divides
  <2>2. r = 0 \/ (2 * s) * r >= 2 * s
    <3>1. r = 0 \/ r >= 1
      OBVIOUS
    <3>2. r >= 1 => (2 * s) * r = (2 * s) * (r - 1) + 2 * s /\ (2 * s) * (r - 1) >= 0
      OBVIOUS
    <3> QED BY <3>1, <3>2
  <2> QED BY <1>7, <2>1, <2>2
<1>8. a < 2 * s /\ b < 2 * s
  BY <1>3
<1>9. CASE a % 2 = 1
  <2>1. Divides(2^(d + 1), a * b)
    BY <1>1, <1>6 DEF Divides
  <2>2. Divides(2^(d + 1), b)
    BY <1>1, <1>9, <2>1, OddFactor
  <2> QED BY <1>3, <1>7, <1>8, <2>2
<1>10. CASE b % 2 = 1
  <2>1. b * a = a * b
    OBVIOUS
  <2>2. Divides(2^(d + 1), b * a)
    BY <1>1, <1>6, <2>1 DEF Divides
  <2>3. Divides(2^(d + 1), a)
    BY <1>1, <1>10, <2>2, OddFactor
  <2> QED BY <1>3, <1>7, <1>8, <2>3
<1>11. a % 2 = 1 \/ b % 2 = 1
  <2>1. a + b = 2 * n + 1
    BY <1>3
  <2> QED BY <2>1
<1> QED
  BY <1>9, <1>10, <1>11

(* So they meet every bucket.                                              *)
LEMMA ProbesMeetAll ==
  ASSUME NEW d \in Nat, NEW s \in Nat, s = 2^d, NEW x \in Nat, NEW b \in 0..(s - 1)
  PROVE  \E n \in 0..(s - 1) : (x + Jumps(n)) % s = b
<1>1. s > 0
  BY PowersOfTwo
<1> DEFINE S == 0..(s - 1)
           f == [n \in S |-> (x + Jumps(n)) % s]
<1>2. f \in [S -> S]
  <2>1. ASSUME NEW n \in S PROVE (x + Jumps(n)) % s \in S
    <3>1. x + Jumps(n) \in Nat
      BY JumpsTwice
    <3> HIDE DEF Jumps
    <3> QED BY <1>1, <3>1
  <2> QED BY <2>1
<1>3. ASSUME NEW n \in S, NEW m \in S, f[n] = f[m] PROVE n = m
  <2>1. (x + Jumps(n)) % s = (x + Jumps(m)) % s
    BY <1>3
  <2>2. ~(n < m) /\ ~(m < n)
    BY <2>1, ProbesDiffer
  <2> QED BY <2>2
<1>4. IsFiniteSet(S)
  BY FS_Interval
<1> HIDE DEF f, S
<1>5. f \in Injection(S, S)
  BY <1>2, <1>3 DEF Injection, IsInjective
<1>6. f \in Surjection(S, S)
  BY <1>4, <1>5, FS_Injection
<1>7. \E n \in S : f[n] = b
  BY <1>6 DEF Surjection, S
<1> QED
  BY <1>7 DEF f, S

(***************************************************************************)
(* Where a search looks.                                                   *)
(***************************************************************************)

(* The n-th bucket a search for the key looks at.                          *)
At(h, t, k, n) == (h[k] + Jumps(n)) % t.size

(* A search for the key comes to the bucket over buckets that were never   *)
(* empty.                                                                  *)
Reaches(h, t, k, b) ==
  \E n \in 0..(t.size - 1) : /\ At(h, t, k, n) = b
                             /\ \A m \in 0..(n - 1) : test_strict(t, At(h, t, k, m))

KeyOf(t, b) == unsafe_get(t, b)[1]

(* Every item is where a search for its key comes to, and there is one for *)
(* a key.                                                                  *)
FoundIn(h, t) ==
  \A b \in Full(t) : /\ Reaches(h, t, KeyOf(t, b), b)
                     /\ \A c \in Full(t) : KeyOf(t, c) = KeyOf(t, b) => c = b

Stored(t, k) == \E b \in Full(t) : KeyOf(t, b) = k

(* A hash table: the size a power of two, and occupied by half at most.    *)
Sound(h, t) ==
  /\ h \in [Keys -> Nat] /\ IsTable(t, Item)
  /\ \E d \in Nat : t.size = 2^d
  /\ FoundIn(h, t)

\* A search looks at buckets of the table, and at each of them in the end.
LEMMA AtBucket ==
  ASSUME NEW h \in [Keys -> Nat], NEW t, NEW d \in Nat, t.size = 2^d, NEW k \in Keys
  PROVE  /\ t.size \in Nat /\ t.size > 0
         /\ \A n \in 0..(t.size - 1) : At(h, t, k, n) \in Buckets(t)
         /\ \A b \in Buckets(t) : \E n \in 0..(t.size - 1) : At(h, t, k, n) = b
<1>1. t.size \in Nat /\ t.size > 0
  BY PowersOfTwo
<1>2. h[k] \in Nat
  OBVIOUS
<1>3. ASSUME NEW n \in 0..(t.size - 1) PROVE At(h, t, k, n) \in Buckets(t)
  <2>1. h[k] + Jumps(n) \in Nat
    BY <1>2, JumpsTwice
  <2> HIDE DEF Jumps
  <2> QED BY <1>1, <2>1 DEF At, Buckets
<1>4. \A b \in Buckets(t) : \E n \in 0..(t.size - 1) : At(h, t, k, n) = b
  BY <1>1, <1>2, ProbesMeetAll DEF At, Buckets
<1> QED
  BY <1>1, <1>3, <1>4

\* Min is the least element.
LEMMA LeastOf ==
  ASSUME NEW S \in SUBSET Nat, S # {}
  PROVE  Min(S) \in S /\ \A n \in S : Min(S) <= n
<1> QED
  BY LeastNumber DEF Min

(* In a table with a bucket that was never used every search ends at one.  *)
LEMMA SearchEnds ==
  ASSUME NEW h, NEW t, Sound(h, t), NEW k \in Keys,
         Cardinality(Full(t)) + Cardinality(Erased(t)) < t.size
  PROVE  \E n \in 0..(t.size - 1) : ~test_strict(t, At(h, t, k, n))
<1>1. PICK d \in Nat : t.size = 2^d
  BY DEF Sound
<1>2. h \in [Keys -> Nat] /\ IsTable(t, Item)
  BY DEF Sound
<1>3. /\ IsFiniteSet(Buckets(t)) /\ Cardinality(Buckets(t)) = t.size
      /\ IsFiniteSet(Full(t)) /\ IsFiniteSet(Erased(t))
      /\ Full(t) \cap Erased(t) = {}
      /\ \A b \in Buckets(t) : b \in Full(t) \/ b \in Erased(t) <=> test_strict(t, b)
  BY <1>2, TableType
<1>4. \E b \in Buckets(t) : ~test_strict(t, b)
  <2> SUFFICES ASSUME \A b \in Buckets(t) : test_strict(t, b) PROVE FALSE
    OBVIOUS
  <2>1. Buckets(t) = Full(t) \cup Erased(t)
    BY <1>3 DEF Full, Erased
  <2>2. Cardinality(Full(t) \cup Erased(t)) =
          Cardinality(Full(t)) + Cardinality(Erased(t)) - Cardinality({})
    BY <1>3, FS_Union
  <2>3. Cardinality({}) = 0 /\ Cardinality(Full(t)) \in Nat
        /\ Cardinality(Erased(t)) \in Nat
    BY <1>3, FS_EmptySet, FS_CardinalityType
  <2>4. Cardinality(Full(t) \cup Erased(t)) = t.size
    BY <1>3, <2>1
  <2> QED BY <2>2, <2>3, <2>4
<1>5. PICK b \in Buckets(t) : ~test_strict(t, b)
  BY <1>4
<1> QED
  BY <1>1, <1>2, <1>5, AtBucket

(* A place for a key that is not there: a bucket without an item that a    *)
(* search for the key comes to.                                            *)
IsSlot(h, t, k, pos) ==
  /\ pos \in [t: {"empty", "erased"}, idx: Buckets(t)]
  /\ pos.idx \notin Full(t)
  /\ pos.t = "erased" <=> pos.idx \in Erased(t)
  /\ Reaches(h, t, k, pos.idx)
  /\ ~Stored(t, k)

(* _find_position finds the key if it is there and a place for it if not.  *)
LEMMA PositionFound ==
  ASSUME NEW t, Sound(hash, t), NEW k \in Keys, Ends(t, k)
  PROVE  LET pos == _find_position(t, k)
         IN  /\ pos.t = "full" => /\ Stored(t, k) /\ pos.idx \in Full(t)
                                  /\ KeyOf(t, pos.idx) = k
             /\ pos.t # "full" => IsSlot(hash, t, k, pos)
<1>1. PICK d \in Nat : t.size = 2^d
  BY DEF Sound
<1>2. hash \in [Keys -> Nat] /\ IsTable(t, Item)
  BY DEF Sound
<1> DEFINE stops == {n \in 0..(t.size - 1) : Stops(t, k, n)}
           last == Min(stops)
           skipped == {n \in 0..last : Skips(t, k, n)}
           pos == _find_position(t, k)
<1>3. t.size \in Nat /\ \A n \in 0..(t.size - 1) : At(hash, t, k, n) \in Buckets(t)
  BY <1>1, <1>2, AtBucket
<1>4. \A n : Probe(t, k, n) = At(hash, t, k, n)
  BY DEF Probe, At
<1>5. last \in stops /\ \A n \in stops : last <= n
  <2>1. stops \in SUBSET Nat /\ stops # {}
    BY <1>3 DEF Ends
  <2> HIDE DEF stops
  <2> QED BY <2>1, LeastOf
<1>6. pos = IF Holds(t, Probe(t, k, last), k)
            THEN [t |-> "full", idx |-> Probe(t, k, last)]
            ELSE IF skipped # {}
            THEN [t |-> "erased", idx |-> Probe(t, k, Min(skipped))]
            ELSE [t |-> "empty", idx |-> Probe(t, k, last)]
  <2>1. last \in 0..(t.size - 1)
    BY <1>5
  <2> HIDE DEF last
  <2>2. PICK e : e = last
    OBVIOUS
  <2> QED BY <2>1, <2>2 DEF _find_position, last, stops
<1> HIDE DEF last, pos, stops
<1>7. last \in 0..(t.size - 1) /\ Stops(t, k, last)
  BY <1>5 DEF stops
<1>8. ASSUME NEW n \in 0..(last - 1)
      PROVE  test_strict(t, At(hash, t, k, n)) /\ ~Holds(t, At(hash, t, k, n), k)
  <2>1. n \in 0..(t.size - 1) /\ n \notin stops
    BY <1>3, <1>5, <1>7
  <2> QED BY <1>4, <2>1 DEF stops, Stops
<1>9. \A b \in Buckets(t) : /\ b \in Full(t) <=> test(t, b)
                            /\ b \in Full(t) \/ b \in Erased(t) <=> test_strict(t, b)
                            /\ ~(b \in Full(t) /\ b \in Erased(t))
  BY <1>2, TableType
<1>10. PICK e \in Buckets(t) : e = Probe(t, k, last) /\ e = At(hash, t, k, last)
  BY <1>3, <1>4, <1>7
<1>11. CASE Holds(t, e, k)
  <2>1. pos = [t |-> "full", idx |-> e]
    BY <1>6, <1>10, <1>11
  <2>2. e \in Full(t) /\ KeyOf(t, e) = k
    BY <1>9, <1>11 DEF Holds, KeyOf
  <2> QED BY <2>1, <2>2 DEF Stored, pos
<1>12. CASE ~Holds(t, e, k)
  <2>1. ~test_strict(t, e)
    BY <1>7, <1>10, <1>12 DEF Stops
  <2>2. ~Stored(t, k)
    <3>1. SUFFICES ASSUME NEW b \in Full(t), KeyOf(t, b) = k PROVE FALSE
      BY DEF Stored
    <3>2. Reaches(hash, t, k, b)
      BY <3>1 DEF Sound, FoundIn
    <3>3. PICK n \in 0..(t.size - 1) :
            /\ At(hash, t, k, n) = b
            /\ \A m \in 0..(n - 1) : test_strict(t, At(hash, t, k, m))
      BY <3>2 DEF Reaches
    <3>4. b \in Buckets(t) /\ test(t, b) /\ test_strict(t, b) /\ Holds(t, b, k)
      BY <1>9, <3>1 DEF Full, Holds, KeyOf
    <3>5. CASE n < last
      BY <1>7, <1>8, <3>3, <3>4, <3>5
    <3>6. CASE n = last
      BY <1>10, <2>1, <3>3, <3>4, <3>6
    <3>7. CASE n > last
      BY <1>7, <1>10, <2>1, <3>3, <3>7
    <3> QED BY <1>7, <3>3, <3>5, <3>6, <3>7
  <2>3. CASE skipped # {}
    <3>1. PICK f \in skipped : f = Min(skipped)
      <4>1. skipped \in SUBSET Nat
        BY <1>7
      <4> HIDE DEF skipped
      <4> QED BY <2>3, <4>1, LeastOf
    <3>2. f \in 0..last /\ Skips(t, k, f)
      BY <3>1
    <3>3. PICK b \in Buckets(t) : b = Probe(t, k, f) /\ b = At(hash, t, k, f)
      BY <1>3, <1>4, <1>7, <3>2
    <3>4. test_strict(t, b) /\ ~test(t, b) /\ b \in Erased(t) /\ b \notin Full(t)
      BY <1>9, <3>2, <3>3 DEF Skips
    <3>5. f # last
      BY <1>10, <2>1, <3>3, <3>4
    <3>6. Reaches(hash, t, k, b)
      <4>1. f \in 0..(t.size - 1) /\ \A m \in 0..(f - 1) : m \in 0..(last - 1)
        BY <1>3, <1>7, <3>2, <3>5
      <4> QED BY <1>8, <3>3, <4>1 DEF Reaches
    <3> HIDE DEF skipped
    <3>7. pos = [t |-> "erased", idx |-> b]
      BY <1>6, <1>10, <1>12, <2>3, <3>1, <3>3
    <3> QED BY <2>2, <3>4, <3>6, <3>7 DEF IsSlot, pos
  <2>4. CASE skipped = {}
    <3>1. pos = [t |-> "empty", idx |-> e]
      BY <1>6, <1>10, <1>12, <2>4
    <3>2. e \notin Full(t) /\ e \notin Erased(t)
      BY <1>9, <2>1
    <3>3. Reaches(hash, t, k, e)
      BY <1>7, <1>8, <1>10 DEF Reaches
    <3> QED BY <2>2, <3>1, <3>2, <3>3 DEF IsSlot, pos
  <2> QED BY <2>3, <2>4
<1> QED
  BY <1>10, <1>11, <1>12

(***************************************************************************)
(* What a table holds.                                                     *)
(***************************************************************************)

(* The value stored for a key.                                             *)
Lookup(t, k) ==
  IF Stored(t, k) THEN unsafe_get(t, CHOOSE b \in Full(t) : KeyOf(t, b) = k)[2]
  ELSE None

\* The value looked up for a key is the one in its bucket.
LEMMA LookedUp ==
  ASSUME NEW h, NEW t, Sound(h, t), NEW b \in Full(t)
  PROVE  /\ Stored(t, KeyOf(t, b)) /\ KeyOf(t, b) \in Keys
         /\ Lookup(t, KeyOf(t, b)) = unsafe_get(t, b)[2]
         /\ Lookup(t, KeyOf(t, b)) \in Values
<1>1. unsafe_get(t, b) \in Item
  BY TableType DEF Sound
<1> DEFINE k == KeyOf(t, b)
           c == CHOOSE x \in Full(t) : KeyOf(t, x) = k
<1>2. c \in Full(t) /\ KeyOf(t, c) = k
  OBVIOUS
<1>3. c = b
  BY <1>2 DEF Sound, FoundIn
<1> QED
  BY <1>1, <1>3 DEF Lookup, Stored, Item, KeyOf

(* Reaching survives whatever only fills or erases buckets.                *)
LEMMA StillReached ==
  ASSUME NEW h, NEW t, NEW u, NEW d \in Nat, t.size = 2^d, u.size = t.size,
         h \in [Keys -> Nat], NEW k \in Keys, NEW b,
         \A c \in Buckets(t) : test_strict(t, c) => test_strict(u, c),
         Reaches(h, t, k, b)
  PROVE  Reaches(h, u, k, b)
<1>1. t.size \in Nat /\ \A n \in 0..(t.size - 1) : At(h, t, k, n) \in Buckets(t)
  BY AtBucket
<1>2. \A n : At(h, u, k, n) = At(h, t, k, n)
  BY DEF At
<1>3. PICK n \in 0..(t.size - 1) :
        At(h, t, k, n) = b /\ \A m \in 0..(n - 1) : test_strict(t, At(h, t, k, m))
  BY DEF Reaches
<1>4. ASSUME NEW m \in 0..(n - 1) PROVE test_strict(u, At(h, u, k, m))
  <2>1. m \in 0..(t.size - 1)
    BY <1>1, <1>3
  <2> QED BY <1>1, <1>2, <1>3, <2>1
<1> QED
  BY <1>2, <1>3, <1>4 DEF Reaches

(* Storing an item in a bucket its key reaches, if no other bucket has the *)
(* key.                                                                    *)
LEMMA StoreItem ==
  ASSUME NEW h, NEW t, Sound(h, t), NEW k \in Keys, NEW v \in Values,
         NEW b \in Buckets(t), Reaches(h, t, k, b),
         \A c \in Full(t) : KeyOf(t, c) = k => c = b,
         b \in Full(t) => KeyOf(t, b) = k,
         NEW u, u = table_set(t, b, <<k, v>>)
  PROVE  /\ Sound(h, u) /\ u.size = t.size
         /\ Full(u) = Full(t) \cup {b} /\ Erased(u) = Erased(t) \ {b}
         /\ \A x \in Keys : Lookup(u, x) = IF x = k THEN v ELSE Lookup(t, x)
<1>1. PICK d \in Nat : t.size = 2^d
  BY DEF Sound
<1>2. h \in [Keys -> Nat] /\ IsTable(t, Item) /\ FoundIn(h, t)
  BY DEF Sound
<1>3. /\ IsTable(u, Item) /\ u.size = t.size
      /\ Full(u) = Full(t) \cup {b} /\ Erased(u) = Erased(t) \ {b}
      /\ unsafe_get(u, b) = <<k, v>>
      /\ \A c \in Full(t) : c # b => unsafe_get(u, c) = unsafe_get(t, c)
  <2>1. <<k, v>> \in Item
    BY DEF Item
  <2> QED BY <1>2, <2>1, TableSet
<1>4. /\ KeyOf(u, b) = k
      /\ \A c \in Full(t) : c # b => KeyOf(u, c) = KeyOf(t, c)
      /\ \A c \in Full(t) : KeyOf(t, c) \in Keys
  BY <1>3, LookedUp DEF KeyOf
<1>5. ASSUME NEW c \in Buckets(t), test_strict(t, c) PROVE test_strict(u, c)
  <2>1. c \in Full(t) \/ c \in Erased(t)
    BY <1>2, <1>5, TableType
  <2>2. c \in Buckets(u) /\ (c \in Full(u) \/ c \in Erased(u))
    BY <1>3, <2>1 DEF Buckets
  <2> QED BY <1>3, <2>2, TableType
<1>6. ASSUME NEW c \in Full(u)
      PROVE  /\ Reaches(h, u, KeyOf(u, c), c)
             /\ \A e \in Full(u) : KeyOf(u, e) = KeyOf(u, c) => e = c
  <2>1. CASE c = b
    <3>1. Reaches(h, u, k, b)
      BY <1>1, <1>2, <1>3, <1>5, StillReached
    <3>2. ASSUME NEW e \in Full(u), KeyOf(u, e) = k PROVE e = b
      BY <1>3, <1>4, <3>2
    <3> QED BY <1>4, <2>1, <3>1, <3>2
  <2>2. CASE c # b
    <3>1. c \in Full(t) /\ KeyOf(u, c) = KeyOf(t, c) /\ KeyOf(t, c) \in Keys
      BY <1>3, <1>4, <2>2
    <3>2. Reaches(h, t, KeyOf(t, c), c)
      BY <1>2, <3>1 DEF FoundIn
    <3>3. Reaches(h, u, KeyOf(t, c), c)
      BY <1>1, <1>2, <1>3, <1>5, <3>1, <3>2, StillReached
    <3>4. ASSUME NEW e \in Full(u), KeyOf(u, e) = KeyOf(u, c) PROVE e = c
      <4>1. CASE e = b
        BY <1>4, <2>2, <3>1, <3>4, <4>1
      <4>2. CASE e # b
        <5>1. e \in Full(t) /\ KeyOf(t, e) = KeyOf(t, c)
          BY <1>3, <1>4, <3>1, <3>4, <4>2
        <5> QED BY <1>2, <3>1, <5>1 DEF FoundIn
      <4> QED BY <4>1, <4>2
    <3> QED BY <3>1, <3>3, <3>4
  <2> QED BY <2>1, <2>2
<1>7. Sound(h, u)
  <2>1. \E n \in Nat : u.size = 2^n
    BY <1>1, <1>3
  <2> QED BY <1>2, <1>3, <1>6, <2>1 DEF Sound, FoundIn
<1>8. ASSUME NEW x \in Keys
      PROVE  Lookup(u, x) = IF x = k THEN v ELSE Lookup(t, x)
  <2>1. CASE x = k
    <3>1. b \in Full(u)
      BY <1>3
    <3>2. Lookup(u, KeyOf(u, b)) = unsafe_get(u, b)[2]
      BY <1>7, <3>1, LookedUp
    <3> QED BY <1>3, <1>4, <2>1, <3>2
  <2>2. CASE x # k /\ Stored(t, x)
    <3>1. PICK c \in Full(t) : KeyOf(t, c) = x
      BY <2>2 DEF Stored
    <3>2. c # b
      BY <2>2, <3>1
    <3>3. c \in Full(u) /\ KeyOf(u, c) = x /\ unsafe_get(u, c) = unsafe_get(t, c)
      BY <1>3, <1>4, <3>1, <3>2
    <3>4. Lookup(u, x) = unsafe_get(u, c)[2] /\ Lookup(t, x) = unsafe_get(t, c)[2]
      BY <1>7, <3>1, <3>3, LookedUp
    <3> QED BY <2>2, <3>3, <3>4
  <2>3. CASE x # k /\ ~Stored(t, x)
    <3>1. ~Stored(u, x)
      BY <1>3, <1>4, <2>3 DEF Stored
    <3> QED BY <2>3, <3>1 DEF Lookup
  <2> QED BY <2>1, <2>2, <2>3
<1> QED
  BY <1>3, <1>7, <1>8

(* Erasing the item of a key.                                              *)
LEMMA EraseItem ==
  ASSUME NEW h, NEW t, Sound(h, t), NEW b \in Full(t)
  PROVE  LET u == table_erase(t, b)
         IN  /\ Sound(h, u) /\ u.size = t.size
             /\ Full(u) = Full(t) \ {b} /\ Erased(u) = Erased(t) \cup {b}
             /\ \A x \in Keys :
                  Lookup(u, x) = IF x = KeyOf(t, b) THEN None ELSE Lookup(t, x)
<1> DEFINE u == table_erase(t, b)
<1>1. PICK d \in Nat : t.size = 2^d
  BY DEF Sound
<1>2. h \in [Keys -> Nat] /\ IsTable(t, Item) /\ FoundIn(h, t)
  BY DEF Sound
<1>3. /\ IsTable(u, Item) /\ u.size = t.size
      /\ Full(u) = Full(t) \ {b} /\ Erased(u) = Erased(t) \cup {b}
      /\ \A c \in Full(t) : c # b => unsafe_get(u, c) = unsafe_get(t, c)
  BY <1>2, TableErase
<1> HIDE DEF u
<1>4. /\ \A c \in Full(u) : KeyOf(u, c) = KeyOf(t, c) /\ c \in Full(t)
      /\ \A c \in Full(t) : KeyOf(t, c) \in Keys
  BY <1>3, LookedUp DEF KeyOf
<1>5. ASSUME NEW c \in Buckets(t), test_strict(t, c) PROVE test_strict(u, c)
  <2>1. c \in Full(t) \/ c \in Erased(t)
    BY <1>2, <1>5, TableType
  <2>2. c \in Buckets(u) /\ (c \in Full(u) \/ c \in Erased(u))
    BY <1>3, <2>1 DEF Buckets
  <2> QED BY <1>3, <2>2, TableType
<1>6. ASSUME NEW c \in Full(u)
      PROVE  /\ Reaches(h, u, KeyOf(u, c), c)
             /\ \A e \in Full(u) : KeyOf(u, e) = KeyOf(u, c) => e = c
  <2>1. c \in Full(t) /\ KeyOf(u, c) = KeyOf(t, c) /\ KeyOf(t, c) \in Keys
    BY <1>4
  <2>2. Reaches(h, t, KeyOf(t, c), c)
    BY <1>2, <2>1 DEF FoundIn
  <2>3. Reaches(h, u, KeyOf(t, c), c)
    BY <1>1, <1>2, <1>3, <1>5, <2>1, <2>2, StillReached
  <2>4. ASSUME NEW e \in Full(u), KeyOf(u, e) = KeyOf(u, c) PROVE e = c
    BY <1>2, <1>4, <2>1, <2>4 DEF FoundIn
  <2> QED BY <2>1, <2>3, <2>4
<1>7. Sound(h, u)
  <2>1. \E n \in Nat : u.size = 2^n
    BY <1>1, <1>3
  <2> QED BY <1>2, <1>3, <1>6, <2>1 DEF Sound, FoundIn
<1>8. ASSUME NEW x \in Keys
      PROVE  Lookup(u, x) = IF x = KeyOf(t, b) THEN None ELSE Lookup(t, x)
  <2>1. CASE x = KeyOf(t, b)
    <3>1. ~Stored(u, x)
      <4>1. SUFFICES ASSUME NEW c \in Full(u), KeyOf(u, c) = x PROVE FALSE
        BY DEF Stored
      <4>2. c \in Full(t) /\ KeyOf(t, c) = KeyOf(t, b) /\ c # b
        BY <1>3, <1>4, <2>1, <4>1
      <4> QED BY <1>2, <4>2 DEF FoundIn
    <3> QED BY <2>1, <3>1 DEF Lookup
  <2>2. CASE x # KeyOf(t, b) /\ Stored(t, x)
    <3>1. PICK c \in Full(t) : KeyOf(t, c) = x
      BY <2>2 DEF Stored
    <3>2. c # b
      BY <2>2, <3>1
    <3>3. c \in Full(u) /\ KeyOf(u, c) = x /\ unsafe_get(u, c) = unsafe_get(t, c)
      BY <1>3, <1>4, <3>1, <3>2
    <3>4. Lookup(u, x) = unsafe_get(u, c)[2] /\ Lookup(t, x) = unsafe_get(t, c)[2]
      BY <1>7, <3>1, <3>3, LookedUp
    <3> QED BY <2>2, <3>3, <3>4
  <2>3. CASE x # KeyOf(t, b) /\ ~Stored(t, x)
    <3>1. ~Stored(u, x)
      BY <1>3, <1>4, <2>3 DEF Stored
    <3> QED BY <2>3, <3>1 DEF Lookup
  <2> QED BY <2>1, <2>2, <2>3
<1> QED
  BY <1>3, <1>7, <1>8 DEF u

(* A new table holds nothing.                                              *)
LEMMA NewHolds ==
  ASSUME NEW h \in [Keys -> Nat], NEW d \in Nat, NEW s \in Nat, s = 2^d
  PROVE  Sound(h, Table(s)) /\ \A k : Lookup(Table(s), k) = None /\ ~Stored(Table(s), k)
<1>1. IsTable(Table(s), Item) /\ Table(s).size = s /\ Full(Table(s)) = {}
  BY NewTable
<1> QED
  BY <1>1 DEF Sound, FoundIn, Lookup, Stored

(***************************************************************************)
(* The sizes of tables.                                                    *)
(***************************************************************************)

(* The product of two powers of two.                                       *)
LEMMA PowerSum ==
  ASSUME NEW a \in Nat, NEW b \in Nat
  PROVE  2^(a + b) = 2^a * 2^b
<1> DEFINE Fails == {n \in Nat : 2^(a + n) # 2^a * 2^n}
<1>1. SUFFICES ASSUME Fails # {} PROVE FALSE
  OBVIOUS
<1>2. PICK n \in Fails : \A m \in Fails : n <= m
  <2>1. Fails \in SUBSET Nat
    OBVIOUS
  <2> HIDE DEF Fails
  <2> QED BY <1>1, <2>1, LeastNumber
<1>3. n # 0
  <2>1. a + 0 = a
    OBVIOUS
  <2>2. PICK x \in Nat : x = 2^a
    BY PowersOfTwo
  <2>3. x * 1 = x
    OBVIOUS
  <2>4. 2^(a + 0) = 2^a * 2^0
    BY <2>1, <2>2, <2>3, PowersOfTwo, Zenon
  <2> QED BY <2>4
<1>4. PICK m \in Nat : n = m + 1
  <2>1. n - 1 \in Nat /\ n = (n - 1) + 1
    BY <1>3
  <2> QED BY <2>1
<1>5. 2^(a + m) = 2^a * 2^m
  <2>1. m \notin Fails
    <3> HIDE DEF Fails
    <3> QED BY <1>2, <1>4
  <2> QED BY <2>1
<1>6. a + n = (a + m) + 1 /\ a + m \in Nat
  BY <1>4
<1>7. 2^(a + n) = 2 * 2^(a + m) /\ 2^n = 2 * 2^m
  BY <1>4, <1>6, PowersOfTwo
<1>8. PICK x \in Nat, y \in Nat : x = 2^a /\ y = 2^m
  BY PowersOfTwo
<1>9. 2 * (x * y) = x * (2 * y)
  OBVIOUS
<1>10. 2^(a + n) = 2^a * 2^n
  BY <1>5, <1>7, <1>8, <1>9
<1> QED
  BY <1>10

(* The largest table of the model.                                         *)
Largest == HT_MIN_BUCKETS * 2^MaxDoublings

(* The number of buckets of a table is a power of two, its load thresholds *)
(* are a half and a fifth of it.                                           *)
LEMMA BucketCountType ==
  ASSUME NEW sz \in BucketCounts
  PROVE  /\ sz \in Nat /\ sz >= HT_MIN_BUCKETS /\ sz <= Largest
         /\ \E d \in Nat : sz = 2^d
         /\ enlarge_size(sz) \in Nat /\ 2 * enlarge_size(sz) = sz
         /\ shrink_size(sz) \in Nat /\ 5 * shrink_size(sz) <= sz
<1>1. PICK d \in 0..MaxDoublings : sz = HT_MIN_BUCKETS * 2^d
  BY DEF BucketCounts
<1>2. PICK e \in Nat : HT_MIN_BUCKETS = 2^e
  BY BucketsAssumption
<1>3. HT_MIN_BUCKETS \in Nat /\ HT_MIN_BUCKETS >= 4 /\ MaxDoublings \in Nat
  BY BucketsAssumption
<1>4. sz = 2^(e + d)
  BY <1>1, <1>2, <1>3, PowerSum
<1>5. PICK p \in Nat : p = 2^d /\ p > 0
  BY <1>1, <1>3, PowersOfTwo
<1>6. sz \in Nat /\ sz >= HT_MIN_BUCKETS
  <2>1. HT_MIN_BUCKETS * p = HT_MIN_BUCKETS * (p - 1) + HT_MIN_BUCKETS
        /\ HT_MIN_BUCKETS * (p - 1) \in Nat
    BY <1>3, <1>5
  <2> QED BY <1>1, <1>3, <1>5, <2>1
<1>7. sz <= Largest
  <2>1. MaxDoublings - d \in Nat /\ d \in Nat /\ d + (MaxDoublings - d) = MaxDoublings
    BY <1>3
  <2>2. PICK q \in Nat : q = 2^(MaxDoublings - d) /\ q > 0
    BY <2>1, PowersOfTwo
  <2>3. 2^MaxDoublings = p * q
    BY <1>5, <2>1, <2>2, PowerSum
  <2>4. HT_MIN_BUCKETS * (p * q) = sz * (q - 1) + sz /\ sz * (q - 1) \in Nat
    <3>1. q - 1 \in Nat
      BY <2>2
    <3>2. sz = HT_MIN_BUCKETS * p
      BY <1>1, <1>5
    <3>3. HT_MIN_BUCKETS * (p * q) = (HT_MIN_BUCKETS * p) * q
      BY <1>3
    <3>4. sz * q = sz * (q - 1) + sz
      BY <1>6
    <3>5. sz * (q - 1) \in Nat
      BY <1>6, <3>1
    <3> QED BY <3>2, <3>3, <3>4, <3>5
  <2> QED BY <1>6, <2>3, <2>4 DEF Largest
<1>8. PICK h \in Nat : sz = 2 * h
  <2>1. e # 0
    <3>1. SUFFICES ASSUME e = 0 PROVE FALSE
      OBVIOUS
    <3>2. HT_MIN_BUCKETS = 1
      BY <1>2, <3>1, PowersOfTwo, Zenon
    <3> QED BY <1>3, <3>2
  <2>2. e + d - 1 \in Nat /\ e + d = (e + d - 1) + 1
    BY <1>3, <2>1
  <2>3. sz = 2 * 2^(e + d - 1) /\ 2^(e + d - 1) \in Nat
    BY <1>4, <2>2, PowersOfTwo
  <2> QED BY <2>3
<1>9. enlarge_size(sz) = h
  BY <1>8 DEF enlarge_size, HT_OCCUPANCY_PCT
<1>10. shrink_size(sz) \in Nat /\ 5 * shrink_size(sz) <= sz
  BY <1>6 DEF shrink_size, HT_EMPTY_PCT
<1>11. e + d \in Nat
  BY <1>3
<1> QED
  BY <1>4, <1>6, <1>7, <1>8, <1>9, <1>10, <1>11

(* A larger bucket count is twice as large at least.                       *)
LEMMA AtLeastTwice ==
  ASSUME NEW r \in BucketCounts, NEW s \in BucketCounts, r < s
  PROVE  2 * r <= s
<1>1. PICK c \in 0..MaxDoublings : r = HT_MIN_BUCKETS * 2^c
  BY DEF BucketCounts
<1>2. PICK d \in 0..MaxDoublings : s = HT_MIN_BUCKETS * 2^d
  BY DEF BucketCounts
<1>3. HT_MIN_BUCKETS \in Nat /\ MaxDoublings \in Nat /\ r \in Nat /\ s \in Nat
  BY BucketsAssumption, BucketCountType
<1>4. c \in Nat /\ d \in Nat
  BY <1>3
<1>5. CASE c < d
  <2>1. PICK e \in Nat : d = (c + 1) + e
    <3>1. d - (c + 1) \in Nat /\ d = (c + 1) + (d - (c + 1))
      BY <1>4, <1>5
    <3> QED BY <3>1
  <2>2. PICK p \in Nat, q \in Nat : /\ p = 2^c /\ 2 * p = 2^(c + 1)
                                    /\ q = 2^e /\ q > 0
    BY <1>4, PowersOfTwo
  <2>3. 2^d = (2 * p) * q
    <3>1. c + 1 \in Nat
      BY <1>4
    <3>2. 2^((c + 1) + e) = 2^(c + 1) * 2^e
      BY <3>1, PowerSum
    <3> QED BY <2>1, <2>2, <3>2, Zenon
  <2>4. HT_MIN_BUCKETS * ((2 * p) * q) = (2 * (HT_MIN_BUCKETS * p)) * q
    <3>1. PICK m \in Nat : m = HT_MIN_BUCKETS
      BY <1>3
    <3>2. m * ((2 * p) * q) = (2 * (m * p)) * q
      <4>1. (2 * p) * q = 2 * (p * q) /\ p * q \in Nat
        OBVIOUS
      <4>2. m * (2 * (p * q)) = 2 * (m * (p * q))
        BY <4>1
      <4>3. m * (p * q) = (m * p) * q /\ m * p \in Nat
        OBVIOUS
      <4>4. (2 * (m * p)) * q = 2 * ((m * p) * q)
        BY <4>3
      <4> QED BY <4>1, <4>2, <4>3, <4>4
    <3> QED BY <3>1, <3>2
  <2>5. s = (2 * r) * q
    <3>1. r = HT_MIN_BUCKETS * p /\ s = HT_MIN_BUCKETS * ((2 * p) * q)
      BY <1>1, <1>2, <2>2, <2>3, Zenon
    <3> QED BY <2>4, <3>1, Zenon
  <2>6. (2 * r) * q = (2 * r) * (q - 1) + 2 * r /\ (2 * r) * (q - 1) \in Nat
    <3>1. q - 1 \in Nat /\ 2 * r \in Nat
      BY <1>3, <2>2
    <3> QED BY <3>1
  <2> QED BY <1>3, <2>5, <2>6
<1>6. CASE c = d
  BY <1>1, <1>2, <1>3, <1>6
<1>7. CASE d < c
  <2>1. PICK e \in Nat : c = d + e
    <3>1. c - d \in Nat /\ c = d + (c - d)
      BY <1>4, <1>7
    <3> QED BY <3>1
  <2>2. PICK p \in Nat, q \in Nat : p = 2^d /\ q = 2^e /\ q > 0
    BY <1>4, PowersOfTwo
  <2>3. 2^c = p * q
    BY <1>4, <2>1, <2>2, PowerSum
  <2>4. HT_MIN_BUCKETS * (p * q) = (HT_MIN_BUCKETS * p) * q
    BY <1>3
  <2>5. r = s * q
    BY <1>1, <1>2, <2>2, <2>3, <2>4
  <2>6. s * q = s * (q - 1) + s /\ s * (q - 1) \in Nat
    <3>1. q - 1 \in Nat
      BY <2>2
    <3> QED BY <1>3, <3>1
  <2> QED BY <1>3, <2>5, <2>6
<1> QED
  BY <1>4, <1>5, <1>6, <1>7

(* The starting and the largest table are of a size a table has.           *)
LEMMA SizesExist ==
  /\ HT_DEFAULT_STARTING_BUCKETS \in BucketCounts
  /\ Largest \in BucketCounts
  /\ Largest \in Nat /\ enlarge_size(Largest) \in Nat /\ enlarge_size(Largest) > 1
<1>1. HT_DEFAULT_STARTING_BUCKETS \in BucketCounts
  BY BucketsAssumption DEF BucketCounts
<1>2. Largest \in BucketCounts
  <2>1. MaxDoublings \in 0..MaxDoublings
    BY BucketsAssumption
  <2> QED BY <2>1 DEF BucketCounts, Largest
<1>3. HT_MIN_BUCKETS \in Nat /\ HT_MIN_BUCKETS >= 4
  BY BucketsAssumption
<1> QED
  BY <1>1, <1>2, <1>3, BucketCountType

(* A larger table has the higher threshold.                                *)
LEMMA ThresholdGrows ==
  ASSUME NEW r \in BucketCounts, NEW s \in BucketCounts, r <= s
  PROVE  enlarge_size(r) <= enlarge_size(s)
<1> QED
  BY BucketCountType

(* min_buckets finds a size that holds the elements and is as large as     *)
(* wanted, if the largest is.                                              *)
LEMMA MinBuckets ==
  ASSUME NEW n \in Nat, NEW w \in Nat, n < enlarge_size(Largest), w <= Largest
  PROVE  /\ min_buckets(n, w) \in BucketCounts
         /\ min_buckets(n, w) >= w
         /\ n < enlarge_size(min_buckets(n, w))
<1>1. Largest \in Roomy(n, w)
  BY SizesExist DEF Roomy
<1>2. Roomy(n, w) \in SUBSET Nat
  BY BucketCountType DEF Roomy
<1>3. \E sz \in Roomy(n, w) : \A other \in Roomy(n, w) : sz <= other
  BY <1>1, <1>2, LeastNumber
<1>4. min_buckets(n, w) \in Roomy(n, w)
  BY <1>3 DEF min_buckets
<1> QED
  BY <1>4 DEF Roomy

(* A table that is larger than the starting one has a size to shrink to.   *)
LEMMA ShrunkSizeType ==
  ASSUME table.size \in BucketCounts, table.size > HT_DEFAULT_STARTING_BUCKETS
  PROVE  ShrunkSize \in BucketCounts /\ ShrunkSize \in Nat /\ ShrunkSize <= Largest
<1> DEFINE Start == HT_DEFAULT_STARTING_BUCKETS
           C == {sz \in BucketCounts : /\ 2 * sz <= table.size /\ sz >= Start
                                       /\ sz > Start => ~NearlyEmpty(sz)}
           D == {n \in Nat : \E sz \in C : n = Largest - sz}
<1>1. Start \in BucketCounts /\ Largest \in Nat
  BY SizesExist
<1>2. Start \in C
  BY <1>1, AtLeastTwice, BucketCountType
<1>3. \A sz \in C : Largest - sz \in D
  BY <1>1, BucketCountType
<1>4. PICK n \in D : \A m \in D : n <= m
  <2>1. D # {} /\ D \in SUBSET Nat
    BY <1>2, <1>3
  <2> HIDE DEF D
  <2> QED BY <2>1, LeastNumber
<1>5. PICK sz \in C : n = Largest - sz
  BY <1>4
<1>6. ASSUME NEW s \in BucketCounts, s > sz, 2 * s <= table.size
      PROVE  NearlyEmpty(s)
  <2>1. s \notin C
    <3>1. sz \in Nat /\ s \in Nat
      BY BucketCountType
    <3>2. ~(Largest - sz <= Largest - s)
      BY <1>1, <1>6, <3>1
    <3> HIDE DEF C, D
    <3> QED BY <1>3, <1>4, <1>5, <3>2
  <2>2. s >= Start /\ s > Start
    BY <1>1, <1>5, <1>6, BucketCountType
  <2> QED BY <1>6, <2>1, <2>2
<1>7. \E x \in BucketCounts :
        /\ 2 * x <= table.size /\ x >= Start
        /\ x > Start => ~NearlyEmpty(x)
        /\ \A s \in BucketCounts : s > x /\ 2 * s <= table.size => NearlyEmpty(s)
  BY <1>5, <1>6
<1>8. ShrunkSize \in BucketCounts
  BY <1>7 DEF ShrunkSize
<1> QED
  BY <1>8, BucketCountType

(***************************************************************************)
(* The inductive invariant.                                                *)
(***************************************************************************)

(* Where a call may be.                                                    *)
Adding      == {"index", "insert"}
Reshaping   == Adding \cup {"resize"}
Reorganising == Reshaping \cup {"squash", "copy"}
Inner       == {"shrink", "grow", "move", "place"}

Control ==
  /\ hash \in Hashes
  /\ call \in [op: Calls \cup {None}, key: Keys \cup {None}, value: Values \cup {None}]
  /\ pc = "idle" => call = NoCall
  /\ pc # "idle" => call.op \in Calls
  /\ pc \in Calls \cup {"idle"} \cup Inner
  /\ pc \in Calls => call.op = pc
  /\ pc \in {"shrink", "grow"} => call.op \in Reshaping
  /\ pc \in {"move", "place"} => call.op \in Reorganising
  /\ call.op \in Adding => call.key \in Keys /\ call.value \in Values
  /\ call.op \in {"find", "erase"} => call.key \in Keys
  /\ req_elements \in Requests \cup {0}
  /\ result \in Values \cup BOOLEAN \cup {None}
  /\ slot \in [t: {"none", "empty", "erased"}, idx: Nat]
  /\ rehashed \in BOOLEAN
  /\ resume \in {"idle", "grow", "place"}
  /\ pc \in Calls \cup {"idle", "shrink"} => ~rehashed
  /\ pc # "move" => tmp = Table(0)

(* The thresholds of a table.                                              *)
Thresholds(sz, considered) ==
  [enlarge_threshold |-> enlarge_size(sz), shrink_threshold |-> shrink_size(sz),
   consider_shrink   |-> considered]

(* The table and what is counted of it.                                    *)
Tables ==
  /\ Sound(hash, table) /\ table.size \in BucketCounts
  /\ num_deleted = Cardinality(Erased(table))
  /\ \E considered \in BOOLEAN :
       settings = Thresholds(table.size, considered)
  /\ size(table) + num_deleted <= enlarge_size(table.size)
  /\ size(table) + num_deleted < enlarge_size(Largest)

(* operator[] goes on only if the key is not there, and the slot it holds  *)
(* is good until it rehashes.                                              *)
Pending ==
  pc \in Inner /\ call.op = "index" =>
    /\ ~Stored(table, call.key)
    /\ ~rehashed => IsSlot(hash, table, call.key, slot)

(* There is room for what the call adds: in the largest table from the     *)
(* start, in this one when it is placed.                                   *)
RoomLeft ==
  /\ call.op \in Adding => size(table) + num_deleted + 1 < enlarge_size(Largest)
  /\ call.op = "resize" =>
       size(table) + num_deleted + req_elements < enlarge_size(Largest)
  /\ pc = "place" /\ call.op \in Adding =>
       size(table) + num_deleted + 1 <= enlarge_size(table.size)
  /\ pc = "grow" /\ rehashed =>
       num_deleted = 0 /\ size(table) < enlarge_size(table.size)

(* The keys of the buckets a rehash is past.                               *)
Past(t, i) == {b \in Full(t) : b < i}

(* u holds the items of t's buckets below i, and nothing else.             *)
Moved(h, t, u, i) ==
  /\ Sound(h, u) /\ Erased(u) = {}
  /\ Cardinality(Full(u)) = Cardinality(Past(t, i))
  /\ \A k \in Keys :
       Lookup(u, k) = IF \E b \in Past(t, i) : KeyOf(t, b) = k THEN Lookup(t, k) ELSE None

Moving ==
  /\ it \in 0..Largest
  /\ pc = "move" =>
    /\ rehashed /\ it <= table.size
    /\ Moved(hash, table, tmp, it)
    /\ tmp.size \in BucketCounts
    /\ size(table) <= enlarge_size(tmp.size)
    /\ resume \in {"grow", "place"}
    /\ resume = "grow" =>
         call.op \in Reshaping /\ size(table) < enlarge_size(tmp.size)
    /\ resume = "place" /\ call.op \in Adding => size(table) + 1 <= enlarge_size(tmp.size)

Inv == Control /\ Tables /\ Pending /\ RoomLeft /\ Moving

USE HashesAssumption DEF Adding, Reshaping, Reorganising, Inner, size

(* What the invariant says of the counters.                                *)
LEMMA Counters ==
  ASSUME Inv
  PROVE  /\ size(table) \in Nat /\ size(table) = Cardinality(Full(table))
         /\ num_deleted \in Nat /\ num_deleted = Cardinality(Erased(table))
         /\ IsFiniteSet(Full(table)) /\ IsFiniteSet(Erased(table))
         /\ table.size \in Nat /\ table.size <= Largest
         /\ 2 * enlarge_size(table.size) = table.size
         /\ enlarge_size(table.size) \in Nat /\ enlarge_size(Largest) \in Nat
         /\ size(table) + num_deleted < table.size
         /\ hash \in [Keys -> Nat]
<1>1. IsTable(table, Item) /\ hash \in [Keys -> Nat]
  BY DEF Inv, Tables, Sound
<1>2. /\ table.num_buckets \in Nat /\ table.num_buckets = Cardinality(Full(table))
      /\ Cardinality(Erased(table)) \in Nat
      /\ IsFiniteSet(Full(table)) /\ IsFiniteSet(Erased(table))
  BY <1>1, TableType DEF IsTable
<1>3. /\ table.size \in Nat /\ table.size >= HT_MIN_BUCKETS /\ table.size <= Largest
      /\ 2 * enlarge_size(table.size) = table.size /\ enlarge_size(table.size) \in Nat
  BY BucketCountType DEF Inv, Tables
<1>4. HT_MIN_BUCKETS \in Nat /\ HT_MIN_BUCKETS >= 4
  BY BucketsAssumption
<1>5. /\ num_deleted = Cardinality(Erased(table))
      /\ size(table) + num_deleted <= enlarge_size(table.size)
  BY DEF Inv, Tables
<1> QED
  BY <1>1, <1>2, <1>3, <1>4, <1>5, SizesExist

(* Every search ends.                                                      *)
LEMMA Ending ==
  ASSUME Inv, NEW k \in Keys
  PROVE  Ends(table, k)
<1>1. PICK n \in 0..(table.size - 1) : ~test_strict(table, At(hash, table, k, n))
  <2>1. Sound(hash, table)
    BY DEF Inv, Tables
  <2>2. Cardinality(Full(table)) + Cardinality(Erased(table)) < table.size
    BY Counters
  <2> QED BY <2>1, <2>2, SearchEnds
<1> QED
  BY <1>1 DEF Ends, Stops, Probe, At

(* The names of the places where a call may be.                            *)
LEMMA Places ==
  /\ \A c \in Calls : c \notin Inner /\ c # "idle" /\ c # None
  /\ None \notin Adding \cup {"resize", "find", "erase", "squash", "copy", "clear"}
  /\ None \notin Keys /\ None \notin Values
<1> QED
  BY CallsAssumption, NoneAssumption

(* A call that returns leaves nothing but its effect on the table.         *)
LEMMA Returned ==
  ASSUME Inv, NEW r \in Values \cup BOOLEAN \cup {None}, Return(r)
  PROVE  Control' /\ Pending' /\ RoomLeft' /\ Moving'
<1>1. /\ pc' = "idle" /\ call' = NoCall /\ req_elements' = 0 /\ result' = r
      /\ slot' = NoSlot /\ rehashed' = FALSE /\ tmp' = Table(0) /\ it' = 0
      /\ resume' = "idle" /\ hash' = hash
  BY DEF Return
<1>2. call' \in [op: Calls \cup {None}, key: Keys \cup {None}, value: Values \cup {None}]
      /\ call'.op = None
  BY <1>1 DEF NoCall
<1>3. slot' \in [t: {"none", "empty", "erased"}, idx: Nat]
  BY <1>1 DEF NoSlot
<1>4. Control'
  BY <1>1, <1>2, <1>3, Places DEF Control, Inv
<1>5. Pending'
  BY <1>1 DEF Pending
<1>6. RoomLeft'
  BY <1>1, <1>2, Places DEF RoomLeft
<1>7. Moving'
  BY <1>1, SizesExist DEF Moving
<1> QED
  BY <1>4, <1>5, <1>6, <1>7

(* Where a search for the key of the call ends.                            *)
LEMMA Position ==
  ASSUME Inv, NEW k \in Keys
  PROVE  /\ _find_position(table, k).t = "full" =>
              /\ Stored(table, k) /\ _find_position(table, k).idx \in Full(table)
              /\ KeyOf(table, _find_position(table, k).idx) = k
         /\ _find_position(table, k).t # "full" =>
              IsSlot(hash, table, k, _find_position(table, k))
<1>1. Sound(hash, table) /\ Ends(table, k)
  BY Ending DEF Inv, Tables
<1> QED
  BY <1>1, PositionFound

(* A value is looked up for a key that is there, and None for another.     *)
LEMMA Absent ==
  ASSUME NEW h, NEW t, Sound(h, t), NEW k \in Keys
  PROVE  /\ Lookup(t, k) = None <=> ~Stored(t, k)
         /\ Lookup(t, k) \in Values \cup {None}
<1>1. CASE Stored(t, k)
  <2>1. PICK b \in Full(t) : KeyOf(t, b) = k
    BY <1>1 DEF Stored
  <2>2. Lookup(t, k) \in Values
    BY <2>1, LookedUp
  <2> QED BY <1>1, <2>2, Places
<1>2. CASE ~Stored(t, k)
  BY <1>2 DEF Lookup
<1> QED
  BY <1>1, <1>2

(* The table does not change.                                              *)
LEMMA SameTable ==
  ASSUME Inv, UNCHANGED <<table, num_deleted, settings, hash>>
  PROVE  Tables'
<1> QED
  BY DEF Inv, Tables

\* find returns what is stored for the key.
LEMMA FindStep ==
  ASSUME Inv, Find
  PROVE  Inv' /\ result' = Lookup(table, Key)
<1>1. Key \in Keys
  BY Places DEF Inv, Control, Find, Key
<1>2. PICK r : r = find(table, Key)
  OBVIOUS
<1>3. r = Lookup(table, Key)
  <2>1. CASE _find_position(table, Key).t = "full"
    <3>1. PICK b \in Full(table) : b = _find_position(table, Key).idx /\ KeyOf(table, b) = Key
      BY <1>1, <2>1, Position
    <3>2. Lookup(table, Key) = unsafe_get(table, b)[2]
      BY <3>1, LookedUp DEF Inv, Tables
    <3> QED BY <1>2, <2>1, <3>1, <3>2 DEF find
  <2>2. CASE _find_position(table, Key).t # "full"
    <3>1. ~Stored(table, Key)
      BY <1>1, <2>2, Position DEF IsSlot
    <3> QED BY <1>2, <2>2, <3>1 DEF find, Lookup
  <2> QED BY <2>1, <2>2
<1>4. r \in Values \cup {None}
  BY <1>1, <1>3, Absent DEF Inv, Tables
<1>5. Return(r) /\ UNCHANGED <<table, num_deleted, settings>>
  BY <1>2 DEF Find
<1>6. Tables'
  BY <1>5, SameTable DEF Return
<1>7. Control' /\ Pending' /\ RoomLeft' /\ Moving'
  BY <1>4, <1>5, Returned
<1> QED
  BY <1>3, <1>5, <1>6, <1>7 DEF Inv, Return

\* Erasing a key that is not there.
LEMMA EraseMissingStep ==
  ASSUME Inv, EraseMissing
  PROVE  Inv' /\ ~Stored(table, Key)
<1>1. Key \in Keys
  BY Places DEF Inv, Control, EraseMissing, Key
<1>2. Return(FALSE) /\ UNCHANGED <<table, num_deleted, settings>>
  BY DEF EraseMissing
<1>3. Tables'
  BY <1>2, SameTable DEF Return
<1>4. Control' /\ Pending' /\ RoomLeft' /\ Moving'
  BY <1>2, Returned
<1>5. ~Stored(table, Key)
  BY <1>1, Position DEF IsSlot, EraseMissing
<1> QED
  BY <1>3, <1>4, <1>5 DEF Inv

\* Erasing the item of a key.
LEMMA EraseStep ==
  ASSUME Inv, Erase
  PROVE  /\ Inv' /\ Stored(table, Key)
         /\ \A k \in Keys :
              Lookup(table', k) = IF k = Key THEN None ELSE Lookup(table, k)
<1>1. Key \in Keys
  BY Places DEF Inv, Control, Erase, Key
<1>2. PICK b \in Full(table) : KeyOf(table, b) = Key /\ table' = table_erase(table, b)
  BY <1>1, Position DEF Erase
<1>3. Sound(hash, table)
  BY DEF Inv, Tables
<1>4. /\ Sound(hash, table') /\ table'.size = table.size
      /\ Full(table') = Full(table) \ {b} /\ Erased(table') = Erased(table) \cup {b}
      /\ \A k \in Keys :
           Lookup(table', k) = IF k = KeyOf(table, b) THEN None ELSE Lookup(table, k)
  BY <1>2, <1>3, EraseItem
<1>5. /\ num_deleted' = num_deleted + 1
      /\ settings' = [settings EXCEPT !.consider_shrink = TRUE]
      /\ Return(TRUE) /\ hash' = hash
  BY DEF Erase, Return
<1>6. /\ Cardinality(Full(table')) = size(table) - 1
      /\ Cardinality(Erased(table')) = num_deleted + 1
  <2>1. b \notin Erased(table)
    BY <1>2, <1>3, TableType DEF Sound
  <2>2. /\ Cardinality(Full(table) \ {b}) = Cardinality(Full(table)) - 1
        /\ Cardinality(Erased(table) \cup {b}) = Cardinality(Erased(table)) + 1
    <3>1. IsFiniteSet(Full(table)) /\ IsFiniteSet(Erased(table))
      BY Counters
    <3> QED BY <2>1, <3>1, FS_AddElement, FS_RemoveElement
  <2>3. size(table) = Cardinality(Full(table)) /\ num_deleted = Cardinality(Erased(table))
    BY Counters
  <2> HIDE DEF size
  <2> QED BY <1>4, <2>2, <2>3, Zenon
<1>7. size(table') = size(table) - 1
  BY <1>4, <1>6 DEF Sound, IsTable
<1>8. Tables'
  <2>1. /\ Sound(hash', table') /\ table'.size \in BucketCounts
        /\ num_deleted' = Cardinality(Erased(table'))
    BY <1>4, <1>5, <1>6 DEF Inv, Tables
  <2>2. settings' = Thresholds(table'.size, TRUE)
    <3>1. PICK c \in BOOLEAN : settings = Thresholds(table.size, c)
      BY DEF Inv, Tables
    <3> QED BY <1>4, <1>5, <3>1 DEF Thresholds
  <2>3. size(table') + num_deleted' = size(table) + num_deleted
    BY <1>5, <1>7, Counters
  <2> QED BY <1>4, <2>1, <2>2, <2>3 DEF Inv, Tables
<1>9. Control' /\ Pending' /\ RoomLeft' /\ Moving'
  BY <1>5, Returned
<1>10. Stored(table, Key)
  BY <1>2 DEF Stored
<1> QED
  BY <1>2, <1>4, <1>8, <1>9, <1>10 DEF Inv

(* A new table of a size a table has.                                      *)
LEMMA NewOfSize ==
  ASSUME NEW h \in [Keys -> Nat], NEW sz \in BucketCounts
  PROVE  /\ Sound(h, Table(sz)) /\ Table(sz).size = sz /\ IsTable(Table(sz), Item)
         /\ Full(Table(sz)) = {} /\ Erased(Table(sz)) = {}
         /\ size(Table(sz)) = 0 /\ Cardinality(Full(Table(sz))) = 0
         /\ Cardinality(Erased(Table(sz))) = 0
         /\ \A k : Lookup(Table(sz), k) = None
<1>1. sz \in Nat /\ \E d \in Nat : sz = 2^d
  BY BucketCountType
<1>2. Sound(h, Table(sz)) /\ \A k : Lookup(Table(sz), k) = None
  BY <1>1, NewHolds
<1>3. /\ IsTable(Table(sz), Item) /\ Table(sz).size = sz
      /\ Full(Table(sz)) = {} /\ Erased(Table(sz)) = {} /\ Table(sz).num_buckets = 0
  BY <1>1, NewTable
<1>4. Cardinality({}) = 0
  BY FS_EmptySet
<1> QED
  BY <1>2, <1>3, <1>4

(* A table with room for one more item at least.                           *)
LEMMA NewIsRoomy ==
  ASSUME NEW sz \in BucketCounts
  PROVE  enlarge_size(sz) \in Nat /\ 0 <= enlarge_size(sz) /\ 0 < enlarge_size(Largest)
<1> QED
  BY BucketCountType, SizesExist

\* The map that is constructed is empty.
LEMMA InitStep ==
  ASSUME Init
  PROVE  Inv /\ \A k \in Keys : Lookup(table, k) = None
<1>1. PICK n \in Requests : table = Constructed(n)
  BY DEF Init
<1>2. hash \in Hashes /\ hash \in [Keys -> Nat]
  BY DEF Init
<1>3. PICK sz \in BucketCounts : table = Table(sz)
  <2>1. n \in Nat /\ n < enlarge_size(Largest)
    BY RequestsAssumption DEF Largest
  <2>2. min_buckets(n, 0) \in BucketCounts
    BY <2>1, MinBuckets, SizesExist
  <2> QED BY <1>1, <2>2, SizesExist DEF Constructed
<1>4. /\ Sound(hash, table) /\ table.size = sz /\ size(table) = 0
      /\ Cardinality(Erased(table)) = 0
      /\ \A k : Lookup(table, k) = None
  BY <1>2, <1>3, NewOfSize
<1>5. Tables
  <2>1. num_deleted = 0 /\ settings = reset_thresholds(table.size)
    BY DEF Init
  <2>2. settings = Thresholds(table.size, FALSE)
    BY <2>1 DEF reset_thresholds, Thresholds
  <2>3. \E considered \in BOOLEAN : settings = Thresholds(table.size, considered)
    BY <2>2, Zenon
  <2> QED BY <1>4, <2>1, <2>3, NewIsRoomy DEF Tables
<1>6. Control
  <2>1. call = NoCall /\ slot = NoSlot
    BY DEF Init
  <2>2. call \in [op: Calls \cup {None}, key: Keys \cup {None}, value: Values \cup {None}]
        /\ call.op = None /\ slot \in [t: {"none", "empty", "erased"}, idx: Nat]
    BY <2>1 DEF NoCall, NoSlot
  <2> QED BY <2>1, <2>2, Places DEF Init, Control
<1>7. Pending
  BY DEF Pending, Init
<1>8. RoomLeft
  BY Places DEF RoomLeft, Init, NoCall
<1>9. Moving
  BY SizesExist DEF Moving, Init
<1> QED
  BY <1>4, <1>5, <1>6, <1>7, <1>8, <1>9 DEF Inv

\* A call changes nothing.
LEMMA CallStep ==
  ASSUME Inv, NEW op \in Calls, Call(op)
  PROVE  /\ Inv' /\ UNCHANGED table /\ call = NoCall /\ call'.op = op /\ result' = None
         /\ call' \in [op: Calls, key: Keys \cup {None}, value: Values \cup {None}]
<1>1. PICK a \in Arguments(op) : call' = [op |-> op, key |-> a[1], value |-> a[2]]
  BY DEF Call
<1>2. /\ call'.op = op
      /\ call' \in [op: Calls, key: Keys \cup {None}, value: Values \cup {None}]
      /\ op \in Adding => call'.key \in Keys /\ call'.value \in Values
      /\ op \in {"find", "erase"} => call'.key \in Keys
  BY <1>1 DEF Arguments
<1>3. /\ pc = "idle" /\ pc' = op /\ result' = None
      /\ UNCHANGED <<table, num_deleted, settings, hash, slot, rehashed, rehashVars>>
  BY DEF Call
<1>4. /\ req_elements' \in Requests \cup {0}
      /\ op = "resize" => Fits(req_elements')
  <2>1. req_elements' \in IF op = "resize" THEN {n \in Requests : Fits(n)} ELSE {0}
    BY DEF Call
  <2> QED BY <2>1
<1>5. Tables'
  BY <1>3, SameTable
<1>6. op \notin Inner /\ op # "idle" /\ op # None
  BY Places
<1>7. Control'
  BY <1>2, <1>3, <1>4, <1>6 DEF Control, Inv, rehashVars
<1>8. Pending'
  BY <1>3, <1>6 DEF Pending
<1>9. RoomLeft'
  BY <1>2, <1>3, <1>4, <1>6 DEF RoomLeft, Inv, Call, Fits, Largest
<1>10. Moving'
  BY <1>3, <1>6 DEF Moving, Inv, rehashVars
<1>11. call = NoCall
  BY <1>3 DEF Inv, Control
<1> QED
  BY <1>2, <1>3, <1>5, <1>7, <1>8, <1>9, <1>10, <1>11 DEF Inv

\* clear leaves nothing in the map.
LEMMA ClearStep ==
  ASSUME Inv, Clear
  PROVE  Inv' /\ \A k \in Keys : Lookup(table', k) = None
<1>1. /\ settings' = reset_thresholds(table'.size) /\ num_deleted' = 0
      /\ Return(None) /\ hash' = hash
  BY DEF Clear, Return
<1>2. /\ Sound(hash, table') /\ table'.size \in BucketCounts
      /\ size(table') = 0 /\ Cardinality(Erased(table')) = 0
      /\ \A k \in Keys : Lookup(table', k) = None
  <2>1. CASE Cluttered
    <3>1. table' = Table(HT_DEFAULT_STARTING_BUCKETS)
      BY <2>1 DEF Clear
    <3> QED BY <3>1, NewOfSize, SizesExist, Counters
  <2>2. CASE ~Cluttered
    <3>1. table' = table /\ size(table) = 0 /\ num_deleted = 0
      BY <2>2 DEF Clear, Cluttered
    <3>2. Sound(hash, table) /\ table.size \in BucketCounts
          /\ num_deleted = Cardinality(Erased(table))
      BY DEF Inv, Tables
    <3>3. Full(table) = {}
      BY <3>1, Counters, FS_EmptySet
    <3> QED BY <3>1, <3>2, <3>3 DEF Lookup, Stored
  <2> QED BY <2>1, <2>2
<1>3. settings' = Thresholds(table'.size, FALSE)
  BY <1>1 DEF reset_thresholds, Thresholds
<1>4. Tables'
  <2>1. \E considered \in BOOLEAN : settings' = Thresholds(table'.size, considered)
    BY <1>3, Zenon
  <2> QED BY <1>1, <1>2, <2>1, NewIsRoomy DEF Tables
<1>5. Control' /\ Pending' /\ RoomLeft' /\ Moving'
  BY <1>1, Returned
<1> QED
  BY <1>2, <1>4, <1>5 DEF Inv

(* Storing an item where its key is or may go.                             *)
LEMMA Storing ==
  ASSUME Inv, NEW k \in Keys, NEW v \in Values, NEW b \in Buckets(table),
         \/ b \in Full(table) /\ KeyOf(table, b) = k
         \/ b \notin Full(table) /\ Reaches(hash, table, k, b) /\ ~Stored(table, k),
         table' = table_set(table, b, <<k, v>>)
  PROVE  /\ Sound(hash, table') /\ table'.size = table.size
         /\ Full(table') = Full(table) \cup {b} /\ Erased(table') = Erased(table) \ {b}
         /\ size(table') = size(table) + (IF b \in Full(table) THEN 0 ELSE 1)
         /\ Cardinality(Erased(table')) =
              num_deleted - (IF b \in Erased(table) THEN 1 ELSE 0)
         /\ \A x \in Keys : Lookup(table', x) = IF x = k THEN v ELSE Lookup(table, x)
<1>1. Sound(hash, table)
  BY DEF Inv, Tables
<1>2. /\ Reaches(hash, table, k, b)
      /\ \A c \in Full(table) : KeyOf(table, c) = k => c = b
      /\ b \in Full(table) => KeyOf(table, b) = k
  BY <1>1 DEF Sound, FoundIn, Stored
<1>3. /\ Sound(hash, table') /\ table'.size = table.size
      /\ Full(table') = Full(table) \cup {b} /\ Erased(table') = Erased(table) \ {b}
      /\ \A x \in Keys : Lookup(table', x) = IF x = k THEN v ELSE Lookup(table, x)
  <2>1. PICK u : u = table_set(table, b, <<k, v>>)
    OBVIOUS
  <2>2. /\ Sound(hash, u) /\ u.size = table.size
        /\ Full(u) = Full(table) \cup {b} /\ Erased(u) = Erased(table) \ {b}
        /\ \A x \in Keys : Lookup(u, x) = IF x = k THEN v ELSE Lookup(table, x)
    <3>1. PICK h, t : h = hash /\ t = table
      OBVIOUS
    <3> QED BY <1>1, <1>2, <2>1, <3>1, StoreItem
  <2> QED BY <2>1, <2>2
<1>4. /\ Cardinality(Full(table) \cup {b}) =
           Cardinality(Full(table)) + (IF b \in Full(table) THEN 0 ELSE 1)
      /\ Cardinality(Erased(table) \ {b}) =
           Cardinality(Erased(table)) - (IF b \in Erased(table) THEN 1 ELSE 0)
  <2>1. IsFiniteSet(Full(table)) /\ IsFiniteSet(Erased(table))
        /\ Cardinality(Full(table)) \in Nat /\ Cardinality(Erased(table)) \in Nat
    BY Counters
  <2>2. b \notin Full(table) =>
          Cardinality(Full(table) \cup {b}) = Cardinality(Full(table)) + 1
    BY <2>1, FS_AddElement
  <2>3. b \in Erased(table) =>
          Cardinality(Erased(table) \ {b}) = Cardinality(Erased(table)) - 1
    BY <2>1, FS_RemoveElement
  <2>4. /\ b \in Full(table) => Full(table) \cup {b} = Full(table)
        /\ b \notin Erased(table) => Erased(table) \ {b} = Erased(table)
    BY Zenon
  <2>5. /\ Cardinality(Full(table)) + 0 = Cardinality(Full(table))
        /\ Cardinality(Erased(table)) - 0 = Cardinality(Erased(table))
    BY <2>1
  <2> QED BY <2>2, <2>3, <2>4, <2>5, Zenon
<1>5. /\ size(table) = Cardinality(Full(table)) /\ num_deleted = Cardinality(Erased(table))
      /\ size(table') = Cardinality(Full(table'))
  BY <1>3, Counters DEF Sound, IsTable
<1>6. /\ size(table') = size(table) + (IF b \in Full(table) THEN 0 ELSE 1)
      /\ Cardinality(Erased(table')) =
              num_deleted - (IF b \in Erased(table) THEN 1 ELSE 0)
  <2> HIDE DEF size
  <2> QED BY <1>3, <1>4, <1>5, Zenon
<1> QED
  BY <1>3, <1>6

\* operator[] of a key that is there changes its value and no other.
LEMMA OverwriteStep ==
  ASSUME Inv, Overwrite
  PROVE  /\ Inv'
         /\ \A x \in Keys : Lookup(table', x) = IF x = Key THEN call.value
                                                 ELSE Lookup(table, x)
<1>1. Key \in Keys /\ call.value \in Values
  BY Places DEF Inv, Control, Overwrite, Key
<1>2. PICK b \in Full(table) : /\ KeyOf(table, b) = Key
                               /\ table' = table_set(table, b, <<Key, call.value>>)
  BY <1>1, Position DEF Overwrite
<1>3. b \in Buckets(table)
  BY <1>2 DEF Full
<1>4. b \notin Erased(table)
  BY <1>2 DEF Full, Erased
<1>5. /\ Sound(hash, table') /\ table'.size = table.size
      /\ size(table') = size(table)
      /\ Cardinality(Erased(table')) = num_deleted
      /\ \A x \in Keys : Lookup(table', x) = IF x = Key THEN call.value
                                              ELSE Lookup(table, x)
  <2>1. PICK k \in Keys, v \in Values : k = Key /\ v = call.value
    BY <1>1
  <2> QED BY <1>2, <1>3, <1>4, <2>1, Storing, Counters
<1>6. Return(None) /\ UNCHANGED <<num_deleted, settings, hash>>
  BY DEF Overwrite, Return
<1>7. Tables'
  BY <1>5, <1>6 DEF Inv, Tables
<1>8. Control' /\ Pending' /\ RoomLeft' /\ Moving'
  BY <1>6, Returned
<1> QED
  BY <1>5, <1>7, <1>8 DEF Inv

\* operator[] of a key that is not there finds where it would go.
LEMMA IndexMissingStep ==
  ASSUME Inv, IndexMissing
  PROVE  Inv' /\ UNCHANGED <<table, call, result>>
<1>1. /\ pc = "index" /\ UNCHANGED <<table, num_deleted, settings, hash, callVars, result,
                                     rehashed, rehashVars>>
      /\ pc' \in {"shrink", "grow"}
      /\ slot' = _find_position(table, call.key)
  BY DEF IndexMissing, MakeRoom, Key
<1>2. call.op = "index" /\ call.key \in Keys
  BY <1>1, Places DEF Inv, Control, IndexMissing
<1>3. IsSlot(hash, table, call.key, slot')
  BY <1>1, <1>2, Position DEF IndexMissing, Key
<1>4. slot' \in [t: {"none", "empty", "erased"}, idx: Nat]
  <2>1. Buckets(table) \in SUBSET Nat
    BY DEF Buckets
  <2> QED BY <1>3, <2>1 DEF IsSlot
<1>5. ~rehashed
  BY <1>1, <1>2, Places DEF Inv, Control, IndexMissing
<1>6. Control'
  BY <1>1, <1>2, <1>4, <1>5, Places DEF Inv, Control, rehashVars, callVars
<1>7. Tables'
  BY <1>1, SameTable
<1>8. Pending'
  BY <1>1, <1>3 DEF Pending, IsSlot, callVars
<1>9. RoomLeft'
  BY <1>1, <1>5 DEF Inv, RoomLeft, callVars
<1>10. Moving'
  BY <1>1 DEF Inv, Moving, rehashVars
<1> QED
  BY <1>1, <1>6, <1>7, <1>8, <1>9, <1>10 DEF Inv, callVars

\* insert goes on to make room.
LEMMA InsertStep ==
  ASSUME Inv, Insert
  PROVE  Inv' /\ UNCHANGED <<table, call, result>>
<1>1. /\ pc = "insert" /\ UNCHANGED <<table, num_deleted, settings, hash, callVars, result,
                                      slot, rehashed, rehashVars>>
      /\ pc' \in {"shrink", "grow"}
  BY DEF Insert, MakeRoom
<1>2. call.op = "insert" /\ ~rehashed
  BY <1>1, Places DEF Inv, Control
<1>3. Control'
  BY <1>1, <1>2, Places DEF Inv, Control, rehashVars, callVars
<1>4. Tables'
  BY <1>1, SameTable
<1>5. Pending'
  BY <1>1, <1>2 DEF Pending, callVars
<1>6. RoomLeft'
  BY <1>1, <1>2 DEF Inv, RoomLeft, callVars
<1>7. Moving'
  BY <1>1 DEF Inv, Moving, rehashVars
<1> QED
  BY <1>1, <1>3, <1>4, <1>5, <1>6, <1>7 DEF Inv, callVars

\* resize goes on to make room.
LEMMA ResizeStep ==
  ASSUME Inv, Resize
  PROVE  Inv' /\ UNCHANGED <<table, call, result>>
<1>1. /\ pc = "resize" /\ UNCHANGED <<table, num_deleted, settings, hash, callVars, result,
                                      slot, rehashed, rehashVars>>
      /\ pc' \in {"shrink", "grow"}
  BY DEF Resize
<1>2. call.op = "resize" /\ ~rehashed
  BY <1>1, Places DEF Inv, Control
<1>3. Control'
  BY <1>1, <1>2, Places DEF Inv, Control, rehashVars, callVars
<1>4. Tables'
  BY <1>1, SameTable
<1>5. Pending'
  BY <1>1, <1>2 DEF Pending, callVars
<1>6. RoomLeft'
  BY <1>1, <1>2 DEF Inv, RoomLeft, callVars
<1>7. Moving'
  BY <1>1 DEF Inv, Moving, rehashVars
<1> QED
  BY <1>1, <1>3, <1>4, <1>5, <1>6, <1>7 DEF Inv, callVars

\* The table stays as large as it is.
LEMMA DontShrinkStep ==
  ASSUME Inv, DontShrink
  PROVE  Inv' /\ UNCHANGED <<table, call, result>>
<1>1. /\ pc = "shrink" /\ pc' = "grow"
      /\ UNCHANGED <<table, num_deleted, hash, callVars, result, slot, rehashed, rehashVars>>
      /\ settings' = [settings EXCEPT !.consider_shrink = FALSE]
  BY DEF DontShrink
<1>2. ~rehashed /\ call.op \in Reshaping
  BY <1>1, Places DEF Inv, Control
<1>3. Control'
  BY <1>1, <1>2, Places DEF Inv, Control, rehashVars, callVars
<1>4. Tables'
  <2>1. settings' = Thresholds(table'.size, FALSE)
    <3>1. PICK c \in BOOLEAN : settings = Thresholds(table.size, c)
      BY DEF Inv, Tables
    <3> QED BY <1>1, <3>1 DEF Thresholds
  <2>2. \E considered \in BOOLEAN : settings' = Thresholds(table'.size, considered)
    BY <2>1, Zenon
  <2> QED BY <1>1, <2>2 DEF Inv, Tables
<1>5. Pending'
  BY <1>1, <1>2 DEF Inv, Pending, callVars
<1>6. RoomLeft'
  BY <1>1, <1>2 DEF Inv, RoomLeft, callVars
<1>7. Moving'
  BY <1>1 DEF Inv, Moving, rehashVars
<1> QED
  BY <1>1, <1>3, <1>4, <1>5, <1>6, <1>7 DEF Inv, callVars

(* The threshold for growing is that of the table's size.                  *)
LEMMA Threshold ==
  ASSUME Inv
  PROVE  /\ settings.enlarge_threshold = enlarge_size(table.size)
         /\ settings.shrink_threshold = shrink_size(table.size)
         /\ settings.consider_shrink \in BOOLEAN
<1> QED
  BY DEF Inv, Tables, Thresholds

\* The table has room for what the call adds.
LEMMA DontGrowStep ==
  ASSUME Inv, DontGrow
  PROVE  Inv' /\ UNCHANGED <<table, call, result>>
<1>1. /\ pc = "grow" /\ pc' = "place"
      /\ UNCHANGED <<table, num_deleted, settings, hash, callVars, result, slot,
                     rehashed, rehashVars>>
  BY DEF DontGrow
<1>2. call.op \in Reshaping
  BY <1>1, Places DEF Inv, Control
<1>3. Control'
  BY <1>1, <1>2, Places DEF Inv, Control, rehashVars, callVars
<1>4. Tables'
  BY <1>1, SameTable
<1>5. Pending'
  BY <1>1, <1>2 DEF Inv, Pending, callVars
<1>6. RoomLeft'
  <2>1. call.op \in Adding => size(table) + num_deleted + 1 <= enlarge_size(table.size)
    BY Threshold DEF DontGrow, RoomEnough, Needed, Delta
  <2> QED BY <1>1, <2>1 DEF Inv, RoomLeft, callVars
<1>7. Moving'
  BY <1>1 DEF Inv, Moving, rehashVars
<1> QED
  BY <1>1, <1>3, <1>4, <1>5, <1>6, <1>7 DEF Inv, callVars

\* There are no erased buckets to drop.
LEMMA NothingToSquashStep ==
  ASSUME Inv, NothingToSquash
  PROVE  Inv' /\ UNCHANGED table /\ call.op = "squash"
<1>1. Return(None) /\ UNCHANGED <<table, num_deleted, settings>> /\ pc = "squash"
  BY DEF NothingToSquash
<1>2. Control' /\ Pending' /\ RoomLeft' /\ Moving'
  BY <1>1, Returned
<1>3. call.op = "squash"
  BY <1>1, Places DEF Inv, Control
<1> QED
  BY <1>1, <1>2, <1>3, SameTable DEF Inv, Return

\* A call that only reorganises the map returns.
LEMMA ReorganisedStep ==
  ASSUME Inv, Reorganised
  PROVE  Inv' /\ UNCHANGED table
<1>1. Return(None) /\ UNCHANGED <<table, num_deleted, settings>>
  BY DEF Reorganised
<1>2. Control' /\ Pending' /\ RoomLeft' /\ Moving'
  BY <1>1, Returned
<1> QED
  BY <1>1, <1>2, SameTable DEF Inv, Return

(* Where an item goes is found before, or again after a rehash.            *)
LEMMA TargetFound ==
  ASSUME Inv, Placing
  PROVE  /\ Key \in Keys /\ call.value \in Values
         /\ Target.t = "full" => call.op = "insert" /\ Stored(table, Key)
         /\ Target.t # "full" => IsSlot(hash, table, Key, Target)
<1>1. pc = "place" /\ call.op \in Adding
  BY DEF Placing
<1>2. Key \in Keys /\ call.value \in Values
  BY <1>1 DEF Inv, Control, Key
<1>3. CASE call.op = "index" /\ ~rehashed
  <2>1. Target = slot
    BY <1>3 DEF Target
  <2>2. IsSlot(hash, table, Key, slot)
    BY <1>1, <1>3 DEF Inv, Pending, Key
  <2>3. slot.t # "full"
    BY <2>2 DEF IsSlot
  <2> QED BY <1>2, <2>1, <2>2, <2>3
<1>4. CASE ~(call.op = "index" /\ ~rehashed)
  <2>1. Target = _find_position(table, Key)
    BY <1>4, Zenon DEF Target
  <2>2. call.op = "index" => ~Stored(table, Key)
    BY <1>1 DEF Inv, Pending, Key
  <2> QED BY <1>1, <1>2, <2>1, <2>2, Position
<1> QED
  BY <1>3, <1>4

\* insert of a key that is there.
LEMMA AlreadyThereStep ==
  ASSUME Inv, AlreadyThere
  PROVE  Inv' /\ UNCHANGED table /\ call.op = "insert" /\ Stored(table, Key)
<1>1. Return(FALSE) /\ UNCHANGED <<table, num_deleted, settings>>
  BY DEF AlreadyThere
<1>2. Control' /\ Pending' /\ RoomLeft' /\ Moving'
  BY <1>1, Returned
<1>3. call.op = "insert" /\ Stored(table, Key)
  BY TargetFound DEF AlreadyThere
<1> QED
  BY <1>1, <1>2, <1>3, SameTable DEF Inv, Return

\* A new item is placed.
LEMMA PlaceStep ==
  ASSUME Inv, Place
  PROVE  /\ Inv' /\ ~Stored(table, Key) /\ Key \in Keys
         /\ \A x \in Keys : Lookup(table', x) = IF x = Key THEN call.value
                                                 ELSE Lookup(table, x)
<1>1. PICK pos : pos = Target
  OBVIOUS
<1>2. /\ Placing /\ pos.t # "full"
      /\ table' = table_set(table, pos.idx, <<Key, call.value>>)
      /\ num_deleted' = num_deleted - (IF pos.t = "erased" THEN 1 ELSE 0)
      /\ UNCHANGED <<settings, hash>>
  BY <1>1 DEF Place, Return
<1>3. IsSlot(hash, table, Key, pos) /\ Key \in Keys /\ call.value \in Values
  BY <1>1, <1>2, TargetFound
<1>4. PICK b \in Buckets(table) : b = pos.idx
  BY <1>3 DEF IsSlot
<1>5. /\ b \notin Full(table) /\ Reaches(hash, table, Key, b) /\ ~Stored(table, Key)
      /\ pos.t = "erased" <=> b \in Erased(table)
  BY <1>3, <1>4 DEF IsSlot
<1>6. /\ Sound(hash, table') /\ table'.size = table.size
      /\ size(table') = size(table) + 1
      /\ Cardinality(Erased(table')) =
           num_deleted - (IF b \in Erased(table) THEN 1 ELSE 0)
      /\ \A x \in Keys : Lookup(table', x) = IF x = Key THEN call.value
                                              ELSE Lookup(table, x)
  <2>1. PICK k \in Keys, v \in Values : k = Key /\ v = call.value
    BY <1>3
  <2> QED BY <1>2, <1>4, <1>5, <2>1, Storing
<1>7. Tables'
  <2>1. num_deleted' = Cardinality(Erased(table')) /\ num_deleted' <= num_deleted
        /\ num_deleted' \in Int
    BY <1>2, <1>5, <1>6, Counters
  <2>2. /\ size(table) + num_deleted + 1 <= enlarge_size(table.size)
        /\ size(table) + num_deleted + 1 < enlarge_size(Largest)
    BY <1>2 DEF Placing, Inv, RoomLeft
  <2>3. /\ size(table') + num_deleted' <= enlarge_size(table'.size)
        /\ size(table') + num_deleted' < enlarge_size(Largest)
    BY <1>6, <2>1, <2>2, Counters
  <2> QED BY <1>2, <1>6, <2>1, <2>3 DEF Inv, Tables
<1>8. PICK r \in Values \cup BOOLEAN \cup {None} : Return(r)
  BY DEF Place
<1>9. Control' /\ Pending' /\ RoomLeft' /\ Moving'
  BY <1>8, Returned
<1> QED
  BY <1>3, <1>5, <1>6, <1>7, <1>9 DEF Inv

(* A rehash starts with a new table that has room for the items.           *)
LEMMA RehashStep ==
  ASSUME Inv, NEW buckets \in BucketCounts, NEW then \in {"grow", "place"},
         Rehash(buckets, then), call.op \in Reorganising,
         call.op = "index" => pc \in Inner,
         size(table) <= enlarge_size(buckets),
         then = "grow" => call.op \in Reshaping /\ size(table) < enlarge_size(buckets),
         then = "place" /\ call.op \in Adding => size(table) + 1 <= enlarge_size(buckets)
  PROVE  Inv' /\ UNCHANGED <<table, call, result>>
<1>1. /\ pc' = "move" /\ tmp' = Table(buckets) /\ it' = 0 /\ resume' = then
      /\ rehashed' = TRUE
      /\ UNCHANGED <<table, num_deleted, settings, hash, callVars, result, slot>>
  BY DEF Rehash
<1>2. Control'
  BY <1>1, Places DEF Inv, Control, callVars
<1>3. Tables'
  BY <1>1, SameTable
<1>4. Pending'
  BY <1>1 DEF Inv, Pending, callVars
<1>5. RoomLeft'
  BY <1>1 DEF Inv, RoomLeft, callVars
<1>6. Moved(hash, table, Table(buckets), 0)
  <2>1. hash \in [Keys -> Nat] /\ IsTable(table, Item)
    BY DEF Inv, Tables, Sound
  <2>2. Past(table, 0) = {}
    <3>1. \A b \in Full(table) : b \in 0..(table.size - 1) /\ table.size \in Nat
      BY <2>1 DEF Full, Buckets, IsTable
    <3>2. \A b \in Full(table) : ~(b < 0)
      BY <3>1
    <3> QED BY <3>2 DEF Past
  <2>3. Cardinality(Full(Table(buckets))) = Cardinality(Past(table, 0))
    BY <2>1, <2>2, NewOfSize
  <2> QED BY <2>1, <2>2, <2>3, NewOfSize DEF Moved
<1>7. Moving'
  <2>1. tmp'.size = buckets
    BY <1>1, NewOfSize, Counters
  <2>2. Moved(hash', table', tmp', it')
    BY <1>1, <1>6
  <2>3. it' \in 0..Largest /\ it' <= table'.size
    BY <1>1, SizesExist, Counters
  <2> QED BY <1>1, <2>1, <2>2, <2>3 DEF Moving, callVars
<1> QED
  BY <1>1, <1>2, <1>3, <1>4, <1>5, <1>7 DEF Inv, callVars

\* A rehash into a smaller table.
LEMMA ShrinkStep ==
  ASSUME Inv, Shrink
  PROVE  Inv' /\ UNCHANGED <<table, call, result>>
<1>1. pc = "shrink" /\ Shrinkable
  BY DEF Shrink
<1>2. call.op \in Reshaping
  BY <1>1 DEF Inv, Control
<1>3. PICK w \in Nat : w = ShrunkSize /\ w <= Largest
  BY <1>1, ShrunkSizeType DEF Inv, Tables, Shrinkable
<1>4. PICK n \in Nat : n = size(table) /\ n < enlarge_size(Largest)
  BY Counters DEF Inv, Tables
<1>5. PICK sz \in BucketCounts : sz = min_buckets(n, w) /\ n < enlarge_size(sz)
  BY <1>3, <1>4, MinBuckets
<1>6. Rehash(sz, "grow")
  BY <1>3, <1>4, <1>5 DEF Shrink
<1>7. size(table) <= enlarge_size(sz) /\ size(table) < enlarge_size(sz)
  BY <1>4, <1>5, BucketCountType
<1> QED
  BY <1>1, <1>2, <1>6, <1>7, RehashStep

\* A rehash into a larger table.
LEMMA GrowStep ==
  ASSUME Inv, Grow
  PROVE  Inv' /\ UNCHANGED <<table, call, result>>
<1>1. pc = "grow" /\ ~RoomEnough
  BY DEF Grow
<1>2. call.op \in Reshaping /\ req_elements \in Nat
  BY <1>1, RequestsAssumption DEF Inv, Control
<1>3. PICK n \in Nat : /\ n = Needed /\ n < enlarge_size(Largest)
                       /\ size(table) <= n
                       /\ call.op \in Adding => size(table) + 1 <= n
  <2>1. CASE call.op = "resize"
    <3>1. Delta = req_elements - size(table) /\ Delta > 0
      BY <1>1, <1>2, <2>1, Counters DEF RoomEnough, Delta
    <3>2. size(table) + num_deleted + req_elements < enlarge_size(Largest)
      BY <2>1 DEF Inv, RoomLeft
    <3> QED BY <1>2, <2>1, <3>1, <3>2, Counters DEF Needed
  <2>2. CASE call.op # "resize"
    <3>1. Delta = 1 /\ size(table) + num_deleted + 1 < enlarge_size(Largest)
      BY <1>2, <2>2 DEF Inv, RoomLeft, Delta
    <3> QED BY <3>1, Counters DEF Needed
  <2> QED BY <2>1, <2>2
<1>4. PICK w \in Nat : w = table.size /\ w <= Largest
  BY Counters
<1>5. PICK sz \in BucketCounts : sz = min_buckets(n, w) /\ n < enlarge_size(sz)
  BY <1>3, <1>4, MinBuckets
<1>6. Rehash(sz, "place")
  BY <1>3, <1>4, <1>5 DEF Grow
<1>7. /\ size(table) <= enlarge_size(sz)
      /\ call.op \in Adding => size(table) + 1 <= enlarge_size(sz)
  BY <1>3, <1>5, Counters, BucketCountType
<1> QED
  BY <1>1, <1>2, <1>6, <1>7, RehashStep

\* A rehash that drops the erased buckets.
LEMMA SquashStep ==
  ASSUME Inv, Squash
  PROVE  Inv' /\ UNCHANGED <<table, call, result>>
<1>1. call.op = "squash"
  BY Places DEF Inv, Control, Squash
<1>2. table.size \in BucketCounts /\ table.size \in Nat
  BY Counters DEF Inv, Tables
<1>3. PICK sz \in BucketCounts : Rehash(sz, "place") /\ table.size <= sz
  <2>1. HT_DEFAULT_STARTING_BUCKETS \in BucketCounts /\ HT_DEFAULT_STARTING_BUCKETS \in Nat
    BY SizesExist, BucketCountType
  <2>2. CASE table.size > HT_DEFAULT_STARTING_BUCKETS
    BY <1>2, <2>2 DEF Squash
  <2>3. CASE ~(table.size > HT_DEFAULT_STARTING_BUCKETS)
    BY <1>2, <2>1, <2>3 DEF Squash
  <2> QED BY <2>2, <2>3
<1>4. size(table) <= enlarge_size(sz)
  <2>1. size(table) <= enlarge_size(table.size)
    BY Counters DEF Inv, Tables
  <2>2. enlarge_size(table.size) <= enlarge_size(sz)
    BY <1>2, <1>3, ThresholdGrows
  <2> QED BY <2>1, <2>2, Counters, BucketCountType
<1> QED
  BY <1>1, <1>3, <1>4, RehashStep

\* A rehash into the copy.
LEMMA CopyStep ==
  ASSUME Inv, Copy
  PROVE  Inv' /\ UNCHANGED <<table, call, result>>
<1>1. call.op = "copy"
  BY Places DEF Inv, Control, Copy
<1>2. PICK n \in Nat : n = size(table) /\ n < enlarge_size(Largest)
  BY Counters DEF Inv, Tables
<1>3. PICK w \in Nat : w = HT_DEFAULT_STARTING_BUCKETS /\ w <= Largest
  BY SizesExist, BucketCountType
<1>4. PICK sz \in BucketCounts : sz = min_buckets(n, w) /\ n < enlarge_size(sz)
  BY <1>2, <1>3, MinBuckets
<1>5. Rehash(sz, "place") /\ size(table) <= enlarge_size(sz)
  BY <1>2, <1>3, <1>4, BucketCountType DEF Copy
<1> QED
  BY <1>1, <1>5, RehashStep

(* Moving an item puts it where a search for its key comes to.             *)
LEMMA MovedOn ==
  ASSUME Inv, Move
  PROVE  /\ Moved(hash, table, tmp', it') /\ it' \in 0..table.size
         /\ tmp'.size = tmp.size
<1>0. PICK from \in Ahead :
        /\ \A b \in Ahead : from <= b
        /\ HasRoom(KeyAt(from))
        /\ tmp' = table_set(tmp, Room(KeyAt(from)), unsafe_get(table, from))
        /\ it' = from + 1
  BY DEF Move
<1>1. PICK to : /\ \A b \in Ahead : from <= b
                /\ HasRoom(KeyAt(from)) /\ to = Room(KeyAt(from))
                /\ tmp' = table_set(tmp, to, unsafe_get(table, from))
                /\ it' = from + 1
  BY <1>0
<1>2. pc = "move" /\ Moved(hash, table, tmp, it) /\ it \in Nat
  BY SizesExist DEF Inv, Moving, Move
<1>3. /\ Sound(hash, table) /\ IsTable(table, Item)
      /\ Sound(hash, tmp) /\ IsTable(tmp, Item) /\ hash \in [Keys -> Nat]
  BY <1>2 DEF Inv, Tables, Sound, Moved
<1>4. from \in Full(table) /\ from \in Buckets(table) /\ from \in Nat /\ from >= it
  BY <1>1, <1>3, TableType DEF Ahead, Full
<1>5. PICK k \in Keys, v \in Values : /\ unsafe_get(table, from) = <<k, v>>
                                      /\ KeyOf(table, from) = k /\ KeyAt(from) = k
  <2>1. unsafe_get(table, from) \in Keys \X Values
    BY <1>3, <1>4, TableType DEF Item
  <2> QED BY <2>1 DEF KeyOf, KeyAt
<1>6. ~Stored(tmp, k)
  <2>1. ~ \E b \in Past(table, it) : KeyOf(table, b) = k
    <3>1. SUFFICES ASSUME NEW b \in Past(table, it), KeyOf(table, b) = k PROVE FALSE
      OBVIOUS
    <3>2. b \in Full(table) /\ b < it
      BY <3>1 DEF Past
    <3>3. b = from
      BY <1>3, <1>4, <1>5, <3>1, <3>2 DEF Sound, FoundIn
    <3> QED BY <1>2, <1>4, <3>2, <3>3
  <2>2. Lookup(tmp, k) = None
    BY <1>2, <2>1 DEF Moved
  <2> QED BY <1>3, <2>2, Absent
<1>7. PICK d \in Nat : tmp.size = 2^d
  BY <1>3 DEF Sound
<1>8. PICK m \in 0..(tmp.size - 1) :
        /\ Free(k, m) /\ to = At(hash, tmp, k, m)
        /\ \A n \in 0..(m - 1) : ~Free(k, n)
  <2> DEFINE S == {n \in 0..(tmp.size - 1) : Free(k, n)}
  <2>1. tmp.size \in Nat
    BY <1>3 DEF IsTable
  <2>2. S # {} /\ S \in SUBSET Nat
    BY <1>1, <1>5, <2>1 DEF HasRoom
  <2>3. PICK m : m = Min(S) /\ m \in S /\ \A n \in S : m <= n
    <3> HIDE DEF S
    <3> QED BY <2>2, LeastOf
  <2>4. to = At(hash, tmp, k, m)
    BY <1>1, <1>5, <2>3 DEF Room, Probe, At
  <2>5. ASSUME NEW n \in 0..(m - 1) PROVE ~Free(k, n)
    <3>1. n \in 0..(tmp.size - 1) /\ ~(m <= n)
      BY <2>1, <2>3
    <3> QED BY <2>3, <3>1
  <2> QED BY <2>3, <2>4, <2>5
<1>9. /\ to \in Buckets(tmp) /\ to \notin Full(tmp)
  <2>1. to \in Buckets(tmp)
    BY <1>3, <1>7, <1>8, AtBucket
  <2>2. ~test(tmp, to)
    BY <1>8 DEF Free, Probe, At
  <2> QED BY <2>1, <2>2 DEF Full
<1>10. Reaches(hash, tmp, k, to)
  <2>1. ASSUME NEW n \in 0..(m - 1) PROVE test_strict(tmp, At(hash, tmp, k, n))
    <3>1. ~Free(k, n)
      BY <1>8
    <3> QED BY <3>1 DEF Free, Probe, At, test, test_strict
  <2> QED BY <1>8, <2>1 DEF Reaches
<1>11. /\ Sound(hash, tmp') /\ tmp'.size = tmp.size
       /\ Full(tmp') = Full(tmp) \cup {to} /\ Erased(tmp') = Erased(tmp) \ {to}
       /\ \A x \in Keys : Lookup(tmp', x) = IF x = k THEN v ELSE Lookup(tmp, x)
  <2>1. tmp' = table_set(tmp, to, <<k, v>>)
    BY <1>1, <1>5
  <2>2. \A c \in Full(tmp) : KeyOf(tmp, c) = k => c = to
    BY <1>6 DEF Stored
  <2>3. PICK h, t, u : h = hash /\ t = tmp /\ u = tmp'
    OBVIOUS
  <2> QED BY <1>3, <1>9, <1>10, <2>1, <2>2, <2>3, StoreItem
<1>12. Past(table, from + 1) = Past(table, it) \cup {from} /\ from \notin Past(table, it)
  <2>1. ASSUME NEW b \in Full(table) PROVE b < from + 1 <=> b < it \/ b = from
    <3>1. b \in Nat
      BY <1>3, TableType DEF Full
    <3>2. b >= it => from <= b
      BY <1>1 DEF Ahead
    <3> QED BY <1>2, <1>4, <3>1, <3>2
  <2>2. ~(from < it)
    BY <1>2, <1>4
  <2> QED BY <1>4, <2>1, <2>2 DEF Past
<1>13. Cardinality(Full(tmp')) = Cardinality(Past(table, from + 1))
  <2>1. IsFiniteSet(Full(tmp)) /\ IsFiniteSet(Past(table, it))
    <3>1. IsFiniteSet(Full(table)) /\ Past(table, it) \subseteq Full(table)
      BY Counters DEF Past
    <3> QED BY <1>3, <3>1, TableType, FS_Subset
  <2>2. Cardinality(Full(tmp) \cup {to}) = Cardinality(Full(tmp)) + 1
    BY <1>9, <2>1, FS_AddElement
  <2>3. Cardinality(Past(table, it) \cup {from}) = Cardinality(Past(table, it)) + 1
    BY <1>12, <2>1, FS_AddElement
  <2>4. Cardinality(Full(tmp)) = Cardinality(Past(table, it))
    BY <1>2 DEF Moved
  <2> QED BY <1>11, <1>12, <2>2, <2>3, <2>4, Zenon
<1>14. ASSUME NEW x \in Keys
       PROVE  Lookup(tmp', x) = IF \E b \in Past(table, from + 1) : KeyOf(table, b) = x
                                THEN Lookup(table, x) ELSE None
  <2>1. CASE x = k
    <3>1. Lookup(table, k) = v
      BY <1>3, <1>4, <1>5, LookedUp
    <3>2. \E b \in Past(table, from + 1) : KeyOf(table, b) = x
      BY <1>5, <1>12, <2>1
    <3> QED BY <1>11, <2>1, <3>1, <3>2
  <2>2. CASE x # k
    <3>1. (\E b \in Past(table, from + 1) : KeyOf(table, b) = x)
            <=> \E b \in Past(table, it) : KeyOf(table, b) = x
      BY <1>5, <1>12, <2>2
    <3>2. Lookup(tmp, x) = IF \E b \in Past(table, it) : KeyOf(table, b) = x
                           THEN Lookup(table, x) ELSE None
      BY <1>2 DEF Moved
    <3> QED BY <1>11, <2>2, <3>1, <3>2
  <2> QED BY <2>1, <2>2
<1>15. Erased(tmp') = {}
  BY <1>2, <1>11 DEF Moved
<1>16. from + 1 \in 0..table.size
  BY <1>4, Counters DEF Buckets
<1> QED
  BY <1>1, <1>11, <1>13, <1>14, <1>15, <1>16 DEF Moved

\* A rehash moves one item.
LEMMA MoveStep ==
  ASSUME Inv, Move
  PROVE  Inv' /\ UNCHANGED <<table, call, result>>
<1>1. /\ pc = "move"
      /\ UNCHANGED <<table, num_deleted, settings, hash, pc, callVars, result, slot,
                     rehashed, resume>>
  BY DEF Move
<1>2. Control'
  BY <1>1 DEF Inv, Control, callVars
<1>3. Tables'
  BY <1>1, SameTable
<1>4. Pending'
  BY <1>1 DEF Inv, Pending, callVars
<1>5. RoomLeft'
  BY <1>1 DEF Inv, RoomLeft, callVars
<1>6. Moving'
  <2>1. Moved(hash', table', tmp', it') /\ tmp'.size = tmp.size
    BY <1>1, MovedOn
  <2>2. it' \in 0..Largest /\ it' <= table'.size
    BY <1>1, MovedOn, Counters, SizesExist
  <2> QED BY <1>1, <2>1, <2>2 DEF Inv, Moving, callVars
<1> QED
  BY <1>1, <1>2, <1>3, <1>4, <1>5, <1>6 DEF Inv, callVars

(* The table that takes the place of the old one holds the same items.     *)
LEMMA SwapStep ==
  ASSUME Inv, Swap
  PROVE  /\ Inv' /\ UNCHANGED <<call, result>>
         /\ \A k \in Keys : Lookup(table', k) = Lookup(table, k)
<1>1. /\ pc = "move" /\ Ahead = {} /\ table' = tmp /\ num_deleted' = 0
      /\ settings' = reset_thresholds(tmp.size) /\ pc' = resume /\ tmp' = Table(0)
      /\ UNCHANGED <<hash, callVars, result, slot, rehashed, it, resume>>
  BY DEF Swap, DroppedDeleted
<1>2. /\ rehashed /\ Moved(hash, table, tmp, it) /\ tmp.size \in BucketCounts
      /\ size(table) <= enlarge_size(tmp.size)
      /\ resume \in {"grow", "place"}
      /\ resume = "grow" =>
           call.op \in Reshaping /\ size(table) < enlarge_size(tmp.size)
      /\ resume = "place" /\ call.op \in Adding => size(table) + 1 <= enlarge_size(tmp.size)
  BY <1>1 DEF Inv, Moving
<1>3. Past(table, it) = Full(table)
  <2>1. it \in Nat
    BY SizesExist DEF Inv, Moving
  <2>2. ASSUME NEW b \in Full(table) PROVE b < it
    <3>1. b \in Nat
      BY TableType DEF Inv, Tables, Sound, Full
    <3> QED BY <1>1, <2>1, <3>1 DEF Ahead
  <2> QED BY <2>2 DEF Past
<1>4. ASSUME NEW k \in Keys PROVE Lookup(tmp, k) = Lookup(table, k)
  <2>1. Lookup(tmp, k) = IF \E b \in Full(table) : KeyOf(table, b) = k
                         THEN Lookup(table, k) ELSE None
    BY <1>2, <1>3 DEF Moved
  <2> QED BY <2>1 DEF Lookup, Stored
<1>5. /\ Sound(hash, table') /\ table'.size \in BucketCounts
      /\ size(table') = size(table) /\ Cardinality(Erased(table')) = 0
  <2>1. Sound(hash, tmp) /\ Erased(tmp) = {}
    BY <1>2 DEF Moved
  <2>2. tmp.num_buckets = Cardinality(Full(tmp))
    BY <2>1 DEF Sound, IsTable
  <2>3. Cardinality(Full(tmp)) = Cardinality(Full(table))
    BY <1>2, <1>3 DEF Moved
  <2>4. size(table) = Cardinality(Full(table)) /\ Cardinality({}) = 0
    BY Counters, FS_EmptySet
  <2> QED BY <1>1, <1>2, <2>1, <2>2, <2>3, <2>4
<1>6. Control'
  <2>1. call.op \in Reorganising
    BY <1>1 DEF Inv, Control
  <2> QED BY <1>1, <1>2, <2>1, Places DEF Inv, Control, callVars
<1>7. Tables'
  <2>1. settings' = Thresholds(table'.size, FALSE)
    BY <1>1 DEF reset_thresholds, Thresholds
  <2>2. \E considered \in BOOLEAN : settings' = Thresholds(table'.size, considered)
    BY <2>1, Zenon
  <2>3. size(table) < enlarge_size(Largest)
    BY Counters DEF Inv, Tables
  <2>4. /\ size(table') + num_deleted' <= enlarge_size(table'.size)
        /\ size(table') + num_deleted' < enlarge_size(Largest)
    BY <1>1, <1>2, <1>5, <2>3, Counters
  <2> QED BY <1>1, <1>5, <2>2, <2>4 DEF Tables
<1>8. Pending'
  <2>1. call.op = "index" => ~Stored(table, call.key) /\ call.key \in Keys
    BY <1>1 DEF Inv, Pending, Control
  <2>2. call.op = "index" => ~Stored(table', call.key)
    <3>1. ASSUME call.op = "index" PROVE ~Stored(table', call.key)
      <4>1. PICK k \in Keys : k = call.key /\ ~Stored(table, k)
        BY <2>1, <3>1
      <4>2. Lookup(table', k) = None
        BY <1>1, <1>4, <4>1 DEF Lookup
      <4> QED BY <1>5, <4>1, <4>2, Absent
    <3> QED BY <3>1
  <2> QED BY <1>1, <1>2, <2>2 DEF Pending, callVars
<1>9. RoomLeft'
  <2>1. /\ call.op \in Adding => size(table) + num_deleted + 1 < enlarge_size(Largest)
        /\ call.op = "resize" =>
             size(table) + num_deleted + req_elements < enlarge_size(Largest)
    BY DEF Inv, RoomLeft
  <2>2. req_elements \in Nat
    <3>1. req_elements \in Requests \cup {0}
      BY DEF Inv, Control
    <3> QED BY <3>1, RequestsAssumption
  <2>3. /\ call.op \in Adding => size(table) + 0 + 1 < enlarge_size(Largest)
        /\ call.op = "resize" => size(table) + 0 + req_elements < enlarge_size(Largest)
    BY <2>1, <2>2, Counters
  <2>4. size(table) + 0 = size(table)
    BY Counters
  <2> QED BY <1>1, <1>2, <1>5, <2>3, <2>4 DEF RoomLeft, callVars
<1>10. Moving'
  BY <1>1, <1>2 DEF Inv, Moving
<1> QED
  BY <1>1, <1>4, <1>6, <1>7, <1>8, <1>9, <1>10 DEF Inv, callVars

(***************************************************************************)
(* The properties.                                                         *)
(***************************************************************************)

\* Every step keeps the invariant.
LEMMA NextStep ==
  ASSUME Inv, [Next]_vars
  PROVE  Inv'
<1>1. CASE Find
  BY <1>1, FindStep
<1>2. CASE EraseMissing
  BY <1>2, EraseMissingStep
<1>3. CASE Erase
  BY <1>3, EraseStep
<1>4. CASE Clear
  BY <1>4, ClearStep
<1>5. CASE Overwrite
  BY <1>5, OverwriteStep
<1>6. CASE IndexMissing
  BY <1>6, IndexMissingStep
<1>7. CASE Insert
  BY <1>7, InsertStep
<1>8. CASE Resize
  BY <1>8, ResizeStep
<1>9. CASE Shrink
  BY <1>9, ShrinkStep
<1>10. CASE DontShrink
  BY <1>10, DontShrinkStep
<1>11. CASE Grow
  BY <1>11, GrowStep
<1>12. CASE DontGrow
  BY <1>12, DontGrowStep
<1>13. CASE Squash
  BY <1>13, SquashStep
<1>14. CASE NothingToSquash
  BY <1>14, NothingToSquashStep
<1>15. CASE Copy
  BY <1>15, CopyStep
<1>16. CASE Move
  BY <1>16, MoveStep
<1>17. CASE Swap
  BY <1>17, SwapStep
<1>18. CASE Place
  BY <1>18, PlaceStep
<1>19. CASE AlreadyThere
  BY <1>19, AlreadyThereStep
<1>20. CASE Reorganised
  BY <1>20, ReorganisedStep
<1>21. ASSUME NEW op \in Calls, Call(op) PROVE Inv'
  BY <1>21, CallStep
<1>22. CASE UNCHANGED vars
  BY <1>22 DEF vars, callVars, rehashVars, Inv, Control, Tables, Pending, RoomLeft, Moving
<1> QED
  BY <1>1, <1>2, <1>3, <1>4, <1>5, <1>6, <1>7, <1>8, <1>9, <1>10, <1>11, <1>12, <1>13,
     <1>14, <1>15, <1>16, <1>17, <1>18, <1>19, <1>20, <1>21, <1>22 DEF Next, Run

\* So it always holds.
LEMMA Invariant == Spec => []Inv
<1>1. Init => Inv
  BY InitStep
<1>2. Inv /\ [Next]_vars => Inv'
  BY NextStep
<1> QED
  BY <1>1, <1>2, PTL DEF Spec

(* A table of the invariant is of the type the runs check, and its groups  *)
(* are packed.                                                             *)
LEMMA TableIsOK ==
  ASSUME NEW t, IsTable(t, Item)
  PROVE  /\ TableOK(t)
         /\ \A k \in DOMAIN t.groups : Packed(t.groups[k])
<1>1. /\ DOMAIN t.groups = 0..(num_groups(t.size) - 1)
      /\ \A k \in DOMAIN t.groups : IsGroup(t.groups[k], Item)
  <2>1. PICK f, n : f = t.groups /\ n = num_groups(t.size) - 1
    OBVIOUS
  <2>2. f = [k \in 0..n |-> f[k]] /\ \A k \in 0..n : IsGroup(f[k], Item)
    BY <2>1 DEF IsTable
  <2>3. DOMAIN f = 0..n
    BY <2>2
  <2> QED BY <2>1, <2>2, <2>3
<1>2. ASSUME NEW k \in DOMAIN t.groups
      PROVE  GroupOK(t.groups[k]) /\ Packed(t.groups[k])
  <2>1. PICK g : g = t.groups[k] /\ IsGroup(g, Item)
    BY <1>1
  <2>2. /\ g.bitmap \in SUBSET Positions /\ g.erased \in SUBSET Positions
        /\ g.items \in Seq(Item) /\ num_items(g) = Cardinality(g.bitmap)
        /\ num_items(g) \in 0..GroupSize /\ g.alloc \in num_items(g)..GroupSize
        /\ \A pos \in g.bitmap :
              offset_to_pos(g.bitmap, pos_to_offset(g.bitmap, pos)) = pos
    BY <2>1, GroupType
  <2>3. GroupSize \in Nat
    BY GroupSizeAssumption
  <2>4. num_items(g) <= g.alloc /\ g.alloc \in 0..GroupSize
    BY <2>2, <2>3
  <2>5. g.bitmap \cap g.erased = {}
    BY <2>1 DEF IsGroup
  <2> QED BY <2>1, <2>2, <2>4, <2>5 DEF GroupOK, Packed
<1>3. t.num_buckets \in 0..t.size
  <2>1. /\ t.size \in Nat /\ t.num_buckets \in Nat /\ t.num_buckets = Cardinality(Full(t))
        /\ Cardinality(Full(t)) + Cardinality(Erased(t)) <= t.size
        /\ Cardinality(Erased(t)) \in Nat
    BY TableType DEF IsTable
  <2> QED BY <2>1
<1> QED
  BY <1>1, <1>2, <1>3 DEF TableOK

\* The table a rehash fills.
LEMMA TmpIsTable ==
  ASSUME Inv
  PROVE  IsTable(tmp, Item) /\ tmp.size \in BucketCounts \cup {0}
<1>1. CASE pc = "move"
  BY <1>1 DEF Inv, Moving, Moved, Sound
<1>2. CASE pc # "move"
  <2>1. tmp = Table(0)
    BY <1>2 DEF Inv, Control
  <2> QED BY <2>1, NewTable
<1> QED
  BY <1>1, <1>2

(* Type correctness.                                                       *)
THEOREM Typed == Spec => []TypeOK
<1>1. ASSUME Inv PROVE TypeOK
  <2>1. TableOK(table) /\ TableOK(tmp)
    BY <1>1, TmpIsTable, TableIsOK DEF Inv, Tables, Sound
  <2>2. table.size \in BucketCounts /\ tmp.size \in BucketCounts \cup {0}
    BY <1>1, TmpIsTable DEF Inv, Tables
  <2>3. num_deleted \in 0..table.size
    BY <1>1, Counters
  <2>4. settings \in [enlarge_threshold: Nat, shrink_threshold: Nat,
                      consider_shrink: BOOLEAN]
    <3>1. PICK c \in BOOLEAN : settings = Thresholds(table.size, c)
      BY <1>1 DEF Inv, Tables
    <3>2. enlarge_size(table.size) \in Nat /\ shrink_size(table.size) \in Nat
      BY <2>2, BucketCountType
    <3> QED BY <3>1, <3>2 DEF Thresholds
  <2>5. it \in 0..(HT_MIN_BUCKETS * 2^MaxDoublings)
    BY <1>1 DEF Inv, Moving, Largest
  <2>6. slot \in [t: {"none", "empty", "erased"}, idx: Buckets(table) \cup Nat]
    BY <1>1 DEF Inv, Control
  <2> QED BY <1>1, <2>1, <2>2, <2>3, <2>4, <2>5, <2>6 DEF TypeOK, Inv, Control
<1> QED
  BY <1>1, Invariant, PTL

\* num_deleted and num_buckets agree with the bitmaps, and the table is never more than
\* half occupied.
THEOREM Counted == Spec => []ErasedCounted
<1>1. ASSUME Inv PROVE ErasedCounted
  BY <1>1, Counters, Threshold DEF ErasedCounted, Inv, Tables
<1> QED
  BY <1>1, Invariant, PTL

\* Every item is where a search for its key finds it, and only there.
THEOREM Found == Spec => []StoredKeysFound
<1>1. ASSUME Inv PROVE StoredKeysFound
  BY <1>1 DEF Inv, Tables, Sound, FoundIn, Reaches, StoredKeysFound, KeyOf, Probe, At
<1> QED
  BY <1>1, Invariant, PTL

\* The array of every group holds the items of its bitmap, in order.
THEOREM AllPacked == Spec => []GroupsPacked
<1>1. ASSUME Inv PROVE GroupsPacked
  <2>1. IsTable(table, Item) /\ IsTable(tmp, Item)
    BY <1>1, TmpIsTable DEF Inv, Tables, Sound
  <2> QED BY <2>1, TableIsOK DEF GroupsPacked
<1> QED
  BY <1>1, Invariant, PTL

\* The assertions of the code hold: no search or rehash runs out of buckets, and no
\* erased bucket is taken that was not counted.
THEOREM Asserted == Spec => []AssertionsHold
<1>1. ASSUME Inv PROVE AssertionsHold
  <2>1. ASSUME Searching PROVE Ends(table, Key)
    <3>1. Key \in Keys
      BY <1>1, <2>1, Places DEF Searching, Inv, Control, Key
    <3> QED BY <1>1, <3>1, Ending
  <2>2. ASSUME pc = "move", NEW b \in Ahead PROVE HasRoom(KeyAt(b))
    <3>1. /\ Sound(hash, tmp) /\ Erased(tmp) = {} /\ tmp.size \in BucketCounts
          /\ Cardinality(Full(tmp)) = Cardinality(Past(table, it))
          /\ size(table) <= enlarge_size(tmp.size)
      BY <1>1, <2>2 DEF Inv, Moving, Moved
    <3>2. KeyAt(b) \in Keys
      BY <1>1, LookedUp DEF Inv, Tables, Ahead, KeyAt, KeyOf
    <3>3. Cardinality(Past(table, it)) <= Cardinality(Full(table))
          /\ Cardinality(Past(table, it)) \in Nat
      <4>1. Past(table, it) \subseteq Full(table) /\ IsFiniteSet(Full(table))
        BY <1>1, Counters DEF Past
      <4> QED BY <4>1, FS_Subset, FS_CardinalityType
    <3>4. /\ tmp.size \in Nat /\ tmp.size > 0
          /\ 2 * enlarge_size(tmp.size) = tmp.size /\ enlarge_size(tmp.size) \in Nat
      BY <3>1, BucketCountType, BucketsAssumption
    <3>5. Cardinality(Erased(tmp)) = 0
      BY <3>1, FS_EmptySet
    <3>6. Cardinality(Full(tmp)) + Cardinality(Erased(tmp)) < tmp.size
      BY <1>1, <3>1, <3>3, <3>4, <3>5, Counters
    <3>7. PICK n \in 0..(tmp.size - 1) : ~test_strict(tmp, At(hash, tmp, KeyAt(b), n))
      BY <3>1, <3>2, <3>6, SearchEnds
    <3> QED BY <3>7 DEF HasRoom, Free, Probe, At, test, test_strict
  <2>3. ASSUME Placing, Target.t = "erased" PROVE num_deleted > 0
    <3>1. IsSlot(hash, table, Key, Target)
      BY <1>1, <2>3, TargetFound
    <3>2. Erased(table) # {}
      BY <2>3, <3>1 DEF IsSlot
    <3>3. Cardinality(Erased(table)) # 0
      BY <1>1, <3>2, Counters, FS_EmptySet
    <3> QED BY <1>1, <3>3, Counters
  <2> QED BY <2>1, <2>2, <2>3 DEF AssertionsHold
<1> QED
  BY <1>1, Invariant, PTL

\* An insertion that has shrunk the table has room, so it rehashes once.
THEOREM OneRehash == Spec => []RehashOnce
<1>1. ASSUME Inv PROVE RehashOnce
  <2>1. SUFFICES ASSUME pc = "grow", call.op \in Adding, rehashed PROVE RoomEnough
    BY DEF RehashOnce
  <2>2. num_deleted = 0 /\ size(table) < enlarge_size(table.size)
    BY <1>1, <2>1 DEF Inv, RoomLeft
  <2>3. Delta = 1
    BY <2>1 DEF Delta
  <2>4. Needed <= settings.enlarge_threshold
    BY <1>1, <2>2, <2>3, Counters, Threshold DEF Needed
  <2>5. table.size >= HT_MIN_BUCKETS
    BY <1>1, BucketCountType DEF Inv, Tables
  <2> QED BY <2>4, <2>5 DEF RoomEnough
<1> QED
  BY <1>1, Invariant, PTL

(* Every step of a call brings it nearer to its end: to a later place, or,  *)
(* while it moves items, to a later bucket of the table it moves them from. *)
THEOREM Advancing == Spec => CallsAdvance
<1>1. ASSUME Inv, [Next]_vars, pc # "idle"
      PROVE  \/ Distance' < Distance
             \/ Distance' = Distance /\ table' = table /\ it < it' /\ it' <= table.size
             \/ UNCHANGED vars
  <2> USE DEF Distance, Before
  <2>1. ASSUME pc' = "idle" PROVE Distance' < Distance
    BY <1>1, <2>1
  <2>2. CASE Find \/ EraseMissing \/ Erase \/ Clear \/ Overwrite \/ NothingToSquash
             \/ Place \/ AlreadyThere \/ Reorganised
    BY <2>1, <2>2 DEF Find, EraseMissing, Erase, Clear, Overwrite, NothingToSquash,
                      Place, AlreadyThere, Reorganised, Return
  <2>3. CASE IndexMissing \/ Insert \/ Resize
    BY <2>3 DEF IndexMissing, Insert, Resize, MakeRoom
  <2>4. CASE DontShrink \/ DontGrow
    BY <2>4 DEF DontShrink, DontGrow
  <2>5. CASE Shrink \/ Grow \/ Squash \/ Copy
    BY <2>5 DEF Shrink, Grow, Squash, Copy, Rehash
  <2>6. CASE Swap
    BY <1>1, <2>6 DEF Swap, Inv, Moving
  <2>7. CASE Move
    <3>1. PICK from \in Ahead : it' = from + 1
      BY <2>7 DEF Move
    <3>2. from \in Nat /\ it \in Nat /\ it <= from /\ from < table.size
      BY <1>1, <3>1, Counters DEF Ahead, Full, Buckets, Inv, Moving
    <3>3. Distance' = Distance /\ table' = table
      BY <2>7 DEF Move
    <3> QED BY <1>1, <3>1, <3>2, <3>3, Counters
  <2>8. ASSUME NEW op \in Calls, Call(op) PROVE FALSE
    BY <1>1, <2>8 DEF Call
  <2> QED BY <1>1, <2>2, <2>3, <2>4, <2>5, <2>6, <2>7, <2>8 DEF Next, Run
<1> QED
  BY <1>1, Invariant, PTL DEF Spec, CallsAdvance

(***************************************************************************)
(* The table implements a map.                                             *)
(***************************************************************************)

(* What the caller sees of a table.                                        *)
Contents(t) == [k \in Keys |-> Lookup(t, k)]

\* What Map's contents are mapped to, before and after a step.
LEMMA Seen ==
  /\ [k \in Keys |-> Value(k)] = Contents(table)
  /\ [k \in Keys |-> Value(k)]' = Contents(table')
<1> QED
  BY DEF Value, Contents, Lookup, Stored, KeyAt, KeyOf

(* A step within a call, which the caller does not see.                    *)
LEMMA Unseen ==
  ASSUME \A k \in Keys : Lookup(table', k) = Lookup(table, k), UNCHANGED <<call, result>>
  PROVE  UNCHANGED Abstract!vars
<1>1. Contents(table') = Contents(table)
  BY DEF Contents
<1> QED
  BY <1>1, Seen DEF Abstract!vars

(* The end of a call, by what the map promises of its operation.           *)
LEMMA SeenReturn ==
  ASSUME Inv, pc # "idle", NEW r, Return(r), NEW c, c = Contents(table),
         NEW k, NEW v, k = call.key, v = call.value,
         Contents(table') = IF call.op = "index" \/ (call.op = "insert" /\ c[k] = None)
                            THEN [c EXCEPT ![k] = v]
                            ELSE IF call.op = "erase" THEN [c EXCEPT ![k] = None]
                            ELSE IF call.op = "clear" THEN [x \in Keys |-> None]
                            ELSE c,
         r = IF call.op = "find" THEN c[k]
             ELSE IF call.op = "insert" THEN c[k] = None
             ELSE IF call.op = "erase" THEN c[k] # None
             ELSE None
  PROVE  Abstract!Return
<1>1. call.op # None
  BY Places DEF Inv, Control
<1>2. call # NoCall /\ call' = NoCall /\ result' = r
  BY <1>1 DEF NoCall, Return
<1>3. Abstract!NoRequest = NoCall
  BY DEF Abstract!NoRequest, NoCall
<1>4. Contents(table') = Abstract!Updated
  BY Seen, Zenon DEF Abstract!Updated, Abstract!Present
<1>5. r = Abstract!Answer
  BY Seen, Zenon DEF Abstract!Answer, Abstract!Present
<1> QED
  BY <1>2, <1>3, <1>4, <1>5, Seen DEF Abstract!Return

(* The operation of the call is that of its first step.                    *)
LEMMA Operation ==
  ASSUME Inv
  PROVE  /\ pc \in Calls => call.op = pc
         /\ pc \in {"find", "index", "insert", "erase", "clear", "resize", "squash",
                    "copy"} => pc \in Calls /\ call.op = pc
         /\ call.op \in {"find", "index", "insert", "erase"} => call.key \in Keys
<1> QED
  BY Places DEF Inv, Control

\* Every step is one of Map, or is not seen by the caller.
LEMMA StepSeen ==
  ASSUME Inv, [Next]_vars
  PROVE  [Abstract!Next]_Abstract!vars
<1> DEFINE c == Contents(table)
           k == call.key
           v == call.value
<1>1. Sound(hash, table)
  BY DEF Inv, Tables
<1>2. ASSUME NEW x \in Keys
      PROVE  c[x] = Lookup(table, x) /\ (c[x] = None <=> ~Stored(table, x))
  BY <1>1, Absent DEF Contents
<1>3. ASSUME UNCHANGED table PROVE Contents(table') = c
  BY <1>3 DEF Contents
<1>4. ASSUME UNCHANGED table PROVE \A x \in Keys : Lookup(table', x) = Lookup(table, x)
  BY <1>4
<1> HIDE DEF c, k, v
<1>5. CASE Find
  <2>1. pc = "find" /\ call.op = "find" /\ k \in Keys
    BY <1>5, Operation DEF Find, k
  <2>2. PICK r : Return(r) /\ r = find(table, Key) /\ UNCHANGED table
    BY <1>5 DEF Find
  <2>3. r = c[k]
    BY <1>2, <1>5, <2>1, <2>2, FindStep DEF Return, Key, k
  <2>4. Abstract!Return
    BY <1>3, <2>1, <2>2, <2>3, SeenReturn DEF c, k
  <2> QED BY <2>4 DEF Abstract!Next
<1>6. CASE EraseMissing
  <2>1. pc = "erase" /\ call.op = "erase" /\ k \in Keys
    BY <1>6, Operation DEF EraseMissing, k
  <2>2. Return(FALSE) /\ UNCHANGED table
    BY <1>6 DEF EraseMissing
  <2>3. c[k] = None
    BY <1>2, <1>6, <2>1, EraseMissingStep DEF Key, k
  <2>4. [c EXCEPT ![k] = None] = c
    BY <2>1, <2>3 DEF c, Contents
  <2>5. Abstract!Return
    BY <1>3, <2>1, <2>2, <2>3, <2>4, SeenReturn DEF c, k
  <2> QED BY <2>5 DEF Abstract!Next
<1>7. CASE Erase
  <2>1. pc = "erase" /\ call.op = "erase" /\ k \in Keys /\ Return(TRUE)
    BY <1>7, Operation DEF Erase, k
  <2>2. c[k] # None
    BY <1>2, <1>7, <2>1, EraseStep DEF Key, k
  <2>3. Contents(table') = [c EXCEPT ![k] = None]
    BY <1>7, EraseStep DEF Key, k, c, Contents
  <2>4. Abstract!Return
    BY <2>1, <2>2, <2>3, SeenReturn DEF c, k
  <2> QED BY <2>4 DEF Abstract!Next
<1>8. CASE Clear
  <2>1. pc = "clear" /\ call.op = "clear" /\ Return(None)
    BY <1>8, Operation DEF Clear
  <2>2. Contents(table') = [x \in Keys |-> None]
    BY <1>8, ClearStep DEF Contents
  <2>3. Abstract!Return
    BY <2>1, <2>2, SeenReturn
  <2> QED BY <2>3 DEF Abstract!Next
<1>9. CASE Overwrite
  <2>1. pc = "index" /\ call.op = "index" /\ Return(None)
    BY <1>9, Operation DEF Overwrite
  <2>2. Contents(table') = [c EXCEPT ![k] = v]
    BY <1>9, OverwriteStep DEF Key, k, v, c, Contents
  <2>3. Abstract!Return
    BY <2>1, <2>2, SeenReturn DEF c, k, v
  <2> QED BY <2>3 DEF Abstract!Next
<1>10. CASE NothingToSquash
  <2>1. pc = "squash" /\ call.op = "squash" /\ Return(None) /\ UNCHANGED table
    BY <1>10, Operation DEF NothingToSquash
  <2>2. Abstract!Return
    BY <1>3, <2>1, SeenReturn DEF c
  <2> QED BY <2>2 DEF Abstract!Next
<1>11. CASE Reorganised
  <2>1. /\ pc = "place" /\ call.op \in {"resize", "squash", "copy"}
        /\ Return(None) /\ UNCHANGED table
    BY <1>11 DEF Reorganised
  <2>2. Abstract!Return
    BY <1>3, <2>1, SeenReturn DEF c
  <2> QED BY <2>2 DEF Abstract!Next
<1>12. CASE AlreadyThere
  <2>1. pc = "place" /\ call.op = "insert" /\ Return(FALSE) /\ UNCHANGED table
    BY <1>12, AlreadyThereStep DEF AlreadyThere, Placing
  <2>2. k \in Keys /\ c[k] # None
    BY <1>2, <1>12, <2>1, Operation, AlreadyThereStep DEF Key, k
  <2>3. PICK r : Return(r) /\ r = (c[k] = None)
    <3>1. FALSE = (c[k] = None)
      BY <2>2
    <3> QED BY <2>1, <3>1
  <2>4. Abstract!Return
    BY <1>3, <2>1, <2>2, <2>3, SeenReturn DEF c, k
  <2> QED BY <2>4 DEF Abstract!Next
<1>13. CASE Place
  <2>1. pc = "place" /\ call.op \in Adding
        /\ Return(IF call.op = "insert" THEN TRUE ELSE None)
    BY <1>13 DEF Place, Placing
  <2>2. k \in Keys /\ c[k] = None
    BY <1>2, <1>13, PlaceStep DEF Key, k
  <2>3. Contents(table') = [c EXCEPT ![k] = v]
    BY <1>13, PlaceStep DEF Key, k, v, c, Contents
  <2>4. PICK r : Return(r) /\ r = IF call.op = "insert" THEN TRUE ELSE None
    BY <2>1
  <2>5. Abstract!Return
    BY <2>1, <2>2, <2>3, <2>4, SeenReturn DEF c, k, v
  <2> QED BY <2>5 DEF Abstract!Next
<1>14. ASSUME NEW op \in Calls, Call(op) PROVE Abstract!Next
  <2>1. /\ UNCHANGED table /\ call = NoCall /\ result' = None
        /\ call' \in [op: Calls, key: Keys \cup {None}, value: Values \cup {None}]
    BY <1>14, CallStep
  <2>2. call' \in [op: Abstract!Operations, key: Keys \cup {None},
                   value: Values \cup {None}]
    BY <2>1, CallsAssumption DEF Abstract!Operations, Abstract!Housekeeping
  <2>3. Abstract!NoRequest = NoCall
    BY DEF Abstract!NoRequest, NoCall
  <2>4. Abstract!Call
    BY <1>3, <2>1, <2>2, <2>3, Seen DEF Abstract!Call, c
  <2> QED BY <2>4 DEF Abstract!Next
<1>15. CASE Swap
  BY <1>15, SwapStep, Unseen
<1>16. CASE IndexMissing \/ Insert \/ Resize \/ Shrink \/ DontShrink \/ Grow \/ DontGrow
            \/ Squash \/ Copy \/ Move
  <2>1. UNCHANGED <<table, call, result>>
    BY <1>16, IndexMissingStep, InsertStep, ResizeStep, ShrinkStep, DontShrinkStep,
       GrowStep, DontGrowStep, SquashStep, CopyStep, MoveStep
  <2> QED BY <1>4, <2>1, Unseen
<1>17. CASE UNCHANGED vars
  BY <1>4, <1>17, Unseen DEF vars, callVars
<1> QED
  BY <1>5, <1>6, <1>7, <1>8, <1>9, <1>10, <1>11, <1>12, <1>13, <1>14, <1>15, <1>16, <1>17
     DEF Next, Run

\* sparse_hash_map is a map: every call has its effect at one moment and returns what
\* the contents were then, through every rehash.
THEOREM MapImplemented == Spec => ImplementsMap
<1>1. Init => Abstract!Init
  <2>1. SUFFICES ASSUME Init PROVE Abstract!Init
    OBVIOUS
  <2>2. Contents(table) = [k \in Keys |-> None]
    BY <2>1, InitStep DEF Contents
  <2>3. call = Abstract!NoRequest /\ result = None
    BY <2>1 DEF Init, NoCall, Abstract!NoRequest
  <2> QED BY <2>2, <2>3, Seen DEF Abstract!Init
<1>2. Inv /\ [Next]_vars => [Abstract!Next]_Abstract!vars
  BY StepSeen
<1> QED
  BY <1>1, <1>2, Invariant, PTL DEF Spec, ImplementsMap, Abstract!Spec
==============================================================================
