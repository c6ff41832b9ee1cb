------------------------- MODULE SharedStringProofs -------------------------
(***************************************************************************)
(* Proofs about SharedString, for any number of sessions, variables and    *)
(* blocks, for vectors of any length, any set of strings and any base of a *)
(* byte: the index loses nothing, every number that is read leads into the *)
(* character set, the cache agrees with the index, and shared strings keep *)
(* the promise of ValueStore.                                              *)
(***************************************************************************)
EXTENDS SharedString, FiniteSetTheorems, WellFoundedInduction, TLAPS

UnitSizes == {1, 2, 4, 8}

----------------------------------------------------------------------------
(* Powers and digits                                                       *)

(* The recursive definition has a solution.                                *)
LEMMA PowerIs ==
  Power = [k \in 0..8 |-> IF k = 0 THEN 1 ELSE Byte * Power[k - 1]]
<1> DEFINE P1 == Byte
           P2 == Byte * P1
           P3 == Byte * P2
           P4 == Byte * P3
           P5 == Byte * P4
           P6 == Byte * P5
           P7 == Byte * P6
           P8 == Byte * P7
           f == [k \in 0..8 |->
                   IF k = 0 THEN 1 ELSE IF k = 1 THEN P1 ELSE IF k = 2 THEN P2
                   ELSE IF k = 3 THEN P3 ELSE IF k = 4 THEN P4 ELSE IF k = 5 THEN P5
                   ELSE IF k = 6 THEN P6 ELSE IF k = 7 THEN P7 ELSE P8]
<1>1. Byte * 1 = Byte
  BY StringAssumption
<1> HIDE DEF P2, P3, P4, P5, P6, P7, P8
<1>2. \A k \in 0..8 : f[k] = IF k = 0 THEN 1 ELSE Byte * f[k - 1]
  <2> SUFFICES ASSUME NEW k \in 0..8
               PROVE  f[k] = IF k = 0 THEN 1 ELSE Byte * f[k - 1]
    OBVIOUS
  <2>1. \/ k = 0 \/ k = 1 \/ k = 2 \/ k = 3 \/ k = 4
        \/ k = 5 \/ k = 6 \/ k = 7 \/ k = 8
    OBVIOUS
  <2> QED BY <1>1, <2>1 DEF P2, P3, P4, P5, P6, P7, P8
<1>3. f = [k \in 0..8 |-> IF k = 0 THEN 1 ELSE Byte * f[k - 1]]
  BY <1>2
<1> HIDE DEF f
<1> QED BY <1>3 DEF Power

(* Powers grow with the number of bytes.                                   *)
LEMMA Powers ==
  /\ Power[0] = 1
  /\ \A k \in 0..8 : Power[k] \in Nat \ {0}
  /\ \A k \in 0..7 : Power[k + 1] = Byte * Power[k] /\ 2 * Power[k] <= Power[k + 1]
  /\ \A j, k \in 0..8 : j <= k => Power[j] <= Power[k]
<1>1. Power[0] = 1 /\ \A k \in 0..7 : Power[k + 1] = Byte * Power[k]
  BY PowerIs
<1>2. \A p \in Nat \ {0} : Byte * p \in Nat \ {0} /\ p <= Byte * p /\ 2 * p <= Byte * p
  BY StringAssumption
<1>3. /\ Power[0] \in Nat \ {0} /\ Power[1] \in Nat \ {0} /\ Power[2] \in Nat \ {0}
      /\ Power[3] \in Nat \ {0} /\ Power[4] \in Nat \ {0} /\ Power[5] \in Nat \ {0}
      /\ Power[6] \in Nat \ {0} /\ Power[7] \in Nat \ {0} /\ Power[8] \in Nat \ {0}
  <2>1. \A k \in 0..7 : Power[k] \in Nat \ {0} => Power[k + 1] \in Nat \ {0}
    BY <1>1, <1>2
  <2>2. Power[0] \in Nat \ {0} /\ Power[1] \in Nat \ {0} /\ Power[2] \in Nat \ {0}
    BY <1>1, <2>1, 0 + 1 = 1, 1 + 1 = 2
  <2>3. Power[3] \in Nat \ {0} /\ Power[4] \in Nat \ {0} /\ Power[5] \in Nat \ {0}
    BY <2>1, <2>2, 2 + 1 = 3, 3 + 1 = 4, 4 + 1 = 5
  <2>4. Power[6] \in Nat \ {0} /\ Power[7] \in Nat \ {0} /\ Power[8] \in Nat \ {0}
    BY <2>1, <2>3, 5 + 1 = 6, 6 + 1 = 7, 7 + 1 = 8
  <2> QED BY <2>2, <2>3, <2>4
<1>4. \A k \in 0..8 : Power[k] \in Nat \ {0}
  <2> SUFFICES ASSUME NEW k \in 0..8 PROVE Power[k] \in Nat \ {0}
    OBVIOUS
  <2>1. \/ k = 0 \/ k = 1 \/ k = 2 \/ k = 3 \/ k = 4
        \/ k = 5 \/ k = 6 \/ k = 7 \/ k = 8
    OBVIOUS
  <2> QED BY <1>3, <2>1
<1>5. \A k \in 0..7 : Power[k] <= Power[k + 1] /\ 2 * Power[k] <= Power[k + 1]
  BY <1>1, <1>2, <1>4
<1>6. \A j, k \in 0..8 : j <= k => Power[j] <= Power[k]
  <2>1. /\ Power[0] <= Power[1] /\ Power[1] <= Power[2] /\ Power[2] <= Power[3]
        /\ Power[3] <= Power[4] /\ Power[4] <= Power[5] /\ Power[5] <= Power[6]
        /\ Power[6] <= Power[7] /\ Power[7] <= Power[8]
    BY <1>5, 0 + 1 = 1, 1 + 1 = 2, 2 + 1 = 3, 3 + 1 = 4, 4 + 1 = 5, 5 + 1 = 6,
       6 + 1 = 7, 7 + 1 = 8
  <2> SUFFICES ASSUME NEW j \in 0..8, NEW k \in 0..8, j <= k
               PROVE  Power[j] <= Power[k]
    OBVIOUS
  <2>2. \/ j = 0 \/ j = 1 \/ j = 2 \/ j = 3 \/ j = 4
        \/ j = 5 \/ j = 6 \/ j = 7 \/ j = 8
    OBVIOUS
  <2>3. \/ k = 0 \/ k = 1 \/ k = 2 \/ k = 3 \/ k = 4
        \/ k = 5 \/ k = 6 \/ k = 7 \/ k = 8
    OBVIOUS
  <2> QED BY <1>3, <2>1, <2>2, <2>3
<1> QED BY <1>1, <1>4, <1>5, <1>6

(* Quotient and remainder.                                                 *)
LEMMA DivMod ==
  ASSUME NEW n \in Nat, NEW M \in Nat \ {0}
  PROVE  n \div M \in Nat /\ n % M \in 0..(M - 1) /\ n = M * (n \div M) + (n % M)
OBVIOUS

(* They are the only ones.                                                 *)
LEMMA DivUnique ==
  ASSUME NEW n \in Nat, NEW M \in Nat \ {0}, NEW c \in Nat, NEW e \in 0..(M - 1),
         n = M * c + e
  PROVE  n \div M = c /\ n % M = e
OBVIOUS

(* Dividing twice.                                                         *)
LEMMA DivTwice ==
  ASSUME NEW n \in Nat, NEW P \in Nat \ {0}, NEW B \in Nat \ {0}
  PROVE  n \div (B * P) = (n \div P) \div B
<1> DEFINE a == n \div P
           r == n % P
           c == a \div B
           d == a % B
           M == B * P
           e == P * d + r
<1>1. a \in Nat /\ r \in 0..(P - 1) /\ n = P * a + r
  BY DivMod
<1>2. c \in Nat /\ d \in 0..(B - 1) /\ a = B * c + d
  BY <1>1, DivMod
<1> HIDE DEF a, r, c, d
<1>3. n = P * (B * c + d) + r
  BY <1>1, <1>2
<1>4. P * (B * c + d) = M * c + P * d
  <2>1. P * (B * c + d) = P * (B * c) + P * d
    BY <1>2
  <2>2. P * (B * c) = (B * P) * c
    BY <1>2
  <2> QED BY <2>1, <2>2
<1>5. P * d \in Nat /\ M \in Nat \ {0} /\ M * c \in Nat
  BY <1>2
<1>6. P * d <= M - P
  <2>1. P * d <= P * (B - 1)
    BY <1>2
  <2>2. P * (B - 1) = B * P - P
    OBVIOUS
  <2> QED BY <2>1, <2>2
<1>7. e \in 0..(M - 1)
  BY <1>1, <1>5, <1>6
<1>8. n = M * c + e
  BY <1>1, <1>2, <1>3, <1>4, <1>5
<1>9. n \div M = c
  <2> HIDE DEF M, e
  <2> QED BY <1>2, <1>5, <1>7, <1>8, DivUnique
<1> QED BY <1>9 DEF c, a

(* A number is what its bytes say, as many of them as it needs.            *)
LEMMA BytesDetermine ==
  ASSUME NEW u \in UnitSizes, NEW n \in 0..(Power[u] - 1), NEW m \in 0..(Power[u] - 1),
         \A k \in 1..u : ByteOf(n, k - 1) = ByteOf(m, k - 1)
  PROVE  n = m
<1> DEFINE q(x, k) == x \div Power[k]
<1>1. n \in Nat /\ m \in Nat /\ u \in 1..8 /\ Byte \in Nat \ {0}
  BY Powers, StringAssumption DEF UnitSizes
<1>2. \A x \in Nat : \A k \in 0..8 : q(x, k) \in Nat
  BY Powers, DivMod
<1>3. \A x \in Nat : \A k \in 0..7 :
        q(x, k) = Byte * q(x, k + 1) + ByteOf(x, k)
  <2> SUFFICES ASSUME NEW x \in Nat, NEW k \in 0..7
               PROVE  q(x, k) = Byte * q(x, k + 1) + ByteOf(x, k)
    OBVIOUS
  <2>1. Power[k] \in Nat \ {0} /\ Power[k + 1] = Byte * Power[k]
    BY Powers
  <2>2. q(x, k + 1) = q(x, k) \div Byte
    <3>1. PICK P \in Nat \ {0} : P = Power[k]
      BY <2>1
    <3>2. x \div (Byte * P) = (x \div P) \div Byte
      BY <1>1, DivTwice
    <3> QED BY <2>1, <3>1, <3>2
  <2>3. q(x, k) \in Nat
    BY <2>1, DivMod
  <2>4. q(x, k) = Byte * (q(x, k) \div Byte) + (q(x, k) % Byte)
    <3> HIDE DEF q
    <3> QED BY <1>1, <2>3, DivMod
  <2> QED BY <2>2, <2>4 DEF ByteOf
<1>4. q(n, u) = 0 /\ q(m, u) = 0
  <2>1. \A x \in 0..(Power[u] - 1) : Power[u] * 0 + x = x
    BY <1>1, Powers
  <2>2. Power[u] \in Nat \ {0}
    BY <1>1, Powers
  <2> QED BY <1>1, <2>1, <2>2, DivUnique
<1>5. q(n, 0) = n /\ q(m, 0) = m
  BY <1>1, Powers
<1> HIDE DEF q
<1>6. \A k \in 0..(u - 1) : q(n, k + 1) = q(m, k + 1) => q(n, k) = q(m, k)
  <2> SUFFICES ASSUME NEW k \in 0..(u - 1), q(n, k + 1) = q(m, k + 1)
               PROVE  q(n, k) = q(m, k)
    OBVIOUS
  <2>1. k \in 0..7 /\ k + 1 \in 1..u /\ (k + 1) - 1 = k
    BY <1>1
  <2>2. ByteOf(n, k) = ByteOf(m, k)
    BY <2>1
  <2> QED BY <1>1, <1>3, <2>1, <2>2
<1>7. q(n, 0) = q(m, 0)
  <2>1. CASE u = 1
    BY <1>4, <1>6, <2>1, 0 + 1 = 1
  <2>2. CASE u = 2
    BY <1>4, <1>6, <2>2, 0 + 1 = 1, 1 + 1 = 2
  <2>3. CASE u = 4
    BY <1>4, <1>6, <2>3, 0 + 1 = 1, 1 + 1 = 2, 2 + 1 = 3, 3 + 1 = 4
  <2>4. CASE u = 8
    BY <1>4, <1>6, <2>4, 0 + 1 = 1, 1 + 1 = 2, 2 + 1 = 3, 3 + 1 = 4, 4 + 1 = 5, 5 + 1 = 6,
       6 + 1 = 7, 7 + 1 = 8
  <2> QED BY <2>1, <2>2, <2>3, <2>4 DEF UnitSizes
<1> QED BY <1>5, <1>7

----------------------------------------------------------------------------
(* The character set                                                       *)

(* The smallest of a set of numbers.                                       *)
LEMMA SmallestElement ==
  ASSUME NEW S, S \subseteq Nat, S # {}
  PROVE  Min(S) \in S /\ \A y \in S : Min(S) <= y
<1>1. PICK t \in S : \A u \in S : ~(<<u, t>> \in OpToRel(<, Nat))
  BY WFMin, NatLessThanWellFounded
<1>2. \A u \in S : t <= u
  <2>1. \A u \in Nat : t \in Nat /\ u < t => <<u, t>> \in OpToRel(<, Nat)
    BY DEF OpToRel
  <2>2. \A u \in S : ~(u < t)
    BY <1>1, <2>1
  <2> QED BY <2>2
<1> QED BY <1>1, <1>2 DEF Min

(* First occurrences are ranked without gaps.                              *)
LEMMA RanksAreNumbers ==
  ASSUME NEW S, NEW data \in Seq(S)
  PROVE  /\ First(data) \subseteq 1..Len(data)
         /\ Cardinality(First(data)) \in Nat
         /\ \A i \in First(data) : Rank(data, i) \in 1..Cardinality(First(data))
         /\ \A i, j \in First(data) : Rank(data, i) = Rank(data, j) => i = j
         /\ \A k \in 1..Cardinality(First(data)) : \E i \in First(data) : Rank(data, i) = k
<1> DEFINE F == First(data)
           C == Cardinality(F)
           Below(i) == {j \in F : j <= i}
<1>1. F \subseteq 1..Len(data) /\ IsFiniteSet(F) /\ C \in Nat
  <2>1. F \subseteq 1..Len(data) /\ Len(data) \in Nat
    BY DEF First
  <2>2. IsFiniteSet(1..Len(data))
    BY <2>1, FS_Interval
  <2>3. IsFiniteSet(F)
    BY <2>1, <2>2, FS_Subset
  <2> QED BY <2>1, <2>3, FS_CardinalityType
<1>2. \A i \in F : Rank(data, i) = Cardinality(Below(i))
  BY DEF Rank
<1> HIDE DEF F
<1>3. ASSUME NEW i \in F
      PROVE  IsFiniteSet(Below(i)) /\ Cardinality(Below(i)) \in 1..C
  <2>1. Below(i) \in SUBSET F /\ i \in Below(i)
    BY <1>1
  <2>2. IsFiniteSet(Below(i)) /\ Cardinality(Below(i)) <= C
    BY <1>1, <2>1, FS_Subset
  <2>3. Cardinality(Below(i)) \in Nat /\ Cardinality(Below(i)) # 0
    BY <2>1, <2>2, FS_CardinalityType, FS_EmptySet
  <2> QED BY <1>1, <2>2, <2>3
<1>4. ASSUME NEW i \in F, NEW j \in F, i < j
      PROVE  Cardinality(Below(i)) # Cardinality(Below(j))
  <2>1. Below(i) \in SUBSET Below(j) /\ j \in Below(j) /\ j \notin Below(i)
    <3>1. \A k \in F : k \in Int
      BY <1>1
    <3>2. i \in Int /\ j \in Int /\ j <= j /\ ~(j <= i)
      BY <1>4, <3>1
    <3>3. \A k \in F : k <= i => k <= j
      BY <1>4, <3>1, <3>2
    <3> QED BY <3>2, <3>3
  <2>2. IsFiniteSet(Below(j))
    BY <1>3
  <2> HIDE DEF Below
  <2>3. Cardinality(Below(i)) = Cardinality(Below(j)) => Below(j) = Below(i)
    BY <2>1, <2>2, FS_Subset
  <2> QED BY <2>1, <2>3
<1>5. \A i, j \in F : Cardinality(Below(i)) = Cardinality(Below(j)) => i = j
  <2>1. \A i, j \in F : i < j \/ j < i \/ i = j
    BY <1>1
  <2> QED BY <1>4, <2>1
<1> DEFINE r == [i \in F |-> Cardinality(Below(i))]
<1>6. r \in Injection(F, 1..C)
  BY <1>3, <1>5 DEF Injection, IsInjective
<1>7. IsFiniteSet(1..C) /\ Cardinality(1..C) = C
  BY <1>1, FS_Interval
<1>8. r \in Surjection(F, 1..C)
  <2> DEFINE T == 1..C
  <2>1. r \in Injection(F, T) /\ IsFiniteSet(T) /\ Cardinality(T) = C /\ Cardinality(F) = C
    BY <1>6, <1>7
  <2> HIDE DEF r, T, C
  <2>2. r \in Surjection(F, T)
    BY <2>1, FS_Injection
  <2> QED BY <2>2 DEF T
<1>9. \A k \in 1..C : \E i \in F : Cardinality(Below(i)) = k
  BY <1>8 DEF Surjection
<1> QED BY <1>1, <1>2, <1>3, <1>5, <1>9 DEF F

(* Strings that have a first occurrence.                                   *)
LEMMA FirstOccurrence ==
  ASSUME NEW S, NEW data \in Seq(S)
  PROVE  /\ \A i \in 1..Len(data) : \E j \in First(data) : data[j] = data[i]
         /\ \A i, j \in First(data) : data[i] = data[j] => i = j
<1>1. DOMAIN data = 1..Len(data) /\ Len(data) \in Nat
  OBVIOUS
<1>2. ASSUME NEW i \in 1..Len(data)
      PROVE  \E j \in First(data) : data[j] = data[i]
  <2> DEFINE P == {j \in 1..Len(data) : data[j] = data[i]}
  <2>1. P \subseteq Nat /\ i \in P
    BY <1>1
  <2>2. PICK j \in P : \A k \in P : j <= k
    <3> HIDE DEF P
    <3> QED BY <2>1, SmallestElement
  <2>3. \A k \in 1..(j - 1) : k \in 1..Len(data) /\ ~(j <= k)
    BY <1>1, <2>2
  <2>4. j \in First(data)
    BY <1>1, <2>2, <2>3 DEF First
  <2> QED BY <2>2, <2>4
<1>3. ASSUME NEW i \in First(data), NEW j \in First(data), data[i] = data[j]
      PROVE  i = j
  <2>1. i \in 1..Len(data) /\ j \in 1..Len(data)
    BY <1>1 DEF First
  <2>2. ~(i < j) /\ ~(j < i)
    <3>1. i < j => i \in 1..(j - 1)
      BY <1>1, <2>1
    <3>2. j < i => j \in 1..(i - 1)
      BY <1>1, <2>1
    <3> QED BY <1>3, <3>1, <3>2 DEF First
  <2> QED BY <1>1, <2>1, <2>2
<1> QED BY <1>2, <1>3

(* The character set has every string of the vector, and each once.        *)
LEMMA CharSetIs ==
  ASSUME NEW S, NEW data \in Seq(S)
  PROVE  /\ CharSet(data) \in Seq(S)
         /\ DOMAIN CharSet(data) = 1..Len(CharSet(data)) /\ Len(CharSet(data)) \in Nat
         /\ \A i \in 1..Len(data) :
              \E k \in 1..Len(CharSet(data)) : CharSet(data)[k] = data[i]
         /\ Len(CharSet(data)) = Cardinality(ToSet(data))
<1> DEFINE F == First(data)
           C == Cardinality(F)
           pos(k) == CHOOSE i \in F : Rank(data, i) = k
           set == [k \in 1..C |-> data[pos(k)]]
<1>1. /\ F \subseteq 1..Len(data) /\ C \in Nat
      /\ \A i \in F : Rank(data, i) \in 1..C
      /\ \A i, j \in F : Rank(data, i) = Rank(data, j) => i = j
      /\ \A k \in 1..C : \E i \in F : Rank(data, i) = k
  BY RanksAreNumbers
<1>2. \A i \in 1..Len(data) : data[i] \in S
  OBVIOUS
<1>3. CharSet(data) = set
  BY DEF CharSet
<1>4. DOMAIN data = 1..Len(data)
  OBVIOUS
<1>5. /\ \A i \in 1..Len(data) : \E j \in F : data[j] = data[i]
      /\ \A i, j \in F : data[i] = data[j] => i = j
  BY FirstOccurrence
<1> HIDE DEF F, C
<1>6. \A k \in 1..C : pos(k) \in F /\ Rank(data, pos(k)) = k
  BY <1>1
<1>7. \A i \in F : pos(Rank(data, i)) = i
  BY <1>1, <1>6
<1> HIDE DEF pos
<1>8. \A k \in 1..C : set[k] = data[pos(k)] /\ set[k] \in S
  BY <1>1, <1>2, <1>6
<1>9. set \in Seq(S) /\ Len(set) = C /\ DOMAIN set = 1..C
  BY <1>1, <1>8
<1>10. \A i \in 1..Len(data) : \E k \in 1..C : set[k] = data[i]
  <2> SUFFICES ASSUME NEW i \in 1..Len(data)
               PROVE  \E k \in 1..C : set[k] = data[i]
    OBVIOUS
  <2>1. PICK j \in F : data[j] = data[i]
    BY <1>5
  <2>2. Rank(data, j) \in 1..C /\ pos(Rank(data, j)) = j
    BY <1>1, <1>7
  <2> HIDE DEF set
  <2> QED BY <1>8, <2>1, <2>2
<1>11. \A k, l \in 1..C : set[k] = set[l] => k = l
  <2> HIDE DEF set
  <2> QED BY <1>5, <1>6, <1>8
<1>12. C = Cardinality(ToSet(data))
  <2> HIDE DEF set
  <2>1. \A k \in 1..C : set[k] \in ToSet(data)
    BY <1>1, <1>4, <1>6, <1>8 DEF ToSet
  <2>2. \A s \in ToSet(data) : \E k \in 1..C : set[k] = s
    BY <1>4, <1>10 DEF ToSet
  <2>3. set \in [1..C -> ToSet(data)]
    BY <1>9, <2>1 DEF set
  <2>4. set \in Bijection(1..C, ToSet(data))
    BY <1>11, <2>2, <2>3 DEF Bijection, Injection, IsInjective, Surjection
  <2>5. IsFiniteSet(1..C) /\ Cardinality(1..C) = C
    BY <1>1, FS_Interval
  <2> QED BY <2>4, <2>5, FS_Bijection DEF ExistsBijection
<1> QED BY <1>1, <1>3, <1>9, <1>10, <1>12

----------------------------------------------------------------------------
(* The index                                                               *)

(* The bytes of element i are those of n.                                  *)
BytesAre(bytes, u, i, n) ==
  \A k \in 1..u : bytes[((i - 1) * u) + k] = ByteOf(n, k - 1)

(* What the bytes of an element say is read from them.                     *)
LEMMA UnitIs ==
  ASSUME NEW u \in UnitSizes, NEW n \in 0..(Power[u] - 1), NEW bytes, NEW i,
         BytesAre(bytes, u, i, n)
  PROVE  Unit(bytes, u, i) = n
<1>1. ASSUME NEW m \in 0..(Power[u] - 1), BytesAre(bytes, u, i, m)
      PROVE  m = n
  <2>1. \A k \in 1..u : ByteOf(m, k - 1) = ByteOf(n, k - 1)
    BY <1>1 DEF BytesAre
  <2> QED BY <2>1, BytesDetermine
<1>2. Unit(bytes, u, i) = CHOOSE m \in 0..(Power[u] - 1) : BytesAre(bytes, u, i, m)
  BY DEF Unit, BytesAre
<1> QED BY <1>1, <1>2

(* Bytes are bytes.                                                        *)
LEMMA ByteTyped ==
  ASSUME NEW n \in Nat, NEW k \in 0..8
  PROVE  ByteOf(n, k) \in 0..(Byte - 1)
<1>1. PICK P \in Nat \ {0} : P = Power[k]
  BY Powers
<1>2. n \div P \in Nat /\ Byte \in Nat \ {0}
  BY <1>1, DivMod, StringAssumption
<1>3. PICK q \in Nat : q = n \div P
  BY <1>2
<1>4. q % Byte \in 0..(Byte - 1)
  BY <1>2, <1>3, DivMod
<1> QED BY <1>1, <1>3, <1>4 DEF ByteOf

(* The unit size has room for the numbers of a character set.              *)
LEMMA UnitSizeFits ==
  ASSUME NEW set, Len(set) \in Nat, Fits(set)
  PROVE  UnitSize(set) \in UnitSizes /\ Len(set) <= Power[UnitSize(set)]
<1> DEFINE e == IF Len(set) > 1 THEN Len(set) ELSE 2
           T == {k \in 1..8 : Power[k] >= e}
           V == {u \in UnitSizes : u >= Min(T)}
<1>1. e \in Nat /\ Len(set) <= e /\ e <= Power[8]
  <2>1. 2 * Power[0] <= Power[1] /\ Power[1] <= Power[8] /\ Power[0] = 1
    BY Powers, 0 + 1 = 1
  <2>2. Power[0] \in Nat /\ Power[1] \in Nat /\ Power[8] \in Nat
    <3>1. \A k \in 0..8 : Power[k] \in Nat
      BY Powers
    <3>2. 0 \in 0..8 /\ 1 \in 0..8 /\ 8 \in 0..8
      OBVIOUS
    <3> QED BY ONLY <3>1, <3>2
  <2>3. 2 <= Power[8]
    BY <2>1, <2>2
  <2> QED BY <2>2, <2>3 DEF Fits
<1>2. Min(T) \in 1..8 /\ Power[Min(T)] >= e
  <2>1. T \subseteq Nat /\ 8 \in T
    <3>1. Power[8] >= e
      BY <1>1, Powers
    <3> HIDE DEF e
    <3> QED BY <3>1
  <2>2. Min(T) \in T
    <3> HIDE DEF T
    <3> QED BY <2>1, SmallestElement
  <2> QED BY <2>2
<1>3. UnitSize(set) = Min(V)
  BY DEF UnitSize, UnitBytes, UnitSizes
<1> HIDE DEF T, e
<1>4. Min(V) \in UnitSizes /\ Min(V) >= Min(T)
  <2>1. V \subseteq Nat /\ 8 \in V
    BY <1>2 DEF UnitSizes
  <2>2. Min(V) \in V
    <3> HIDE DEF V
    <3> QED BY <2>1, SmallestElement
  <2> QED BY <2>2
<1> HIDE DEF V
<1>5. Min(V) \in 0..8 /\ Min(T) \in 0..8 /\ Min(T) <= Min(V)
  BY <1>2, <1>4 DEF UnitSizes
<1>6. Power[Min(T)] <= Power[Min(V)] /\ Power[Min(T)] \in Nat /\ Power[Min(V)] \in Nat
  BY <1>5, Powers
<1>7. Len(set) <= Power[Min(V)]
  BY <1>1, <1>2, <1>6
<1> QED BY <1>3, <1>4, <1>7

(* What an index in order says can be read.                                *)
LEMMA IndexReads ==
  ASSUME NEW S, NEW x, x.charSet \in Seq(S), x.unitSize \in UnitSizes, x.length \in Nat,
         NEW bytes, IndexOK(x, bytes)
  PROVE  /\ Decoded(x, bytes) \in Seq(S)
         /\ Len(Decoded(x, bytes)) = x.length
         /\ DOMAIN Decoded(x, bytes) = 1..x.length
         /\ \A i \in 1..x.length :
              /\ Unit(bytes, x.unitSize, i) \in 0..(Len(x.charSet) - 1)
              /\ Decoded(x, bytes)[i] = x.charSet[Unit(bytes, x.unitSize, i) + 1]
              /\ BytesAre(bytes, x.unitSize, i, Unit(bytes, x.unitSize, i))
<1>1. Len(x.charSet) \in Nat /\ Power[x.unitSize] \in Nat /\ Len(x.charSet) <= Power[x.unitSize]
  <2>1. x.unitSize \in 0..8
    BY DEF UnitSizes
  <2>2. Power[x.unitSize] \in Nat
    BY <2>1, Powers
  <2> QED BY <2>2 DEF IndexOK
<1>2. ASSUME NEW i \in 1..x.length
      PROVE  /\ Unit(bytes, x.unitSize, i) \in 0..(Len(x.charSet) - 1)
             /\ BytesAre(bytes, x.unitSize, i, Unit(bytes, x.unitSize, i))
  <2>1. PICK n \in 0..(Len(x.charSet) - 1) : BytesAre(bytes, x.unitSize, i, n)
    BY DEF IndexOK, BytesAre
  <2>2. n \in 0..(Power[x.unitSize] - 1)
    BY <1>1
  <2>3. Unit(bytes, x.unitSize, i) = n
    BY <2>1, <2>2, UnitIs
  <2> QED BY <2>1, <2>3
<1> DEFINE at(i) == x.charSet[Unit(bytes, x.unitSize, i) + 1]
<1>3. \A i \in 1..x.length : at(i) \in S
  <2> SUFFICES ASSUME NEW i \in 1..x.length
               PROVE  at(i) \in S
    OBVIOUS
  <2>1. Unit(bytes, x.unitSize, i) + 1 \in 1..Len(x.charSet)
    BY <1>1, <1>2
  <2> QED BY <2>1
<1>4. Decoded(x, bytes) = [i \in 1..x.length |-> at(i)]
  BY DEF Decoded
<1> HIDE DEF at
<1>5. /\ [i \in 1..x.length |-> at(i)] \in Seq(S)
      /\ Len([i \in 1..x.length |-> at(i)]) = x.length
  BY <1>3
<1> QED BY <1>2, <1>4, <1>5 DEF at

(* Where the bytes of an element are.                                      *)
LEMMA Positions ==
  ASSUME NEW u \in UnitSizes, NEW n \in Nat
  PROVE  /\ \A i \in 1..n, k \in 1..u :
              /\ ((i - 1) * u) + k \in 1..(u * n)
              /\ ((((i - 1) * u) + k) - 1) \div u = i - 1
              /\ ((((i - 1) * u) + k) - 1) % u = k - 1
         /\ \A p \in 1..(u * n) :
              ((p - 1) \div u) + 1 \in 1..n /\ (p - 1) % u \in 0..(u - 1)
         /\ u * n \in Nat
<1>1. CASE u = 1
  BY <1>1
<1>2. CASE u = 2
  BY <1>2
<1>3. CASE u = 4
  BY <1>3
<1>4. CASE u = 8
  BY <1>4
<1> QED BY <1>1, <1>2, <1>3, <1>4 DEF UnitSizes

(* A string of the character set has a number.                             *)
LEMMA OffsetIs ==
  ASSUME NEW set, Len(set) \in Nat, DOMAIN set = 1..Len(set),
         NEW c, \E k \in 1..Len(set) : set[k] = c
  PROVE  Offset(set, c) \in 0..(Len(set) - 1) /\ set[Offset(set, c) + 1] = c
<1>1. PICK k \in 1..Len(set) : k = CHOOSE j \in DOMAIN set : set[j] = c
  OBVIOUS
<1>2. set[k] = c
  BY <1>1
<1>3. Offset(set, c) = k - 1 /\ (k - 1) + 1 = k
  BY <1>1 DEF Offset
<1> QED BY <1>2, <1>3

(* The encoding loses nothing.                                             *)
LEMMA EncodedReads ==
  ASSUME NEW S, NEW data \in Seq(S), Fits(CharSet(data)), NEW x,
         x.charSet = CharSet(data), x.unitSize = UnitSize(CharSet(data)), x.length = Len(data)
  PROVE  /\ x.charSet \in Seq(S) /\ x.unitSize \in UnitSizes
         /\ Encoded(data, x.charSet, x.unitSize) \in BytesOf
         /\ IndexOK(x, Encoded(data, x.charSet, x.unitSize))
         /\ Decoded(x, Encoded(data, x.charSet, x.unitSize)) = data
<1> DEFINE set == x.charSet
           u == x.unitSize
           n == Len(data)
           off(i) == Offset(set, data[i])
           at(p) == ByteOf(off(((p - 1) \div u) + 1), (p - 1) % u)
           bytes == [p \in 1..(u * n) |-> at(p)]
<1>1. /\ set \in Seq(S) /\ Len(set) \in Nat /\ DOMAIN set = 1..Len(set)
      /\ \A i \in 1..n : \E k \in 1..Len(set) : set[k] = data[i]
  BY CharSetIs
<1>2. u \in UnitSizes /\ Len(set) <= Power[u]
  BY <1>1, UnitSizeFits
<1>3. n \in Nat /\ \A i \in 1..n : data[i] \in S
  OBVIOUS
<1>4. Encoded(data, set, u) = bytes
  BY DEF Encoded
<1>5. x.length = n
  OBVIOUS
<1> HIDE DEF set, u, n
<1>6. \A i \in 1..n : off(i) \in 0..(Len(set) - 1) /\ set[off(i) + 1] = data[i]
  BY <1>1, OffsetIs
<1> HIDE DEF off
<1>7. u * n \in Nat /\ \A p \in 1..(u * n) : at(p) \in 0..(Byte - 1)
  <2> SUFFICES ASSUME NEW p \in 1..(u * n)
               PROVE  at(p) \in 0..(Byte - 1)
    BY <1>2, <1>3, Positions
  <2>1. PICK i \in 1..n : i = ((p - 1) \div u) + 1
    BY <1>2, <1>3, Positions
  <2>2. PICK k \in 0..8 : k = (p - 1) % u
    <3>1. (p - 1) % u \in 0..(u - 1)
      BY <1>2, <1>3, Positions
    <3>2. u \in 1..8
      BY <1>2 DEF UnitSizes
    <3> QED BY <3>1, <3>2
  <2>3. off(i) \in Nat
    BY <1>1, <1>6
  <2>4. ByteOf(off(i), k) \in 0..(Byte - 1)
    BY <2>3, ByteTyped
  <2> QED BY <2>1, <2>2, <2>4
<1>8. \A i \in 1..n, k \in 1..u :
        ((i - 1) * u) + k \in 1..(u * n) /\ at(((i - 1) * u) + k) = ByteOf(off(i), k - 1)
  <2> SUFFICES ASSUME NEW i \in 1..n, NEW k \in 1..u
               PROVE  /\ ((i - 1) * u) + k \in 1..(u * n)
                      /\ at(((i - 1) * u) + k) = ByteOf(off(i), k - 1)
    OBVIOUS
  <2>1. PICK p \in 1..(u * n) : /\ p = ((i - 1) * u) + k
                               /\ (p - 1) \div u = i - 1 /\ (p - 1) % u = k - 1
    BY <1>2, <1>3, Positions
  <2>2. (i - 1) + 1 = i
    BY <1>3
  <2>3. at(p) = ByteOf(off(i), k - 1)
    BY <2>1, <2>2
  <2> QED BY <2>1, <2>3
<1> HIDE DEF at
<1>9. bytes \in BytesOf /\ Len(bytes) = u * n
  <2> DEFINE N == u * n
  <2>1. N \in Nat /\ \A p \in 1..N : at(p) \in 0..(Byte - 1)
    BY <1>7
  <2> HIDE DEF N
  <2>2. [p \in 1..N |-> at(p)] \in Seq(0..(Byte - 1)) /\ Len([p \in 1..N |-> at(p)]) = N
    BY <2>1
  <2> QED BY <2>2 DEF N, BytesOf
<1>10. \A i \in 1..n : BytesAre(bytes, u, i, off(i))
  BY <1>8 DEF BytesAre
<1> HIDE DEF bytes
<1>11. IndexOK(x, bytes)
  BY <1>2, <1>5, <1>6, <1>9, <1>10 DEF IndexOK, BytesAre, set, u
<1>12. /\ Decoded(x, bytes) \in Seq(S) /\ Len(Decoded(x, bytes)) = n
       /\ \A i \in 1..n : Decoded(x, bytes)[i] = set[Unit(bytes, u, i) + 1]
  <2>1. x.charSet \in Seq(S) /\ x.unitSize \in UnitSizes /\ x.length \in Nat
    BY <1>1, <1>2, <1>3, <1>5 DEF set, u
  <2> QED BY <1>5, <1>11, <2>1, IndexReads DEF set, u
<1>13. \A i \in 1..n : Unit(bytes, u, i) = off(i)
  <2> SUFFICES ASSUME NEW i \in 1..n
               PROVE  Unit(bytes, u, i) = off(i)
    OBVIOUS
  <2>1. Power[u] \in Nat
    <3>1. u \in 0..8
      BY <1>2 DEF UnitSizes
    <3> QED BY <3>1, Powers
  <2>2. off(i) \in 0..(Power[u] - 1)
    BY <1>1, <1>2, <1>6, <2>1
  <2> QED BY <1>2, <1>10, <2>2, UnitIs
<1>14. Decoded(x, bytes) = data
  <2>1. \A i \in 1..n : Decoded(x, bytes)[i] = data[i]
    BY <1>6, <1>12, <1>13
  <2> QED BY <1>12, <2>1 DEF n
<1> QED BY <1>1, <1>2, <1>4, <1>9, <1>11, <1>14 DEF set, u

(* A character c of the set is written as the byte of element i, where     *)
(* elements are single bytes.                                              *)
WritesByte(S, x, bytes, i, c, after) ==
  /\ x.charSet \in Seq(S) /\ x.unitSize = 1 /\ x.length \in Nat
  /\ bytes \in BytesOf /\ IndexOK(x, bytes)
  /\ i \in 1..x.length /\ Contains(x.charSet, c)
  /\ after = [bytes EXCEPT ![i] = Offset(x.charSet, c) % Byte]

(* A byte that is written is read, and nothing else is changed, where      *)
(* elements are single bytes.                                              *)
LEMMA WrittenByteReads ==
  ASSUME NEW S, NEW x, NEW bytes, NEW i, NEW c, NEW after, WritesByte(S, x, bytes, i,
         c, after)
  PROVE  /\ after \in BytesOf
         /\ IndexOK(x, after)
         /\ Decoded(x, after) = [Decoded(x, bytes) EXCEPT ![i] = c]
<1> /\ x.charSet \in Seq(S) /\ x.unitSize = 1 /\ x.length \in Nat
    /\ bytes \in BytesOf /\ IndexOK(x, bytes)
    /\ i \in 1..x.length /\ Contains(x.charSet, c)
    /\ after = [bytes EXCEPT ![i] = Offset(x.charSet, c) % Byte]
  BY DEF WritesByte
<1> DEFINE set == x.charSet
           n == Offset(set, c)
<1>1. Len(set) \in Nat /\ DOMAIN set = 1..Len(set) /\ Len(set) <= Power[1] /\ 1 \in UnitSizes
  BY DEF IndexOK, UnitSizes
<1>2. n \in 0..(Len(set) - 1) /\ set[n + 1] = c
  BY <1>1, OffsetIs DEF Contains
<1>3. Power[1] = Byte /\ Byte \in Nat \ {0} /\ Power[0] = 1
  <2>1. Power[0 + 1] = Byte * Power[0] /\ Power[0] = 1
    BY Powers
  <2> QED BY <2>1, StringAssumption
<1> HIDE DEF n
<1>4. n \in 0..(Byte - 1)
  BY <1>1, <1>2, <1>3
<1>5. n % Byte = n
  BY <1>3, <1>4
<1>6. /\ Len(bytes) = x.length /\ DOMAIN bytes = 1..x.length
      /\ \A j \in 1..x.length : bytes[j] \in 0..(Byte - 1)
  <2>1. Len(bytes) = x.length
    <3>1. Len(bytes) = 1 * x.length
      BY DEF IndexOK
    <3> QED BY <3>1
  <2>2. bytes \in Seq(0..(Byte - 1))
    BY DEF BytesOf
  <2>3. /\ DOMAIN bytes = 1..Len(bytes)
        /\ \A j \in 1..Len(bytes) : bytes[j] \in 0..(Byte - 1)
    <3> DEFINE D == 0..(Byte - 1)
    <3>1. bytes \in Seq(D)
      BY <2>2
    <3> HIDE DEF D
    <3>2. DOMAIN bytes = 1..Len(bytes) /\ \A j \in 1..Len(bytes) : bytes[j] \in D
      BY <3>1
    <3> QED BY <3>2 DEF D
  <2> QED BY <2>1, <2>3
<1>7. after = [bytes EXCEPT ![i] = n]
  BY <1>5 DEF n
<1>8. after \in BytesOf /\ Len(after) = x.length
  <2>1. after = [j \in 1..x.length |-> IF j = i THEN n ELSE bytes[j]]
    BY <1>6, <1>7
  <2>2. \A j \in 1..x.length : (IF j = i THEN n ELSE bytes[j]) \in 0..(Byte - 1)
    BY <1>4, <1>6
  <2> DEFINE N == x.length
             at(j) == IF j = i THEN n ELSE bytes[j]
  <2>3. /\ [j \in 1..x.length |-> IF j = i THEN n ELSE bytes[j]] \in Seq(0..(Byte - 1))
        /\ Len([j \in 1..x.length |-> IF j = i THEN n ELSE bytes[j]]) = x.length
    <3>1. N \in Nat /\ \A j \in 1..N : at(j) \in 0..(Byte - 1)
      BY <2>2
    <3> HIDE DEF N, at
    <3>2. /\ [j \in 1..N |-> at(j)] \in Seq(0..(Byte - 1))
          /\ Len([j \in 1..N |-> at(j)]) = N
      BY <3>1
    <3> QED BY <3>2 DEF N, at
  <2> QED BY <2>1, <2>3 DEF BytesOf
<1>9. \A m : \A j \in 1..x.length : BytesAre(after, 1, j, m) <=> after[j] = ByteOf(m, 0)
  BY DEF BytesAre
<1>10. \A m : \A j \in 1..x.length : BytesAre(bytes, 1, j, m) <=> bytes[j] = ByteOf(m, 0)
  BY DEF BytesAre
<1>11. ByteOf(n, 0) = n
  BY <1>2, <1>3, <1>5 DEF ByteOf
<1>12. \A j \in 1..x.length : after[j] = IF j = i THEN n ELSE bytes[j]
  BY <1>6, <1>7
<1>13. /\ \A j \in 1..x.length :
            /\ Unit(bytes, 1, j) \in 0..(Len(set) - 1)
            /\ Decoded(x, bytes)[j] = set[Unit(bytes, 1, j) + 1]
            /\ BytesAre(bytes, 1, j, Unit(bytes, 1, j))
       /\ Decoded(x, bytes) \in Seq(S) /\ Len(Decoded(x, bytes)) = x.length
       /\ DOMAIN Decoded(x, bytes) = 1..x.length
  <2>1. x.unitSize \in UnitSizes
    BY <1>1
  <2>2. IndexOK(x, bytes) /\ x.charSet \in Seq(S) /\ x.length \in Nat
    OBVIOUS
  <2>3. /\ \A j \in 1..x.length :
             /\ Unit(bytes, x.unitSize, j) \in 0..(Len(x.charSet) - 1)
             /\ Decoded(x, bytes)[j] = x.charSet[Unit(bytes, x.unitSize, j) + 1]
             /\ BytesAre(bytes, x.unitSize, j, Unit(bytes, x.unitSize, j))
        /\ Decoded(x, bytes) \in Seq(S) /\ Len(Decoded(x, bytes)) = x.length
        /\ DOMAIN Decoded(x, bytes) = 1..x.length
    BY ONLY <2>1, <2>2, IndexReads
  <2> QED BY <2>3
<1>14. /\ BytesAre(after, 1, i, n)
       /\ \A j \in 1..x.length : j # i => BytesAre(after, 1, j, Unit(bytes, 1, j))
  BY <1>9, <1>10, <1>11, <1>12, <1>13
<1>15. IndexOK(x, after)
  <2>1. Len(after) = x.unitSize * x.length
    <3>1. 1 * x.length = x.length
      OBVIOUS
    <3> QED BY <1>8, <3>1
  <2>2. \A j \in 1..x.length : \E m \in 0..(Len(set) - 1) : BytesAre(after, 1, j, m)
    BY <1>2, <1>13, <1>14
  <2>3. \A j \in 1..x.length : \E m \in 0..(Len(x.charSet) - 1) :
          BytesAre(after, x.unitSize, j, m)
    BY <2>2
  <2>4. Len(x.charSet) <= Power[x.unitSize]
    BY DEF IndexOK
  <2> QED BY <2>1, <2>3, <2>4 DEF IndexOK, BytesAre
<1>16. /\ \A j \in 1..x.length : Decoded(x, after)[j] = set[Unit(after, 1, j) + 1]
       /\ Decoded(x, after) \in Seq(S) /\ Len(Decoded(x, after)) = x.length
       /\ DOMAIN Decoded(x, after) = 1..x.length
  <2>1. ASSUME NEW a, IndexOK(x, a)
        PROVE  /\ \A j \in 1..x.length : Decoded(x, a)[j] = x.charSet[Unit(a, x.unitSize, j) + 1]
               /\ Decoded(x, a) \in Seq(S) /\ Len(Decoded(x, a)) = x.length
               /\ DOMAIN Decoded(x, a) = 1..x.length
    <3>1. x.unitSize \in UnitSizes
      BY <1>1
    <3> QED BY <2>1, <3>1, IndexReads
  <2>2. /\ \A j \in 1..x.length : Decoded(x, after)[j] = x.charSet[Unit(after, x.unitSize, j) + 1]
        /\ Decoded(x, after) \in Seq(S) /\ Len(Decoded(x, after)) = x.length
        /\ DOMAIN Decoded(x, after) = 1..x.length
    BY <1>15, <2>1
  <2> QED BY <2>2
<1>17. /\ Unit(after, 1, i) = n
       /\ \A j \in 1..x.length : j # i => Unit(after, 1, j) = Unit(bytes, 1, j)
  <2>1. 0..(Len(set) - 1) \subseteq 0..(Power[1] - 1)
    BY <1>1, <1>3
  <2>2. n \in 0..(Power[1] - 1)
    BY <1>2, <2>1
  <2>3. \A j \in 1..x.length : Unit(bytes, 1, j) \in 0..(Power[1] - 1)
    BY <1>13, <2>1
  <2>4. Unit(after, 1, i) = n
    BY <1>1, <1>14, <2>2, UnitIs
  <2>5. ASSUME NEW j \in 1..x.length, j # i
        PROVE  Unit(after, 1, j) = Unit(bytes, 1, j)
    <3>1. PICK m \in 0..(Power[1] - 1) : m = Unit(bytes, 1, j)
      BY <2>3
    <3>2. BytesAre(after, 1, j, m)
      BY <1>14, <2>5, <3>1
    <3> QED BY <1>1, <3>1, <3>2, UnitIs
  <2> QED BY <2>4, <2>5
<1>18. \A j \in 1..x.length : Decoded(x, after)[j] = IF j = i THEN c ELSE Decoded(x, bytes)[j]
  BY <1>2, <1>13, <1>16, <1>17
<1>19. Decoded(x, after) = [Decoded(x, bytes) EXCEPT ![i] = c]
  <2>1. /\ Decoded(x, after) = [j \in 1..x.length |-> Decoded(x, after)[j]]
        /\ Decoded(x, bytes) = [j \in 1..x.length |-> Decoded(x, bytes)[j]]
    BY DEF Decoded
  <2>2. [Decoded(x, bytes) EXCEPT ![i] = c]
          = [j \in 1..x.length |-> IF j = i THEN c ELSE Decoded(x, bytes)[j]]
    BY <2>1
  <2> QED BY <1>18, <2>1, <2>2
<1> QED BY <1>8, <1>15, <1>19

(* The index says what the vector says, whatever its strings and however   *)
(* many there are, unless they are too many for 8 bytes, which is an error *)
(* before anything is allocated.                                           *)
THEOREM IndexIsLossless == StrSpec => []EncodingIsLossless
<1>1. EncodingIsLossless
  <2> SUFFICES ASSUME NEW data \in Texts, Fits(CharSet(data))
               PROVE  LET x == FromSource(data, Nothing, TRUE)
                          bytes == Encoded(data, x.charSet, x.unitSize)
                      IN /\ Len(x.charSet) = Cardinality(ToSet(data))
                         /\ Len(x.charSet) <= Power[x.unitSize]
                         /\ Len(bytes) = x.unitSize * Len(data)
                         /\ Decoded(x, bytes) = data
    BY DEF EncodingIsLossless, FromSource
  <2>1. data \in Seq(ToSet(data))
    BY StringAssumption
  <2>2. PICK x : x = FromSource(data, Nothing, TRUE)
    OBVIOUS
  <2>3. /\ x.charSet = CharSet(data) /\ x.unitSize = UnitSize(CharSet(data))
        /\ x.length = Len(data)
    BY <2>2 DEF FromSource
  <2>4. /\ IndexOK(x, Encoded(data, x.charSet, x.unitSize))
        /\ Decoded(x, Encoded(data, x.charSet, x.unitSize)) = data
    BY <2>1, <2>3, EncodedReads
  <2>5. Len(x.charSet) = Cardinality(ToSet(data))
    BY <2>1, <2>3, CharSetIs
  <2> QED BY <2>2, <2>3, <2>4, <2>5 DEF IndexOK
<1> QED BY <1>1, PTL

----------------------------------------------------------------------------
(* Objects                                                                 *)

(* What an object with an index says under given contents of the blocks.   *)
BytesIn(x, m) == IF IsView(x.index) THEN m[x.index.block] ELSE x.index.data
ReadIn(x, m) == Decoded(x, BytesIn(x, m))

(* An index in order, and a cache that agrees with it.                     *)
StringOK(x, m) ==
  IndexOK(x, BytesIn(x, m)) /\ (x.cache # Nothing => x.cache = ReadIn(x, m))

(* One list, but for the cache.                                            *)
Alike(x, y) ==
  /\ x.index = y.index /\ x.charSet = y.charSet /\ x.unitSize = y.unitSize
  /\ x.length = y.length /\ x.cow = y.cow

IndexRecords == [kind : {"view"}, block : Blocks] \cup [kind : {"plain"}, data : BytesOf]

(* What objects are.                                                       *)
LEMMA ObjectForms ==
  /\ \A d \in Vectors : Plain(d) \in Objects /\ ~IsString(Plain(d)) /\ Plain(d) # Nothing
                      /\ Plain(d).data = d
  /\ \A d \in Vectors : d # Nothing
  /\ \A x \in Objects :
       /\ x # Nothing
       /\ ~IsString(x) => x.data \in Vectors /\ x = Plain(x.data)
       /\ IsString(x) =>
            /\ x.index \in IndexRecords
            /\ x.charSet \in Vectors /\ x.unitSize \in UnitSizes
            /\ x.length \in Nat /\ x.cow \in BOOLEAN
            /\ x.cache # Nothing => x.cache \in Vectors
<1>1. Nothing \notin Objects /\ Nothing \notin Vectors
  BY StringAssumption
<1>2. \A d \in Vectors : Plain(d) \in Objects /\ Plain(d).kind = "plain" /\ Plain(d).data = d
  BY DEF Plain, Objects
<1>3. \A x \in Objects : x.kind # "string" => x.data \in Vectors /\ x = Plain(x.data)
  BY DEF Objects, Plain
<1>4. \A x \in Objects : x.kind = "string" =>
        /\ x.index \in IndexRecords
        /\ x.charSet \in Vectors /\ x.unitSize \in UnitSizes
        /\ x.length \in Nat /\ x.cow \in BOOLEAN
        /\ x.cache \in {Nothing} \cup Vectors
  BY DEF Objects, UnitSizes, IndexRecords
<1> QED BY <1>1, <1>2, <1>3, <1>4 DEF IsString

(* What indices are.                                                       *)
LEMMA IndexForms ==
  /\ \A b \in Blocks : View(b) \in IndexRecords /\ IsView(View(b)) /\ View(b).block = b
  /\ \A d \in BytesOf : Plain(d) \in IndexRecords /\ ~IsView(Plain(d)) /\ Plain(d).data = d
  /\ \A y \in IndexRecords :
       /\ IsView(y) => y.block \in Blocks /\ y = View(y.block)
       /\ ~IsView(y) => y.data \in BytesOf /\ y = Plain(y.data)
BY DEF IndexRecords, View, Plain, IsView

(* The list of strings with the given parts.                               *)
Str(index, cache, set, u, n, c) ==
  [kind |-> "string", index |-> index, cache |-> cache, charSet |-> set,
   unitSize |-> u, length |-> n, cow |-> c]

(* What it is made of.                                                     *)
LEMMA StrForms ==
  ASSUME NEW y \in IndexRecords, NEW d \in {Nothing} \cup Vectors, NEW set \in Vectors,
         NEW u \in UnitSizes, NEW n \in Nat, NEW c \in BOOLEAN
  PROVE  LET x == Str(y, d, set, u, n, c)
         IN /\ x \in Objects /\ IsString(x)
            /\ x.index = y /\ x.cache = d /\ x.charSet = set
            /\ x.unitSize = u /\ x.length = n /\ x.cow = c
<1>1. Str(y, d, set, u, n, c) \in Objects
  BY DEF Str, Objects, IndexRecords, UnitSizes
<1>2. Str(y, d, set, u, n, c) # Nothing
  BY <1>1, StringAssumption
<1> QED BY <1>1, <1>2 DEF Str, IsString

(* A list whose cache or index is another.                                 *)
LEMMA StrUpdates ==
  ASSUME NEW x \in Objects, IsString(x)
  PROVE  /\ \A d : [x EXCEPT !.cache = d]
                   = Str(x.index, d, x.charSet, x.unitSize, x.length, x.cow)
         /\ \A d, y : [x EXCEPT !.cache = d, !.index = y]
                      = Str(y, d, x.charSet, x.unitSize, x.length, x.cow)
         /\ x = Str(x.index, x.cache, x.charSet, x.unitSize, x.length, x.cow)
<1>1. PICK y, d, set, u, n, c : x = Str(y, d, set, u, n, c)
  BY DEF Objects, IsString, Str
<1>2. /\ x.index = y /\ x.cache = d /\ x.charSet = set
      /\ x.unitSize = u /\ x.length = n /\ x.cow = c
  BY <1>1 DEF Str
<1>3. \A e : [Str(y, d, set, u, n, c) EXCEPT !.cache = e] = Str(y, e, set, u, n, c)
  BY DEF Str
<1>4. \A e, z : [Str(y, d, set, u, n, c) EXCEPT !.cache = e, !.index = z]
               = Str(z, e, set, u, n, c)
  <2> SUFFICES ASSUME NEW e, NEW z
               PROVE  [Str(y, d, set, u, n, c) EXCEPT !.cache = e, !.index = z]
                      = Str(z, e, set, u, n, c)
    OBVIOUS
  <2>1. [Str(y, e, set, u, n, c) EXCEPT !.index = z] = Str(z, e, set, u, n, c)
    BY DEF Str
  <2>2. [Str(y, d, set, u, n, c) EXCEPT !.cache = e, !.index = z]
          = [[Str(y, d, set, u, n, c) EXCEPT !.cache = e] EXCEPT !.index = z]
    OBVIOUS
  <2> QED BY <1>3, <2>1, <2>2
<1>5. /\ \A e : [x EXCEPT !.cache = e] = Str(y, e, set, u, n, c)
      /\ \A e, z : [x EXCEPT !.cache = e, !.index = z] = Str(z, e, set, u, n, c)
  BY <1>1, <1>3, <1>4
<1>6. x = Str(x.index, x.cache, x.charSet, x.unitSize, x.length, x.cow)
  BY <1>1, <1>2
<1>7. \A e : [x EXCEPT !.cache = e]
             = Str(x.index, e, x.charSet, x.unitSize, x.length, x.cow)
  BY <1>2, <1>5
<1>8. \A e, z : [x EXCEPT !.cache = e, !.index = z]
                = Str(z, e, x.charSet, x.unitSize, x.length, x.cow)
  <2> SUFFICES ASSUME NEW e, NEW z
               PROVE  [x EXCEPT !.cache = e, !.index = z]
                      = Str(z, e, x.charSet, x.unitSize, x.length, x.cow)
    OBVIOUS
  <2>1. [x EXCEPT !.cache = e, !.index = z] = Str(z, e, set, u, n, c)
    BY <1>5
  <2>2. Str(z, e, set, u, n, c) = Str(z, e, x.charSet, x.unitSize, x.length, x.cow)
    BY <1>2
  <2> QED BY <2>1, <2>2
<1> QED BY <1>6, <1>7, <1>8

(* Lists that are alike differ in the cache.                               *)
LEMMA AlikeIs ==
  ASSUME NEW x \in Objects, NEW y \in Objects, IsString(x), IsString(y)
  PROVE  Alike(x, y) <=> [x EXCEPT !.cache = y.cache] = y
<1>1. PICK i, d, set, u, n, c : x = Str(i, d, set, u, n, c)
  <2>1. x = Str(x.index, x.cache, x.charSet, x.unitSize, x.length, x.cow)
    BY StrUpdates
  <2> QED BY <2>1
<1>2. PICK j, e, tes, v, m, b : y = Str(j, e, tes, v, m, b)
  <2>1. y = Str(y.index, y.cache, y.charSet, y.unitSize, y.length, y.cow)
    BY StrUpdates
  <2> QED BY <2>1
<1>3. [x EXCEPT !.cache = y.cache] = Str(i, e, set, u, n, c)
  BY <1>1, <1>2 DEF Str
<1> QED BY <1>1, <1>2, <1>3 DEF Str, Alike

(* A string that is in order reads as a vector.                            *)
LEMMA StringReads ==
  ASSUME NEW x \in Objects, IsString(x), NEW m, StringOK(x, m)
  PROVE  /\ ReadIn(x, m) \in Vectors
         /\ Len(ReadIn(x, m)) = x.length
         /\ DOMAIN ReadIn(x, m) = 1..x.length
         /\ \A i \in 1..x.length :
              ReadIn(x, m)[i] = x.charSet[Unit(BytesIn(x, m), x.unitSize, i) + 1]
<1>1. x.charSet \in Seq(Strings) /\ x.unitSize \in UnitSizes /\ x.length \in Nat
  BY ObjectForms DEF Vectors
<1>2. IndexOK(x, BytesIn(x, m))
  BY DEF StringOK
<1> QED BY <1>1, <1>2, IndexReads DEF ReadIn, Vectors

(* However it is read: through the cache, through the index, or unshared.  *)
LEMMA DataIsRead ==
  ASSUME NEW x \in Objects, IsString(x), StringOK(x, mem)
  PROVE  DataOf(x) = ReadIn(x, mem) /\ Unshared(x) = ReadIn(x, mem) /\ Bytes(x) = BytesIn(x, mem)
<1>1. Bytes(x) = BytesIn(x, mem) /\ Unshared(x) = ReadIn(x, mem)
  BY DEF Bytes, BytesIn, Unshared, ReadIn
<1>2. DataOf(x) = [i \in 1..x.length |-> Elt(x, i)]
  BY DEF DataOf
<1>5. ReadIn(x, mem) = [i \in 1..x.length |-> ReadIn(x, mem)[i]]
  BY DEF ReadIn, Decoded
<1>3. CASE x.cache # Nothing
  <2>1. x.cache = ReadIn(x, mem)
    BY <1>3 DEF StringOK
  <2>2. \A i \in 1..x.length : Elt(x, i) = ReadIn(x, mem)[i]
    BY <1>3, <2>1 DEF Elt
  <2> QED BY <1>1, <1>2, <1>5, <2>2
<1>4. CASE x.cache = Nothing
  <2>1. \A i \in 1..x.length : Elt(x, i) = ReadIn(x, mem)[i]
    BY <1>1, <1>4, StringReads DEF Elt
  <2> QED BY <1>1, <1>2, <1>5, <2>1
<1> QED BY <1>3, <1>4

(* Lists that are alike say the same.                                      *)
LEMMA AlikeReads ==
  ASSUME NEW x, NEW y, Alike(x, y), NEW m
  PROVE  /\ BytesIn(x, m) = BytesIn(y, m)
         /\ IndexOK(x, BytesIn(x, m)) <=> IndexOK(y, BytesIn(y, m))
         /\ ReadIn(x, m) = ReadIn(y, m)
BY DEF Alike, BytesIn, IndexOK, ReadIn, Decoded

(* What a list says depends on the contents of its block.                  *)
LEMMA ReadsItsBlock ==
  ASSUME NEW x, NEW m, NEW n, IsView(x.index) => m[x.index.block] = n[x.index.block]
  PROVE  /\ BytesIn(x, m) = BytesIn(x, n)
         /\ ReadIn(x, m) = ReadIn(x, n)
         /\ StringOK(x, m) <=> StringOK(x, n)
<1>1. BytesIn(x, m) = BytesIn(x, n)
  BY DEF BytesIn
<1>2. ReadIn(x, m) = ReadIn(x, n)
  BY <1>1 DEF ReadIn
<1> QED BY <1>1, <1>2 DEF StringOK

----------------------------------------------------------------------------
(* The inductive invariant, part by part: the bindings, the message, the   *)
(* memory, the mappings, and what is held by variables and the message.    *)

BindingsOK ==
  /\ object \in [Vars -> Objects \cup {Nothing}]
  /\ same \in [Vars -> SUBSET Vars] /\ kin \in [Vars -> SUBSET Vars]
  /\ \A v \in Vars :
       /\ v \in same[v] /\ same[v] \subseteq kin[v]
       /\ \A u \in kin[v] : kin[u] = kin[v] /\ object[u] = object[v]
       /\ Bound(v) /\ ~IsString(object[v]) => kin[v] = same[v]

MailOK ==
  /\ mail \in Objects \cup {Nothing}
  /\ IsString(mail) => mail.cache = Nothing

(* Contents of a block: what can be reached, and nothing else, has some.   *)
ContentsOK(b) ==
  IF Alive(b) \/ b \in Mailed THEN mem[b] \in BytesOf ELSE mem[b] = Nothing

BlocksOK ==
  /\ mem \in [Blocks -> BytesOf \cup {Nothing}]
  /\ owner \in [Blocks -> Sessions \cup {Nothing}]
  /\ mapped \in [Sessions -> SUBSET Blocks]

MemoryOK == BlocksOK /\ \A b \in Blocks : ContentsOK(b)

ViewsMapped ==
  \A v \in Vars : \A b \in Blocks : IsViewOf(object[v], b) => b \in mapped[Home[v]]

(* The objects that variables are bound to, and the one in transit.        *)
Held == {object[v] : v \in Vars} \cup {mail}

(* Objects that can be read, and that see what is written through others.  *)
HeldOK(H, m) ==
  /\ \A x \in H : IsString(x) => StringOK(x, m)
  /\ \A x, y \in H : \A b \in Blocks : IsViewOf(x, b) /\ IsViewOf(y, b) => Alike(x, y)

HoldingsOK == HeldOK(Held, mem)

(* The parts make the invariant, and the invariant has them.               *)
LEMMA StrIInvParts ==
  StrIInv <=> BindingsOK /\ MailOK /\ MemoryOK /\ ViewsMapped /\ HoldingsOK
<1>1. StringsAround = {x \in Held : IsString(x)}
  BY DEF StringsAround, Held
<1>2. ViewsMapped <=> \A b \in Blocks : \A v \in Viewers(b) : b \in mapped[Home[v]]
  BY DEF ViewsMapped, Viewers
<1>3. \A x : Bytes(x) = BytesIn(x, mem) /\ Unshared(x) = ReadIn(x, mem)
  BY DEF Bytes, BytesIn, Unshared, ReadIn
<1>4. StrTypeOK <=> /\ BindingsOK /\ MemoryOK
                    /\ mail \in Objects \cup {Nothing}
                    /\ \A v \in Vars : Bound(v) => DataOf(object[v]) \in Vectors
  BY DEF StrTypeOK, BindingsOK, MemoryOK, BlocksOK, ContentsOK
<1>5. ASSUME BindingsOK, mail \in Objects \cup {Nothing}
      PROVE  \A x \in Held : IsString(x) => x \in Objects
  BY <1>5 DEF BindingsOK, Held, IsString
<1>6. ASSUME BindingsOK, mail \in Objects \cup {Nothing}
      PROVE  HeldOK(Held, mem) <=>
               /\ \A x \in StringsAround : IndexOK(x, Bytes(x))
               /\ CacheAgreesWithIndex
               /\ \A b \in Blocks : \A x, y \in StringsAround :
                    IsViewOf(x, b) /\ IsViewOf(y, b) => [x EXCEPT !.cache = y.cache] = y
  <2>1. \A x, y \in StringsAround : Alike(x, y) <=> [x EXCEPT !.cache = y.cache] = y
    BY <1>1, <1>5, <1>6, AlikeIs
  <2>2. (\A x, y \in Held : \A b \in Blocks : IsViewOf(x, b) /\ IsViewOf(y, b) => Alike(x, y))
          <=> \A b \in Blocks : \A x, y \in StringsAround :
                IsViewOf(x, b) /\ IsViewOf(y, b) => [x EXCEPT !.cache = y.cache] = y
    BY <1>1, <2>1 DEF IsViewOf
  <2>3. (\A x \in Held : IsString(x) => StringOK(x, mem))
          <=> (\A x \in StringsAround : IndexOK(x, Bytes(x))) /\ CacheAgreesWithIndex
    BY <1>1, <1>3 DEF StringOK, CacheAgreesWithIndex
  <2> QED BY <2>2, <2>3 DEF HeldOK
<1>7. ASSUME BindingsOK, HeldOK(Held, mem), NEW v \in Vars, Bound(v)
      PROVE  DataOf(object[v]) \in Vectors
  <2>1. object[v] \in Objects /\ object[v] \in Held
    BY <1>7 DEF BindingsOK, Bound, Held
  <2>2. CASE IsString(object[v])
    BY <1>7, <2>1, <2>2, DataIsRead, StringReads DEF HeldOK
  <2>3. CASE ~IsString(object[v])
    BY <2>1, <2>3, ObjectForms DEF DataOf
  <2> QED BY <2>2, <2>3
<1> QED BY <1>2, <1>4, <1>6, <1>7 DEF StrIInv, MailOK, HoldingsOK

(* After a step, too.                                                      *)
LEMMA NextStrIInv ==
  ASSUME BindingsOK', MailOK', MemoryOK', ViewsMapped', HoldingsOK'
  PROVE  StrIInv'
BY StrIInvParts, PTL

(* What is held is an object, and can be read.                             *)
LEMMA HeldReads ==
  ASSUME StrIInv, NEW x \in Held, x # Nothing
  PROVE  /\ x \in Objects
         /\ DataOf(x) \in Vectors
         /\ IsString(x) => /\ StringOK(x, mem)
                           /\ DataOf(x) = ReadIn(x, mem) /\ Unshared(x) = ReadIn(x, mem)
                           /\ Bytes(x) = BytesIn(x, mem)
                           /\ DOMAIN DataOf(x) = 1..x.length
         /\ ~IsString(x) => x = Plain(x.data) /\ DataOf(x) = x.data
<1>1. BindingsOK /\ MailOK /\ HeldOK(Held, mem)
  BY StrIInvParts DEF HoldingsOK
<1>2. x \in Objects
  BY <1>1 DEF BindingsOK, MailOK, Held
<1>3. CASE IsString(x)
  BY <1>1, <1>2, <1>3, DataIsRead, StringReads DEF HeldOK
<1>4. CASE ~IsString(x)
  BY <1>2, <1>4, ObjectForms DEF DataOf
<1> QED BY <1>2, <1>3, <1>4

(* What a variable is bound to is held.                                    *)
LEMMA BoundIsHeld ==
  ASSUME NEW v \in Vars
  PROVE  /\ object[v] \in Held
         /\ Bound(v) <=> object[v] # Nothing
         /\ IsString(object[v]) => Bound(v)
BY DEF Held, Bound, IsString

----------------------------------------------------------------------------
(* The operations on bindings                                              *)

(* One variable is bound to something else.                                *)
LEMMA BindKeeps ==
  ASSUME BindingsOK, NEW v \in Vars, NEW x \in Objects \cup {Nothing}, Bind(v, x)
  PROVE  /\ BindingsOK'
         /\ object'[v] = x
         /\ \A u \in Vars : u # v => object'[u] = object[u]
<1>1. /\ object' \in [Vars -> Objects \cup {Nothing}]
      /\ object'[v] = x
      /\ \A u \in Vars : u # v => object'[u] = object[u]
  BY DEF BindingsOK, Bind
<1>2. /\ same' = [u \in Vars |-> IF u = v THEN {v} ELSE same[u] \ {v}]
      /\ kin' = [u \in Vars |-> IF u = v THEN {v} ELSE kin[u] \ {v}]
  BY DEF Bind
<1>3. same' \in [Vars -> SUBSET Vars] /\ kin' \in [Vars -> SUBSET Vars]
  BY <1>2 DEF BindingsOK
<1>4. ASSUME NEW u \in Vars
      PROVE  /\ u \in same'[u] /\ same'[u] \subseteq kin'[u]
             /\ Bound(u)' /\ ~IsString(object'[u]) => kin'[u] = same'[u]
  BY <1>1, <1>2 DEF BindingsOK, Bound
<1>5. ASSUME NEW u \in Vars, NEW w \in kin'[u]
      PROVE  kin'[w] = kin'[u] /\ object'[w] = object'[u]
  <2>1. CASE u = v
    BY <1>2, <2>1, <1>5
  <2>2. CASE u # v
    <3>1. w \in kin[u] /\ w # v /\ w \in Vars
      BY <1>2, <1>5, <2>2 DEF BindingsOK
    <3>2. kin[w] = kin[u] /\ object[w] = object[u]
      BY <3>1 DEF BindingsOK
    <3> QED BY <1>1, <1>2, <2>2, <3>1, <3>2
  <2> QED BY <2>1, <2>2
<1> QED BY <1>1, <1>3, <1>4, <1>5 DEF BindingsOK

(* A variable joins others.                                                *)
LEMMA AliasKeeps ==
  ASSUME BindingsOK, NEW v \in Vars, NEW w \in Vars, Alias(v, w)
  PROVE  /\ BindingsOK'
         /\ object'[v] = object[w]
         /\ \A u \in Vars : u # v => object'[u] = object[u]
<1> DEFINE group == same[w] \cup {v}
           family == kin[w] \cup {v}
<1>1. /\ object' \in [Vars -> Objects \cup {Nothing}]
      /\ object'[v] = object[w]
      /\ \A u \in Vars : u # v => object'[u] = object[u]
  BY DEF BindingsOK, Alias
<1>2. /\ same' = [u \in Vars |-> IF u \in group THEN group ELSE same[u] \ {v}]
      /\ kin' = [u \in Vars |-> IF u \in family THEN family ELSE kin[u] \ {v}]
  BY DEF Alias
<1>3. /\ group \subseteq family /\ family \subseteq Vars /\ v \in group
      /\ \A u \in kin[w] : kin[u] = kin[w] /\ object[u] = object[w]
      /\ Bound(w) /\ ~IsString(object[w]) => group = family
  BY DEF BindingsOK
<1>4. \A u \in family : object'[u] = object[w]
  BY <1>1, <1>3
<1>5. \A u \in Vars : u \notin family => \A x \in kin[u] : x \notin kin[w]
  BY <1>3 DEF BindingsOK
<1>6. \A u \in Vars :
        /\ u # v => u \in same[u] \ {v}
        /\ same[u] \subseteq kin[u] /\ kin[u] \subseteq Vars
        /\ u \in kin[w] => kin[u] = kin[w]
  BY DEF BindingsOK
<1>7. \A u \in family : u # v => kin[u] = kin[w]
  BY <1>3
<1>8. /\ same' \in [Vars -> SUBSET Vars] /\ kin' \in [Vars -> SUBSET Vars]
      /\ kin[w] \subseteq family
  <2>1. group \subseteq Vars
    BY <1>3
  <2>2. \A u \in Vars : same[u] \ {v} \subseteq Vars /\ kin[u] \ {v} \subseteq Vars
    BY <1>6
  <2> HIDE DEF group, family
  <2>3. same' \in [Vars -> SUBSET Vars] /\ kin' \in [Vars -> SUBSET Vars]
    BY <1>2, <1>3, <2>1, <2>2
  <2> QED BY <2>3 DEF family
<1> HIDE DEF group, family
<1>9. ASSUME NEW u \in Vars
      PROVE  u \in same'[u] /\ same'[u] \subseteq kin'[u]
  <2>1. CASE u \in group
    BY <1>2, <1>3, <2>1
  <2>2. CASE u \notin group
    <3>1. u # v /\ u \in same[u] /\ same'[u] = same[u] \ {v}
      BY <1>2, <1>3, <1>6, <2>2
    <3>2. CASE u \in family
      BY <1>2, <1>6, <1>7, <1>8, <3>1, <3>2
    <3>3. CASE u \notin family
      BY <1>2, <1>6, <3>1, <3>3
    <3> QED BY <3>1, <3>2, <3>3
  <2> QED BY <2>1, <2>2
<1>10. ASSUME NEW u \in Vars, NEW x \in kin'[u]
       PROVE  kin'[x] = kin'[u] /\ object'[x] = object'[u]
  <2>1. CASE u \in family
    BY <1>2, <1>3, <1>4, <1>10, <2>1
  <2>2. CASE u \notin family
    <3>1. x \in kin[u] /\ x # v /\ x \in Vars /\ u # v
      <4>1. kin'[u] = kin[u] \ {v} /\ u # v
        BY <1>2, <1>3, <2>2
      <4>2. x \in kin[u] /\ x # v
        BY <1>10, <4>1
      <4> QED BY <1>6, <4>1, <4>2
    <3>2. kin[x] = kin[u] /\ object[x] = object[u]
      BY <3>1 DEF BindingsOK
    <3>3. x \notin family
      BY <1>5, <2>2, <3>1 DEF family
    <3> QED BY <1>1, <1>2, <2>2, <3>1, <3>2, <3>3
  <2> QED BY <2>1, <2>2
<1>11. ASSUME NEW u \in Vars, object'[u] # Nothing, ~IsString(object'[u])
       PROVE  kin'[u] = same'[u]
  <2>1. CASE u \in family
    BY <1>2, <1>3, <1>4, <1>11, <2>1 DEF Bound
  <2>2. CASE u \notin family
    <3>1. u # v /\ u \notin group /\ object'[u] = object[u]
      BY <1>1, <1>3, <2>2
    <3>2. kin[u] = same[u]
      BY <1>11, <3>1 DEF BindingsOK, Bound
    <3> QED BY <1>2, <2>2, <3>1, <3>2
  <2> QED BY <2>1, <2>2
<1> QED BY <1>1, <1>8, <1>9, <1>10, <1>11 DEF BindingsOK, Bound

(* A list changes for all objects that have it; a variable may leave those *)
(* that are bound to its object, not those that have its list.             *)
LEMMA ModifyKeeps ==
  ASSUME BindingsOK, NEW v \in Vars, IsString(object[v]),
         NEW x \in Objects, IsString(x), ModifyList(v, x),
         \/ same' = same
         \/ same' = [u \in Vars |-> IF u = v THEN {v} ELSE same[u] \ {v}]
  PROVE  /\ BindingsOK'
         /\ \A u \in Vars : object'[u] = IF u \in kin[v] THEN x ELSE object[u]
         /\ \A u \in kin[v] : object[u] = object[v]
<1>1. /\ \A u \in Vars : object'[u] = IF u \in kin[v] THEN x ELSE object[u]
      /\ object' \in [Vars -> Objects \cup {Nothing}] /\ kin' = kin
  BY DEF ModifyList, BindingsOK
<1>2. /\ \A u \in Vars : u \in same[u] /\ same[u] \subseteq kin[u] /\ kin[u] \subseteq Vars
      /\ \A u \in Vars : \A w \in kin[u] : kin[w] = kin[u] /\ object[w] = object[u]
      /\ same \in [Vars -> SUBSET Vars]
  BY DEF BindingsOK
<1>3. /\ same' \in [Vars -> SUBSET Vars]
      /\ \A u \in Vars : u \in same'[u] /\ same'[u] \subseteq kin[u]
  BY <1>2
<1>4. ASSUME NEW u \in Vars, NEW w \in kin[u]
      PROVE  w \in Vars /\ (w \in kin[v] <=> u \in kin[v])
  BY <1>2, <1>4
<1>5. \A u \in Vars : \A w \in kin'[u] : kin'[w] = kin'[u] /\ object'[w] = object'[u]
  BY <1>1, <1>2, <1>4
<1>6. ASSUME NEW u \in Vars, object'[u] # Nothing, ~IsString(object'[u])
      PROVE  kin'[u] = same'[u]
  <2>1. u \notin kin[v] /\ object'[u] = object[u]
    BY <1>1, <1>6
  <2>2. kin[u] = same[u] /\ v \notin kin[u]
    BY <1>2, <1>6, <2>1 DEF BindingsOK, Bound
  <2>3. v \notin same[u] /\ v # u
    BY <1>2, <2>2
  <2>4. same'[u] = same[u]
    BY <2>3
  <2> QED BY <1>1, <2>2, <2>4
<1>7. kin' \in [Vars -> SUBSET Vars]
  BY <1>1 DEF BindingsOK
<1> QED BY <1>1, <1>2, <1>3, <1>5, <1>6, <1>7 DEF BindingsOK, Bound

----------------------------------------------------------------------------
(* The operations on memory                                                *)

(* A block comes into being.                                               *)
LEMMA CreateKeeps ==
  ASSUME MemoryOK, NEW s \in Sessions, NEW b \in Blocks, NEW d \in BytesOf,
         CreateBlock(s, b, d), UNCHANGED mail
  PROVE  /\ MemoryOK'
         /\ b \in mapped'[s] /\ mem'[b] = d
         /\ \A r \in Sessions : mapped[r] \subseteq mapped'[r]
         /\ \A c \in Blocks : c # b => mem'[c] = mem[c]
<1>1. Nothing \notin Sessions /\ Mailed' = Mailed
  BY StringAssumption DEF Mailed
<1>2. /\ mem' \in [Blocks -> BytesOf \cup {Nothing}] /\ mem'[b] = d
      /\ owner' \in [Blocks -> Sessions \cup {Nothing}] /\ owner'[b] = s
      /\ \A c \in Blocks : c # b => mem'[c] = mem[c] /\ owner'[c] = owner[c]
  BY DEF MemoryOK, BlocksOK, CreateBlock
<1>3. /\ mapped' \in [Sessions -> SUBSET Blocks]
      /\ \A r \in Sessions : mapped'[r] = IF r = s THEN mapped[r] \cup {b} ELSE mapped[r]
  BY DEF MemoryOK, BlocksOK, CreateBlock
<1>4. Alive(b)' /\ \A c \in Blocks : c # b => (Alive(c)' <=> Alive(c))
  BY <1>2, <1>3 DEF Alive, Named
<1>5. \A c \in Blocks : ContentsOK(c)'
  BY <1>1, <1>2, <1>4 DEF MemoryOK, ContentsOK
<1> QED BY <1>2, <1>3, <1>5 DEF MemoryOK, BlocksOK

(* A session opens a block.                                                *)
LEMMA OpenKeeps ==
  ASSUME MemoryOK, NEW s \in Sessions, NEW b \in Blocks, Alive(b),
         OpenBlock(s, b), UNCHANGED mail
  PROVE  /\ MemoryOK'
         /\ b \in mapped'[s]
         /\ \A r \in Sessions : mapped[r] \subseteq mapped'[r]
<1>1. Mailed' = Mailed
  BY DEF Mailed
<1>2. /\ mapped' \in [Sessions -> SUBSET Blocks]
      /\ \A r \in Sessions : mapped'[r] = IF r = s THEN mapped[r] \cup {b} ELSE mapped[r]
      /\ mem' = mem /\ owner' = owner
  BY DEF MemoryOK, BlocksOK, OpenBlock
<1>3. \A c \in Blocks : Alive(c)' <=> Alive(c)
  BY <1>2 DEF Alive, Named
<1>4. \A c \in Blocks : ContentsOK(c)'
  BY <1>1, <1>2, <1>3 DEF MemoryOK, ContentsOK
<1> QED BY <1>2, <1>4 DEF MemoryOK, BlocksOK

(* Somebody writes to a block that can be reached.                         *)
LEMMA WriteKeeps ==
  ASSUME MemoryOK, NEW b \in Blocks, NEW d \in BytesOf, Alive(b),
         WriteBlock(b, d), UNCHANGED mail
  PROVE  /\ MemoryOK'
         /\ mapped' = mapped /\ mem'[b] = d
         /\ \A c \in Blocks : c # b => mem'[c] = mem[c]
<1>1. Mailed' = Mailed
  BY DEF Mailed
<1>2. /\ mem' \in [Blocks -> BytesOf \cup {Nothing}] /\ mem'[b] = d
      /\ \A c \in Blocks : c # b => mem'[c] = mem[c]
      /\ owner' = owner /\ mapped' = mapped
  BY DEF MemoryOK, BlocksOK, WriteBlock
<1>3. \A c \in Blocks : Alive(c)' <=> Alive(c)
  BY <1>2 DEF Alive, Named
<1>4. \A c \in Blocks : ContentsOK(c)'
  BY <1>1, <1>2, <1>3 DEF MemoryOK, ContentsOK
<1> QED BY <1>2, <1>4 DEF MemoryOK, BlocksOK

(* What nobody can reach any more is dropped: nothing that has contents    *)
(* and can be reached loses them.                                          *)
LEMMA DropKeeps ==
  ASSUME MemoryOK, DropUnreachable(Mailed'),
         owner' \in [Blocks -> Sessions \cup {Nothing}],
         mapped' \in [Sessions -> SUBSET Blocks],
         \A b \in Blocks : Alive(b)' \/ b \in Mailed' => Alive(b) \/ b \in Mailed
  PROVE  /\ MemoryOK'
         /\ \A b \in Blocks : Alive(b)' \/ b \in Mailed' => mem'[b] = mem[b]
<1>1. \A b \in Blocks : mem'[b] = IF b \in Mailed' \/ Alive(b)' THEN mem[b] ELSE Nothing
  BY DEF DropUnreachable
<1>2. \A b \in Blocks : ContentsOK(b)'
  BY <1>1 DEF MemoryOK, ContentsOK
<1>3. mem' \in [Blocks -> BytesOf \cup {Nothing}]
  BY DEF DropUnreachable, MemoryOK, BlocksOK
<1> QED BY <1>1, <1>2, <1>3 DEF MemoryOK, BlocksOK

(* A session unmaps a block.                                               *)
LEMMA UnmapKeeps ==
  ASSUME MemoryOK, NEW s \in Sessions, NEW b \in Blocks,
         UnmapBlock(s, b, Mailed), UNCHANGED mail
  PROVE  /\ MemoryOK'
         /\ \A c \in Blocks : Alive(c)' \/ c \in Mailed' => mem'[c] = mem[c]
         /\ mapped'[s] = mapped[s] \ {b}
         /\ \A r \in Sessions : r # s => mapped'[r] = mapped[r]
<1>1. Mailed' = Mailed /\ Nothing \notin Sessions
  BY StringAssumption DEF Mailed
<1>2. /\ mapped' \in [Sessions -> SUBSET Blocks]
      /\ \A r \in Sessions : mapped'[r] = IF r = s THEN mapped[r] \ {b} ELSE mapped[r]
  BY DEF MemoryOK, BlocksOK, UnmapBlock
<1>3. /\ owner' \in [Blocks -> Sessions \cup {Nothing}]
      /\ \A c \in Blocks : owner'[c] = IF c = b /\ owner[b] = s THEN Nothing ELSE owner[c]
  BY DEF MemoryOK, BlocksOK, UnmapBlock
<1>4. DropUnreachable(Mailed')
  BY <1>1 DEF UnmapBlock
<1>5. \A c \in Blocks : Alive(c)' => Alive(c)
  BY <1>2, <1>3 DEF Alive, Named
<1>6. /\ MemoryOK'
      /\ \A c \in Blocks : Alive(c)' \/ c \in Mailed' => mem'[c] = mem[c]
  BY <1>1, <1>2, <1>3, <1>4, <1>5, DropKeeps
<1> QED BY <1>2, <1>6

(* The mappings, when the bindings are those of before except one, and     *)
(* nothing is unmapped.                                                    *)
LEMMA ViewsKept ==
  ASSUME ViewsMapped, NEW v \in Vars,
         \A u \in Vars : u # v => object'[u] = object[u],
         \A r \in Sessions : mapped[r] \subseteq mapped'[r],
         \A b \in Blocks : IsViewOf(object'[v], b) => b \in mapped'[Home[v]]
  PROVE  ViewsMapped'
<1>1. \A u \in Vars : Home[u] \in Sessions
  BY StringAssumption
<1>2. ASSUME NEW u \in Vars, NEW b \in Blocks, IsViewOf(object'[u], b)
      PROVE  b \in mapped'[Home[u]]
  <2>1. CASE u = v
    BY <1>2, <2>1
  <2>2. CASE u # v
    BY <1>1, <1>2, <2>2 DEF ViewsMapped
  <2> QED BY <2>1, <2>2
<1> QED BY <1>2 DEF ViewsMapped

----------------------------------------------------------------------------
(* What is held, after a step                                              *)

(* One object, z, may be new, the others are those of before and their     *)
(* blocks have the contents they had.                                      *)
Carried(H, m, G, n, z) ==
  /\ \A x \in G : x = z \/ x \in H
  /\ \A x \in G : x # z => \A b \in Blocks : IsViewOf(x, b) => n[b] = m[b]
  /\ \A x \in G : IsString(x) /\ IsView(x.index) => x.index.block \in Blocks
                                                 /\ IsViewOf(x, x.index.block)
  /\ z \in G /\ IsString(z) => StringOK(z, n)
  /\ \A x \in G \cap H : \A b \in Blocks : IsViewOf(x, b) /\ IsViewOf(z, b) => Alike(x, z)

(* That keeps what is held in order.                                       *)
LEMMA HeldKept ==
  ASSUME NEW H, NEW m, HeldOK(H, m), NEW G, NEW n, NEW z, Carried(H, m, G, n, z)
  PROVE  HeldOK(G, n)
<1>1. ASSUME NEW x \in G, IsString(x)
      PROVE  StringOK(x, n)
  <2>1. CASE x = z
    BY <1>1, <2>1 DEF Carried
  <2>2. CASE x # z
    <3>1. x \in H /\ StringOK(x, m)
      BY <1>1, <2>2 DEF HeldOK, Carried
    <3>2. IsView(x.index) => m[x.index.block] = n[x.index.block]
      BY <1>1, <2>2 DEF Carried
    <3> QED BY <3>1, <3>2, ReadsItsBlock
  <2> QED BY <2>1, <2>2
<1>2. ASSUME NEW x \in G, NEW y \in G, NEW b \in Blocks, IsViewOf(x, b), IsViewOf(y, b)
      PROVE  Alike(x, y)
  <2>1. CASE x = z /\ y = z
    BY <2>1 DEF Alike
  <2>2. CASE x = z /\ y # z
    BY <1>2, <2>2 DEF Alike, Carried
  <2>3. CASE x # z /\ y = z
    BY <1>2, <2>3 DEF Carried
  <2>4. CASE x # z /\ y # z
    BY <1>2, <2>4 DEF HeldOK, Carried
  <2> QED BY <2>1, <2>2, <2>3, <2>4
<1> QED BY <1>1, <1>2 DEF HeldOK

(* The block of an object is the block it is a view of.                    *)
LEMMA ViewForms ==
  ASSUME NEW x \in Objects \cup {Nothing}
  PROVE  /\ IsString(x) /\ IsView(x.index) => /\ x.index.block \in Blocks
                                              /\ IsViewOf(x, x.index.block)
         /\ \A b \in Blocks : IsViewOf(x, b) <=> /\ IsString(x) /\ IsView(x.index)
                                               /\ x.index.block = b
<1>1. IsString(x) => x.index \in IndexRecords
  BY ObjectForms DEF IsString
<1> QED BY <1>1, IndexForms DEF IsViewOf

(* Nobody has a view of a block that is not alive, and no message names it *)
(* unless it is in transit.                                                *)
LEMMA DeadUnviewed ==
  ASSUME ViewsMapped, NEW b \in Blocks \ Mailed, ~Alive(b)
  PROVE  \A x \in Held : ~IsViewOf(x, b)
<1>1. ~IsViewOf(mail, b)
  BY DEF Mailed
<1>2. ASSUME NEW v \in Vars
      PROVE  ~IsViewOf(object[v], b)
  BY StringAssumption DEF ViewsMapped, Alive
<1> QED BY <1>1, <1>2 DEF Held

----------------------------------------------------------------------------
(* Every step keeps the invariant                                          *)

(* One variable is bound to what somebody has, or to something new.        *)
LEMMA OneChanges ==
  ASSUME StrIInv, NEW v \in Vars, NEW z \in Objects \cup {Nothing},
         BindingsOK', object'[v] = z, \A u \in Vars : u # v => object'[u] = object[u],
         UNCHANGED mail, MemoryOK',
         \A r \in Sessions : mapped[r] \subseteq mapped'[r],
         \A b \in Blocks : IsViewOf(z, b) => b \in mapped'[Home[v]],
         \A x \in Held : \A b \in Blocks : IsViewOf(x, b) => mem'[b] = mem[b],
         \/ z \in Held
         \/ /\ IsString(z) => StringOK(z, mem')
            /\ \A x \in Held : \A b \in Blocks :
                 IsViewOf(x, b) /\ IsViewOf(z, b) => Alike(x, z)
  PROVE  StrIInv'
<1>1. BindingsOK /\ MailOK /\ ViewsMapped /\ HeldOK(Held, mem)
  BY StrIInvParts DEF HoldingsOK
<1>2. \A x \in Held' : x = z \/ x \in Held
  BY DEF Held
<1>3. \A x \in Held' : x \in Objects \cup {Nothing}
  BY <1>1, <1>2 DEF Held, BindingsOK, MailOK
<1>4. \A x \in Held' : IsString(x) /\ IsView(x.index) => x.index.block \in Blocks
                                                       /\ IsViewOf(x, x.index.block)
  BY <1>3, ViewForms
<1>5. HeldOK(Held', mem')
  <2>1. CASE z \in Held
    <3>1. ~IsString(Nothing) /\ \A b : ~IsViewOf(Nothing, b)
      BY DEF IsString, IsViewOf
    <3>2. \A x \in Held' : x \in Held
      BY <1>2, <2>1
    <3>3. \A x \in Held' : \A b \in Blocks : IsViewOf(x, b) => mem'[b] = mem[b]
      BY <3>2
    <3>4. Carried(Held, mem, Held', mem', Nothing)
      BY <1>4, <3>1, <3>2, <3>3 DEF Carried
    <3> QED BY <1>1, <3>4, HeldKept
  <2>2. CASE /\ IsString(z) => StringOK(z, mem')
             /\ \A x \in Held : \A b \in Blocks :
                  IsViewOf(x, b) /\ IsViewOf(z, b) => Alike(x, z)
    <3>1. \A x \in Held' : x # z => \A b \in Blocks : IsViewOf(x, b) => mem'[b] = mem[b]
      BY <1>2
    <3>2. Carried(Held, mem, Held', mem', z)
      BY <1>2, <1>4, <2>2, <3>1 DEF Carried
    <3> QED BY <1>1, <3>2, HeldKept
  <2> QED BY <2>1, <2>2
<1> QED BY <1>1, <1>5, ViewsKept, NextStrIInv DEF MailOK, HoldingsOK

(* Memory stays as it is.                                                  *)
LEMMA MemoryStays ==
  ASSUME MemoryOK, UNCHANGED <<blockVars, mail>>
  PROVE  MemoryOK' /\ mem' = mem /\ mapped' = mapped
BY DEF blockVars, MemoryOK, BlocksOK, ContentsOK, Alive, Named, Mailed

(* A plain vector, or nothing.                                             *)
LEMMA PlainKeeps ==
  ASSUME StrIInv, NEW v \in Vars, NEW x \in Objects \cup {Nothing}, ~IsString(x),
         Bind(v, x), UNCHANGED <<blockVars, mail>>
  PROVE  StrIInv'
<1>1. BindingsOK /\ MemoryOK
  BY StrIInvParts
<1>2. BindingsOK' /\ object'[v] = x /\ \A u \in Vars : u # v => object'[u] = object[u]
  BY <1>1, BindKeeps
<1>3. MemoryOK' /\ mem' = mem /\ mapped' = mapped
  BY <1>1, MemoryStays
<1>4. \A b : ~IsViewOf(x, b)
  BY DEF IsViewOf
<1> QED BY <1>2, <1>3, <1>4, OneChanges

(* y <- x                                                                  *)
LEMMA AliasStepKeeps ==
  ASSUME StrIInv, NEW v \in Vars, NEW w \in Vars, Home[v] = Home[w], Alias(v, w)
  PROVE  StrIInv'
<1>1. BindingsOK /\ MemoryOK /\ ViewsMapped
  BY StrIInvParts
<1>2. BindingsOK' /\ object'[v] = object[w] /\ \A u \in Vars : u # v => object'[u] = object[u]
  BY <1>1, AliasKeeps
<1>3. UNCHANGED <<blockVars, mail>>
  BY DEF Alias
<1>4. MemoryOK' /\ mem' = mem /\ mapped' = mapped
  BY <1>1, <1>3, MemoryStays
<1>5. \A b \in Blocks : IsViewOf(object[w], b) => b \in mapped'[Home[v]]
  BY <1>1, <1>4 DEF ViewsMapped
<1>6. object[w] \in Held /\ object[w] \in Objects \cup {Nothing}
  BY <1>1, BoundIsHeld DEF BindingsOK
<1> QED BY <1>2, <1>3, <1>4, <1>5, <1>6, OneChanges

(* What share makes: a string whose cache is its source and whose index    *)
(* encodes it.                                                             *)
LEMMA ShareMakes ==
  ASSUME StrIInv, NEW v \in Vars, NEW w \in Vars, Share(v, w)
  PROVE  \E b \in Blocks \ Mailed, x \in Objects :
           /\ Bound(w) /\ ~Alive(b)
           /\ IsString(x) /\ x.index = View(b)
           /\ Bind(v, x) /\ mail' = mail
           /\ MemoryOK' /\ b \in mapped'[Home[v]]
           /\ \A r \in Sessions : mapped[r] \subseteq mapped'[r]
           /\ \A c \in Blocks : c # b => mem'[c] = mem[c]
           /\ StringOK(x, mem') /\ ReadIn(x, mem') = DataOf(object[w])
<1>1. Bound(w) /\ ~IsString(object[w]) /\ Fits(CharSet(object[w].data))
  BY DEF Share
<1>2. PICK d \in Vectors : d = object[w].data /\ DataOf(object[w]) = d
  BY <1>1, BoundIsHeld, HeldReads, ObjectForms
<1>3. PICK b \in Blocks \ Mailed :
        LET x == FromSource(d, View(b), Home[v] \in Cow) IN
        /\ ~Alive(b)
        /\ CreateBlock(Home[v], b, Encoded(x.cache, x.charSet, x.unitSize))
        /\ Bind(v, x)
        /\ mail' = mail
  BY <1>2 DEF Share
<1>4. PICK x : x = FromSource(d, View(b), Home[v] \in Cow)
  OBVIOUS
<1>5. /\ x = Str(View(b), d, CharSet(d), UnitSize(CharSet(d)), Len(d), Home[v] \in Cow)
      /\ x.charSet = CharSet(d) /\ x.unitSize = UnitSize(CharSet(d)) /\ x.length = Len(d)
      /\ x.cache = d /\ x.index = View(b)
  BY <1>4 DEF FromSource, Str
<1>6. PICK bytes : bytes = Encoded(d, x.charSet, x.unitSize)
  OBVIOUS
<1>7. /\ CharSet(d) \in Vectors /\ x.unitSize \in UnitSizes /\ bytes \in BytesOf
      /\ IndexOK(x, bytes) /\ Decoded(x, bytes) = d
  BY <1>1, <1>2, <1>5, <1>6, EncodedReads DEF Vectors
<1>8. x \in Objects /\ IsString(x)
  <2>1. /\ UnitSize(CharSet(d)) \in UnitSizes /\ Len(d) \in Nat
        /\ (Home[v] \in Cow) \in BOOLEAN /\ View(b) \in IndexRecords
    BY <1>5, <1>7, IndexForms DEF Vectors
  <2> QED BY <1>5, <1>7, <2>1, StrForms
<1>9. MemoryOK /\ Home[v] \in Sessions
  BY StrIInvParts, StringAssumption
<1>10. CreateBlock(Home[v], b, bytes) /\ Bind(v, x) /\ ~Alive(b) /\ mail' = mail
  BY <1>3, <1>4, <1>5, <1>6
<1>11. /\ MemoryOK'
       /\ b \in mapped'[Home[v]] /\ mem'[b] = bytes
       /\ \A r \in Sessions : mapped[r] \subseteq mapped'[r]
       /\ \A c \in Blocks : c # b => mem'[c] = mem[c]
  BY <1>7, <1>9, <1>10, CreateKeeps
<1>12. BytesIn(x, mem') = bytes
  BY <1>5, <1>11, IndexForms DEF BytesIn
<1>13. StringOK(x, mem') /\ ReadIn(x, mem') = d
  BY <1>5, <1>7, <1>12 DEF StringOK, ReadIn
<1> QED BY <1>1, <1>2, <1>5, <1>8, <1>10, <1>11, <1>13

(* share                                                                   *)
LEMMA ShareKeeps ==
  ASSUME StrIInv, NEW v \in Vars, NEW w \in Vars, Share(v, w)
  PROVE  StrIInv'
<1>1. PICK b \in Blocks \ Mailed, x \in Objects :
        /\ Bound(w) /\ ~Alive(b)
        /\ IsString(x) /\ x.index = View(b)
        /\ Bind(v, x) /\ mail' = mail
        /\ MemoryOK' /\ b \in mapped'[Home[v]]
        /\ \A r \in Sessions : mapped[r] \subseteq mapped'[r]
        /\ \A c \in Blocks : c # b => mem'[c] = mem[c]
        /\ StringOK(x, mem') /\ ReadIn(x, mem') = DataOf(object[w])
  BY ShareMakes
<1>2. BindingsOK' /\ object'[v] = x /\ \A u \in Vars : u # v => object'[u] = object[u]
  BY <1>1, StrIInvParts, BindKeeps
<1>3. \A y \in Held : ~IsViewOf(y, b)
  BY <1>1, StrIInvParts, DeadUnviewed
<1>4. \A c \in Blocks : IsViewOf(x, c) => c = b
  BY <1>1, ViewForms, IndexForms
<1>5. /\ \A y \in Held : \A c \in Blocks : IsViewOf(y, c) => mem'[c] = mem[c]
      /\ \A y \in Held : \A c \in Blocks :
           IsViewOf(y, c) /\ IsViewOf(x, c) => Alike(y, x)
      /\ \A c \in Blocks : IsViewOf(x, c) => c \in mapped'[Home[v]]
  BY <1>1, <1>3, <1>4
<1> QED BY <1>1, <1>2, <1>5, OneChanges

(* Bytes of an index are bytes, and the index of a bound one is mapped.    *)
LEMMA BytesTyped ==
  ASSUME StrIInv, NEW x \in Held, IsString(x)
  PROVE  /\ BytesIn(x, mem) \in BytesOf
         /\ \A b \in Blocks : IsViewOf(x, b) => mem[b] \in BytesOf /\ (Alive(b) \/ b \in Mailed)
<1>1. x \in Objects /\ x.index \in IndexRecords
  BY HeldReads, ObjectForms DEF IsString
<1>2. ViewsMapped /\ MemoryOK
  BY StrIInvParts
<1>3. ASSUME NEW b \in Blocks, IsViewOf(x, b)
      PROVE  mem[b] \in BytesOf /\ (Alive(b) \/ b \in Mailed)
  <2>1. CASE x = mail
    BY <1>2, <1>3, <2>1 DEF Mailed, MemoryOK, ContentsOK
  <2>2. CASE \E v \in Vars : x = object[v]
    <3>1. Alive(b)
      BY <1>2, <1>3, <2>2, StringAssumption DEF ViewsMapped, Alive
    <3> QED BY <1>2, <3>1 DEF MemoryOK, ContentsOK
  <2> QED BY <2>1, <2>2 DEF Held
<1>4. BytesIn(x, mem) \in BytesOf
  <2>1. CASE IsView(x.index)
    BY <1>1, <1>3, <2>1, ViewForms DEF BytesIn
  <2>2. CASE ~IsView(x.index)
    BY <1>1, <2>2, IndexForms DEF BytesIn
  <2> QED BY <2>1, <2>2
<1> QED BY <1>3, <1>4

(* The cache is filled with what the index says, for all that have it.     *)
LEMMA CacheFilled ==
  ASSUME StrIInv, NEW v \in Vars, DataPtr(v)
  PROVE  \E z \in Objects :
           /\ IsString(object[v]) /\ IsString(z) /\ Alike(object[v], z)
           /\ StringOK(z, mem)
           /\ BindingsOK'
           /\ \A u \in Vars :
                \/ object'[u] = object[u]
                \/ object'[u] = z /\ object[u] = object[v]
<1>1. PICK x \in Objects : x = object[v] /\ IsString(x) /\ x \in Held
  BY BoundIsHeld, HeldReads DEF DataPtr, IsString
<1>2. StringOK(x, mem) /\ Unshared(x) = ReadIn(x, mem) /\ ReadIn(x, mem) \in Vectors
  BY <1>1, HeldReads, StringReads DEF IsString
<1>3. PICK z : z = [x EXCEPT !.cache = ReadIn(x, mem)]
  OBVIOUS
<1>4. z = Str(x.index, ReadIn(x, mem), x.charSet, x.unitSize, x.length, x.cow)
  BY <1>1, <1>3, StrUpdates
<1>5. /\ z \in Objects /\ IsString(z) /\ Alike(x, z) /\ z.cache = ReadIn(x, mem)
  <2>1. /\ x.index \in IndexRecords /\ x.charSet \in Vectors /\ x.unitSize \in UnitSizes
        /\ x.length \in Nat /\ x.cow \in BOOLEAN
    BY <1>1, ObjectForms
  <2> QED BY <1>2, <1>4, <2>1, StrForms DEF Alike
<1>6. StringOK(z, mem)
  BY <1>2, <1>5, AlikeReads DEF StringOK
<1>7. ModifyList(v, z) /\ same' = same
  BY <1>1, <1>2, <1>3 DEF DataPtr
<1>8. /\ BindingsOK'
      /\ \A u \in Vars : object'[u] = IF u \in kin[v] THEN z ELSE object[u]
      /\ \A u \in kin[v] : object[u] = object[v]
  BY <1>1, <1>5, <1>7, StrIInvParts, ModifyKeeps
<1> QED BY <1>1, <1>5, <1>6, <1>8

(* That keeps the invariant.                                               *)
LEMMA DataPtrKeeps ==
  ASSUME StrIInv, NEW v \in Vars, DataPtr(v)
  PROVE  StrIInv'
<1>1. BindingsOK /\ MailOK /\ MemoryOK /\ ViewsMapped /\ HeldOK(Held, mem)
  BY StrIInvParts DEF HoldingsOK
<1>2. PICK z \in Objects :
        /\ IsString(object[v]) /\ IsString(z) /\ Alike(object[v], z)
        /\ StringOK(z, mem)
        /\ BindingsOK'
        /\ \A u \in Vars :
             \/ object'[u] = object[u]
             \/ object'[u] = z /\ object[u] = object[v]
  BY CacheFilled
<1>3. UNCHANGED <<blockVars, mail>>
  BY DEF DataPtr
<1>4. MemoryOK' /\ mem' = mem /\ mapped' = mapped /\ mail' = mail
  BY <1>1, <1>3, MemoryStays
<1>5. \A b \in Blocks : IsViewOf(z, b) => IsViewOf(object[v], b)
  BY <1>2 DEF IsViewOf, Alike
<1>6. ViewsMapped'
  BY <1>1, <1>2, <1>4, <1>5 DEF ViewsMapped
<1>7. HeldOK(Held', mem')
  <2>1. \A x \in Held' : x = z \/ x \in Held
    BY <1>2, <1>4 DEF Held
  <2>2. \A x \in Held' : x \in Objects \cup {Nothing}
    BY <1>1, <1>2, <2>1 DEF Held, BindingsOK, MailOK
  <2>3. \A x \in Held' : IsString(x) /\ IsView(x.index) => x.index.block \in Blocks
                                                        /\ IsViewOf(x, x.index.block)
    BY <2>2, ViewForms
  <2>4. object[v] \in Held
    BY BoundIsHeld
  <2>5. ASSUME NEW x \in Held, NEW b \in Blocks, IsViewOf(x, b), IsViewOf(z, b)
        PROVE  Alike(x, z)
    <3>1. Alike(x, object[v])
      BY <1>1, <1>5, <2>4, <2>5 DEF HeldOK
    <3> QED BY <1>2, <3>1 DEF Alike
  <2>6. Carried(Held, mem, Held', mem', z)
    BY <1>2, <1>4, <2>1, <2>3, <2>5 DEF Carried
  <2> QED BY <1>1, <2>6, HeldKept
<1> QED BY <1>1, <1>2, <1>4, <1>6, <1>7, NextStrIInv DEF MailOK, HoldingsOK

(* What a careful user's assignment of an element does: all that have the  *)
(* block have it alike and uncached, and it now says the vector with the   *)
(* element changed.                                                        *)
LEMMA ElementWritten ==
  ASSUME StrIInv, Careful, NEW v \in Vars, NEW i \in Indices, NEW c \in Strings,
         SetElement(v, i, c)
  PROVE  \E b \in Blocks :
           /\ IsViewOf(object[v], b) /\ object[v] \in Held
           /\ object' = object /\ mail' = mail /\ mapped' = mapped
           /\ BindingsOK' /\ MemoryOK'
           /\ \A a \in Blocks : a # b => mem'[a] = mem[a]
           /\ \A y \in Held : IsViewOf(y, b) => y.cache = Nothing /\ Alike(object[v], y)
           /\ StringOK(object[v], mem')
           /\ i \in 1..object[v].length
           /\ ReadIn(object[v], mem') = [ReadIn(object[v], mem) EXCEPT ![i] = c]
           /\ object[v].cow => Viewers(b) = {v} /\ b \notin Mailed
<1>1. BindingsOK /\ MailOK /\ MemoryOK /\ ViewsMapped /\ HeldOK(Held, mem)
  BY StrIInvParts DEF HoldingsOK
<1>2. PICK x \in Objects : x = object[v] /\ IsString(x) /\ x \in Held
  BY BoundIsHeld, HeldReads DEF SetElement, IsString
<1>3. /\ IsView(x.index) /\ x.unitSize = 1
      /\ i \in 1..x.length /\ Contains(x.charSet, c)
      /\ \A u \in Viewers(x.index.block) : object[u].cache = Nothing
      /\ x.cow => Viewers(x.index.block) = {v} /\ x.index.block \notin Mailed
  BY <1>2 DEF SetElement, WriteIsSeen
<1>4. PICK b \in Blocks : b = x.index.block /\ IsViewOf(x, b)
  BY <1>2, <1>3, ViewForms
<1>5. /\ BytesIn(x, mem) = mem[b] /\ Bytes(x) = mem[b] /\ mem[b] \in BytesOf
      /\ IndexOK(x, mem[b]) /\ ReadIn(x, mem) = Decoded(x, mem[b])
  BY <1>2, <1>3, <1>4, HeldReads, BytesTyped DEF BytesIn, StringOK, IsString, ReadIn, Bytes
<1>6. PICK after : after = [mem[b] EXCEPT ![i] = Offset(x.charSet, c) % Byte]
  OBVIOUS
<1>7. /\ after \in BytesOf
      /\ IndexOK(x, after)
      /\ Decoded(x, after) = [Decoded(x, mem[b]) EXCEPT ![i] = c]
  <2>1. x.charSet \in Seq(Strings) /\ x.length \in Nat
    BY <1>2, ObjectForms DEF Vectors
  <2>2. PICK bytes \in BytesOf : bytes = mem[b]
    BY <1>5
  <2>3. IndexOK(x, bytes) /\ after = [bytes EXCEPT ![i] = Offset(x.charSet, c) % Byte]
    BY <1>5, <1>6, <2>2
  <2>4. /\ after \in BytesOf
        /\ IndexOK(x, after)
        /\ Decoded(x, after) = [Decoded(x, bytes) EXCEPT ![i] = c]
    <3>1. WritesByte(Strings, x, bytes, i, c, after)
      BY <1>3, <2>1, <2>3 DEF WritesByte
    <3> QED BY <3>1, WrittenByteReads
  <2> QED BY <2>2, <2>4
<1>8. /\ WriteBlock(b, after) /\ ModifyList(v, x) /\ mail' = mail
      /\ same' = [u \in Vars |-> IF u = v THEN {v} ELSE same[u] \ {v}]
  BY <1>2, <1>3, <1>4, <1>5, <1>6 DEF SetElement
<1>9. /\ BindingsOK'
      /\ \A u \in Vars : object'[u] = IF u \in kin[v] THEN x ELSE object[u]
      /\ \A u \in kin[v] : object[u] = object[v]
  BY <1>1, <1>2, <1>8, ModifyKeeps
<1>10. object' = object
  <2>1. object \in [Vars -> Objects \cup {Nothing}]
    BY <1>1 DEF BindingsOK
  <2>2. object' \in [Vars -> Objects \cup {Nothing}]
    BY <1>9 DEF BindingsOK
  <2>3. \A u \in Vars : object'[u] = object[u]
    BY <1>2, <1>9
  <2> QED BY <2>1, <2>2, <2>3
<1>11. Alive(b)
  BY <1>1, <1>2, <1>4, StringAssumption DEF ViewsMapped, Alive
<1>12. /\ MemoryOK' /\ mapped' = mapped /\ mem'[b] = after
       /\ \A a \in Blocks : a # b => mem'[a] = mem[a]
  BY <1>1, <1>7, <1>8, <1>11, WriteKeeps
<1>13. ASSUME NEW y \in Held, IsViewOf(y, b)
       PROVE  y.cache = Nothing /\ Alike(x, y)
  <2>1. Alike(x, y)
    BY <1>1, <1>2, <1>4, <1>13 DEF HeldOK
  <2>2. y.cache = Nothing
    BY <1>1, <1>3, <1>4, <1>13 DEF Held, Viewers, MailOK, IsViewOf
  <2> QED BY <2>1, <2>2
<1>14. BytesIn(x, mem') = after
  BY <1>3, <1>4, <1>12 DEF BytesIn
<1>15. /\ StringOK(x, mem')
       /\ ReadIn(x, mem') = [ReadIn(x, mem) EXCEPT ![i] = c]
  BY <1>2, <1>4, <1>5, <1>7, <1>13, <1>14 DEF StringOK, ReadIn
<1> QED BY <1>2, <1>3, <1>4, <1>8, <1>9, <1>10, <1>12, <1>13, <1>15

(* That keeps the invariant: whoever else has the block reads it.          *)
LEMMA SetElementKeeps ==
  ASSUME StrIInv, Careful, NEW v \in Vars, NEW i \in Indices, NEW c \in Strings,
         SetElement(v, i, c)
  PROVE  StrIInv'
<1>1. MailOK /\ ViewsMapped /\ HeldOK(Held, mem)
  BY StrIInvParts DEF HoldingsOK
<1>2. PICK b \in Blocks :
        /\ IsViewOf(object[v], b) /\ object[v] \in Held
        /\ object' = object /\ mail' = mail /\ mapped' = mapped
        /\ BindingsOK' /\ MemoryOK'
        /\ \A a \in Blocks : a # b => mem'[a] = mem[a]
        /\ \A y \in Held : IsViewOf(y, b) => y.cache = Nothing /\ Alike(object[v], y)
        /\ StringOK(object[v], mem')
  BY ElementWritten
<1>3. ASSUME NEW y \in Held, IsString(y)
      PROVE  StringOK(y, mem')
  <2>1. CASE IsViewOf(y, b)
    BY <1>2, <2>1, AlikeReads DEF StringOK
  <2>2. CASE ~IsViewOf(y, b)
    <3>1. y \in Objects
      BY <1>3, HeldReads DEF IsString
    <3>2. IsView(y.index) => mem[y.index.block] = mem'[y.index.block]
      BY <1>2, <1>3, <2>2, <3>1, ViewForms
    <3>3. StringOK(y, mem)
      BY <1>1, <1>3 DEF HeldOK
    <3> QED BY <3>2, <3>3, ReadsItsBlock
  <2> QED BY <2>1, <2>2
<1>4. Held' = Held
  BY <1>2 DEF Held
<1>5. HeldOK(Held', mem')
  BY <1>1, <1>3, <1>4 DEF HeldOK
<1>6. ViewsMapped' /\ MailOK'
  BY <1>1, <1>2 DEF ViewsMapped, MailOK
<1> QED BY <1>2, <1>5, <1>6, NextStrIInv DEF HoldingsOK

(* A message says what the object says, under its name or by value.        *)
LEMMA SerializedIs ==
  ASSUME StrIInv, NEW x \in Held, IsString(x)
  PROVE  LET z == Serialized(x) IN
         /\ z \in Objects /\ IsString(z) /\ z.cache = Nothing /\ z.cow = x.cow
         /\ \A b \in Blocks : IsViewOf(z, b) => IsViewOf(x, b) /\ Named(b) /\ Alike(x, z)
         /\ \A m : (IsView(z.index) => m[z.index.block] = mem[z.index.block])
                   => StringOK(z, m) /\ ReadIn(z, m) = ReadIn(x, mem)
<1>1. /\ x \in Objects /\ StringOK(x, mem) /\ Bytes(x) = BytesIn(x, mem)
      /\ BytesIn(x, mem) \in BytesOf
  BY HeldReads, BytesTyped DEF IsString
<1>2. /\ x.index \in IndexRecords /\ x.charSet \in Vectors /\ x.unitSize \in UnitSizes
      /\ x.length \in Nat /\ x.cow \in BOOLEAN
  BY <1>1, ObjectForms
<1>3. PICK y : y = IF IsView(x.index) /\ Named(x.index.block) THEN x.index ELSE Plain(Bytes(x))
  OBVIOUS
<1>4. y \in IndexRecords /\ (IsView(y) => y = x.index /\ Named(y.block))
  BY <1>1, <1>2, <1>3, IndexForms
<1>5. \A m : (IsView(y) => m[y.block] = mem[y.block]) =>
        (IF IsView(y) THEN m[y.block] ELSE y.data) = BytesIn(x, mem)
  <2>1. CASE IsView(y)
    BY <1>4, <2>1 DEF BytesIn
  <2>2. CASE ~IsView(y)
    <3>1. y = Plain(BytesIn(x, mem))
      BY <1>1, <1>3, <1>4, <2>2
    <3> QED BY <1>1, <2>2, <3>1, IndexForms
  <2> QED BY <2>1, <2>2
<1>6. Serialized(x) = Str(y, Nothing, x.charSet, x.unitSize, x.length, x.cow)
  <2>1. Serialized(x) = [x EXCEPT !.cache = Nothing, !.index = y]
    BY <1>3 DEF Serialized
  <2>2. \A d, w : [x EXCEPT !.cache = d, !.index = w]
                  = Str(w, d, x.charSet, x.unitSize, x.length, x.cow)
    BY <1>1, StrUpdates
  <2>3. [x EXCEPT !.cache = Nothing, !.index = y]
          = Str(y, Nothing, x.charSet, x.unitSize, x.length, x.cow)
    BY <2>2
  <2> QED BY <2>1, <2>3
<1>7. PICK z : z = Serialized(x)
  OBVIOUS
<1>8. /\ z \in Objects /\ IsString(z) /\ z.cache = Nothing /\ z.index = y
      /\ z.charSet = x.charSet /\ z.unitSize = x.unitSize
      /\ z.length = x.length /\ z.cow = x.cow
  BY <1>2, <1>4, <1>6, <1>7, StrForms
<1>9. ASSUME NEW b \in Blocks, IsViewOf(z, b)
      PROVE  IsViewOf(x, b) /\ Named(b) /\ Alike(x, z)
  <2>1. y = View(b) /\ IsView(y) /\ y.block = b
    BY <1>8, <1>9, IndexForms DEF IsViewOf
  <2> QED BY <1>4, <1>8, <2>1 DEF IsViewOf, Alike
<1>10. ASSUME NEW m, IsView(z.index) => m[z.index.block] = mem[z.index.block]
       PROVE  StringOK(z, m) /\ ReadIn(z, m) = ReadIn(x, mem)
  <2>1. BytesIn(z, m) = BytesIn(x, mem)
    BY <1>5, <1>8, <1>10 DEF BytesIn
  <2>2. IndexOK(z, BytesIn(z, m))
    BY <1>1, <1>8, <2>1 DEF StringOK, IndexOK
  <2>3. ReadIn(z, m) = ReadIn(x, mem)
    BY <1>8, <2>1 DEF ReadIn, Decoded
  <2> QED BY <1>8, <2>2, <2>3 DEF StringOK
<1> QED BY <1>7, <1>8, <1>9, <1>10

(* A message replaces the last one, whose contents may be dropped.         *)
LEMMA MessageSent ==
  ASSUME StrIInv, NEW v \in Vars, Send(v)
  PROVE  /\ object[v] \in Held /\ IsString(object[v])
         /\ mail' = Serialized(object[v])
         /\ object' = object /\ same' = same /\ kin' = kin /\ mapped' = mapped
         /\ MemoryOK'
         /\ \A x \in Held' : \A b \in Blocks : IsViewOf(x, b) => mem'[b] = mem[b]
<1>1. /\ IsString(object[v]) /\ mail' = Serialized(object[v])
      /\ object' = object /\ same' = same /\ kin' = kin /\ mapped' = mapped /\ owner' = owner
      /\ DropUnreachable(Mailed')
  BY DEF Send
<1>2. object[v] \in Held /\ MemoryOK /\ ViewsMapped
  BY BoundIsHeld, StrIInvParts
<1>3. \A b \in Blocks : Alive(b)' <=> Alive(b)
  BY <1>1 DEF Alive, Named
<1>4. \A b \in Blocks : IsViewOf(mail', b) => Named(b)
  BY <1>1, <1>2, SerializedIs
<1>5. \A b \in Blocks : b \in Mailed' => Alive(b)
  BY <1>4 DEF Mailed, Alive
<1>6. /\ MemoryOK'
      /\ \A b \in Blocks : Alive(b)' \/ b \in Mailed' => mem'[b] = mem[b]
  BY <1>1, <1>2, <1>3, <1>5, DropKeeps DEF MemoryOK, BlocksOK
<1>7. ASSUME NEW x \in Held', NEW b \in Blocks, IsViewOf(x, b)
      PROVE  mem'[b] = mem[b]
  <2>1. CASE x = mail'
    BY <1>6, <1>7, <2>1 DEF Mailed
  <2>2. CASE \E u \in Vars : x = object[u]
    <3>1. Alive(b)
      BY <1>2, <1>7, <2>2, StringAssumption DEF ViewsMapped, Alive
    <3> QED BY <1>3, <1>6, <3>1
  <2> QED BY <1>1, <2>1, <2>2 DEF Held
<1> QED BY <1>1, <1>2, <1>6, <1>7

(* That keeps the invariant.                                               *)
LEMMA SendKeeps ==
  ASSUME StrIInv, NEW v \in Vars, Send(v)
  PROVE  StrIInv'
<1>1. BindingsOK /\ MailOK /\ ViewsMapped /\ HeldOK(Held, mem)
  BY StrIInvParts DEF HoldingsOK
<1>2. PICK x : x = object[v]
  OBVIOUS
<1>3. /\ x \in Held /\ IsString(x)
      /\ mail' = Serialized(x)
      /\ object' = object /\ same' = same /\ kin' = kin /\ mapped' = mapped
      /\ MemoryOK'
      /\ \A y \in Held' : \A b \in Blocks : IsViewOf(y, b) => mem'[b] = mem[b]
  BY <1>2, MessageSent
<1>4. PICK z : z = Serialized(x)
  OBVIOUS
<1>5. /\ z \in Objects /\ IsString(z) /\ z.cache = Nothing
      /\ \A b \in Blocks : IsViewOf(z, b) => IsViewOf(x, b) /\ Alike(x, z)
      /\ (IsView(z.index) => mem'[z.index.block] = mem[z.index.block]) => StringOK(z, mem')
  BY <1>3, <1>4, SerializedIs
<1>6. z \in Held' /\ mail' = z
  BY <1>3, <1>4 DEF Held
<1>7. StringOK(z, mem')
  <2>1. IsView(z.index) => mem'[z.index.block] = mem[z.index.block]
    BY <1>3, <1>5, <1>6, ViewForms
  <2> QED BY <1>5, <2>1
<1>8. \A y \in Held' : y = z \/ y \in Held
  BY <1>3, <1>6 DEF Held
<1>9. HeldOK(Held', mem')
  <2>1. \A y \in Held' : y \in Objects \cup {Nothing}
    BY <1>1, <1>5, <1>8 DEF Held, BindingsOK, MailOK
  <2>2. \A y \in Held' : IsString(y) /\ IsView(y.index) => y.index.block \in Blocks
                                                        /\ IsViewOf(y, y.index.block)
    BY <2>1, ViewForms
  <2>3. ASSUME NEW y \in Held, NEW b \in Blocks, IsViewOf(y, b), IsViewOf(z, b)
        PROVE  Alike(y, z)
    <3>1. IsViewOf(x, b) /\ Alike(x, z)
      BY <1>5, <2>3
    <3>2. Alike(y, x)
      BY <1>1, <1>3, <2>3, <3>1 DEF HeldOK
    <3> QED BY <3>1, <3>2 DEF Alike
  <2>4. Carried(Held, mem, Held', mem', z)
    BY <1>3, <1>7, <1>8, <2>2, <2>3 DEF Carried
  <2> QED BY <1>1, <2>4, HeldKept
<1>10. BindingsOK' /\ ViewsMapped'
  BY <1>1, <1>3 DEF BindingsOK, ViewsMapped, Bound
<1>11. MailOK'
  BY <1>5, <1>6 DEF MailOK
<1> QED BY <1>3, <1>9, <1>10, <1>11, NextStrIInv DEF HoldingsOK

(* A message arrives.                                                      *)
LEMMA ReceiveKeeps ==
  ASSUME StrIInv, NEW v \in Vars, Receive(v)
  PROVE  StrIInv'
<1>1. /\ BindingsOK /\ MemoryOK /\ mail' = mail /\ mail \in Objects
      /\ mail \in Held
  BY StrIInvParts DEF Receive, MailOK, Held
<1>2. CASE ~IsString(mail) /\ Bind(v, mail) /\ UNCHANGED blockVars
  BY <1>1, <1>2, PlainKeeps
<1>3. CASE Bind(v, Nothing) /\ UNCHANGED blockVars
  BY <1>1, <1>3, PlainKeeps DEF IsString
<1>4. CASE ~IsView(mail.index) /\ Bind(v, mail) /\ UNCHANGED blockVars
  <2>1. BindingsOK' /\ object'[v] = mail /\ \A u \in Vars : u # v => object'[u] = object[u]
    BY <1>1, <1>4, BindKeeps
  <2>2. MemoryOK' /\ mem' = mem /\ mapped' = mapped
    BY <1>1, <1>4, MemoryStays
  <2>3. \A b \in Blocks : ~IsViewOf(mail, b)
    BY <1>1, <1>4, ViewForms
  <2> QED BY <1>1, <2>1, <2>2, <2>3, OneChanges
<1>5. CASE /\ IsString(mail) /\ IsView(mail.index) /\ CanMap(Home[v], mail.index.block)
           /\ Bind(v, mail) /\ OpenBlock(Home[v], mail.index.block)
  <2>1. PICK s \in Sessions : s = Home[v]
    BY StringAssumption
  <2>2. PICK b \in Blocks : b = mail.index.block /\ \A c \in Blocks : IsViewOf(mail, c) => c = b
    BY <1>1, <1>5, ViewForms
  <2>3. Alive(b)
    BY <1>5, <2>1, <2>2 DEF CanMap, Alive
  <2>4. BindingsOK' /\ object'[v] = mail /\ \A u \in Vars : u # v => object'[u] = object[u]
    BY <1>1, <1>5, BindKeeps
  <2>5. /\ MemoryOK' /\ b \in mapped'[s] /\ \A r \in Sessions : mapped[r] \subseteq mapped'[r]
        /\ mem' = mem
    BY <1>1, <1>5, <2>1, <2>2, <2>3, OpenKeeps DEF OpenBlock
  <2>6. \A c \in Blocks : IsViewOf(mail, c) => c \in mapped'[Home[v]]
    BY <2>1, <2>2, <2>5
  <2> QED BY <1>1, <2>4, <2>5, <2>6, OneChanges
<1> QED BY <1>2, <1>3, <1>4, <1>5 DEF Receive

(* The finalizers of a block.  What is held keeps its contents.            *)
LEMMA BlockCollected ==
  ASSUME StrIInv, NEW s \in Sessions, NEW b \in Blocks, Collect(s, b)
  PROVE  /\ object' = object /\ same' = same /\ kin' = kin /\ mail' = mail
         /\ MemoryOK' /\ ViewsMapped'
         /\ \A x \in Held : \A c \in Blocks : IsViewOf(x, c) => mem'[c] = mem[c]
<1>1. MemoryOK /\ ViewsMapped
  BY StrIInvParts
<1>2. /\ UnmapBlock(s, b, Mailed) /\ \A v \in Viewers(b) : Home[v] # s
      /\ object' = object /\ same' = same /\ kin' = kin /\ mail' = mail
  BY DEF Collect
<1>3. /\ MemoryOK'
      /\ \A c \in Blocks : Alive(c)' \/ c \in Mailed' => mem'[c] = mem[c]
      /\ mapped'[s] = mapped[s] \ {b}
      /\ \A r \in Sessions : r # s => mapped'[r] = mapped[r]
  BY <1>1, <1>2, UnmapKeeps
<1>4. ASSUME NEW v \in Vars, NEW c \in Blocks, IsViewOf(object[v], c)
      PROVE  c \in mapped'[Home[v]] /\ Home[v] \in Sessions
  <2>1. c \in mapped[Home[v]] /\ Home[v] \in Sessions
    BY <1>1, <1>4, StringAssumption DEF ViewsMapped
  <2>2. Home[v] = s => c # b
    BY <1>2, <1>4 DEF Viewers
  <2> QED BY <1>3, <2>1, <2>2
<1>5. ViewsMapped'
  BY <1>2, <1>4 DEF ViewsMapped
<1>6. ASSUME NEW x \in Held, NEW c \in Blocks, IsViewOf(x, c)
      PROVE  mem'[c] = mem[c]
  <2>1. CASE x = mail
    BY <1>2, <1>3, <1>6, <2>1 DEF Mailed
  <2>2. CASE \E v \in Vars : x = object[v]
    BY <1>3, <1>4, <1>6, <2>2 DEF Alive
  <2> QED BY <2>1, <2>2 DEF Held
<1> QED BY <1>2, <1>3, <1>5, <1>6

(* That keeps the invariant.                                               *)
LEMMA CollectKeeps ==
  ASSUME StrIInv, NEW s \in Sessions, NEW b \in Blocks, Collect(s, b)
  PROVE  StrIInv'
<1>1. BindingsOK /\ MailOK /\ HeldOK(Held, mem)
  BY StrIInvParts DEF HoldingsOK
<1>2. /\ object' = object /\ same' = same /\ kin' = kin /\ mail' = mail
      /\ MemoryOK' /\ ViewsMapped'
      /\ \A x \in Held : \A c \in Blocks : IsViewOf(x, c) => mem'[c] = mem[c]
  BY BlockCollected
<1>3. BindingsOK' /\ MailOK' /\ Held' = Held
  BY <1>1, <1>2 DEF BindingsOK, MailOK, Bound, Held
<1>4. HeldOK(Held', mem')
  <2>1. \A x \in Held : x \in Objects \cup {Nothing}
    BY HeldReads
  <2>2. \A x \in Held' : IsString(x) /\ IsView(x.index) => x.index.block \in Blocks
                                                        /\ IsViewOf(x, x.index.block)
    BY <1>3, <2>1, ViewForms
  <2>3. ~IsString(Nothing) /\ \A c : ~IsViewOf(Nothing, c)
    BY DEF IsString, IsViewOf
  <2>4. Carried(Held, mem, Held', mem', Nothing)
    BY <1>2, <1>3, <2>2, <2>3 DEF Carried
  <2> QED BY <1>1, <2>4, HeldKept
<1> QED BY <1>2, <1>3, <1>4, NextStrIInv DEF HoldingsOK

(* What R makes of an unshared string, of a subset and of a duplicate.     *)
LEMMA CopiesMade ==
  ASSUME StrIInv, NEW v \in Vars
  PROVE  /\ \A w \in Vars : Unshare(v, w) =>
              /\ Bound(w) /\ DataOf(object[w]) \in Vectors
              /\ CreatePlain(v, DataOf(object[w]))
         /\ \A w \in Vars, sel \in Selections : Subset(v, w, sel) =>
              LET d == [i \in DOMAIN sel |-> DataOf(object[w])[sel[i]]]
              IN Bound(w) /\ d \in Vectors /\ CreatePlain(v, d)
         /\ \A i \in Indices, c \in Strings : WritePlain(v, i, c) =>
              LET d == [DataOf(object[v]) EXCEPT ![i] = c]
              IN /\ Bound(v) /\ i \in DOMAIN DataOf(object[v])
                 /\ IsString(object[v]) => object[v].cow
                 /\ d \in Vectors /\ CreatePlain(v, d)
<1>1. ASSUME NEW u \in Vars, Bound(u)
      PROVE  /\ DataOf(object[u]) \in Vectors
             /\ IsString(object[u]) => Unshared(object[u]) = DataOf(object[u])
             /\ ~IsString(object[u]) => object[u].data = DataOf(object[u])
  BY <1>1, BoundIsHeld, HeldReads
<1>2. ASSUME NEW w \in Vars, Unshare(v, w)
      PROVE  /\ Bound(w) /\ DataOf(object[w]) \in Vectors
             /\ CreatePlain(v, DataOf(object[w]))
  BY <1>1, <1>2, BoundIsHeld DEF Unshare
<1>3. ASSUME NEW w \in Vars, NEW sel \in Selections, Subset(v, w, sel)
      PROVE  LET d == [i \in DOMAIN sel |-> DataOf(object[w])[sel[i]]]
             IN Bound(w) /\ d \in Vectors /\ CreatePlain(v, d)
  <2>1. PICK D \in Vectors : D = DataOf(object[w])
    BY <1>1, <1>3 DEF Subset
  <2>2. \A i \in DOMAIN sel : sel[i] \in DOMAIN D
    BY <1>3, <2>1 DEF Subset
  <2>3. sel \in Seq(Nat)
    BY StringAssumption
  <2>4. Len(sel) \in Nat /\ DOMAIN sel = 1..Len(sel) /\ \A k \in DOMAIN D : D[k] \in Strings
    BY <2>3 DEF Vectors
  <2>5. \A i \in 1..Len(sel) : D[sel[i]] \in Strings
    BY <2>2, <2>4
  <2>6. [i \in 1..Len(sel) |-> D[sel[i]]] \in Vectors
    BY <2>4, <2>5 DEF Vectors
  <2> QED BY <1>3, <2>1, <2>4, <2>6 DEF Subset
<1>4. ASSUME NEW i \in Indices, NEW c \in Strings, WritePlain(v, i, c)
      PROVE  LET d == [DataOf(object[v]) EXCEPT ![i] = c]
             IN /\ Bound(v) /\ i \in DOMAIN DataOf(object[v])
                /\ IsString(object[v]) => object[v].cow
                /\ d \in Vectors /\ CreatePlain(v, d)
  <2>1. PICK D \in Vectors : D = DataOf(object[v])
    BY <1>1, <1>4 DEF WritePlain
  <2>2. D = IF IsString(object[v]) THEN Unshared(object[v]) ELSE object[v].data
    BY <1>1, <1>4, <2>1 DEF WritePlain
  <2>3. /\ Bound(v) /\ (IsString(object[v]) => object[v].cow) /\ i \in DOMAIN D
        /\ CreatePlain(v, [D EXCEPT ![i] = c])
    BY <1>4, <2>2 DEF WritePlain
  <2>4. [D EXCEPT ![i] = c] \in Vectors
    BY <2>3 DEF Vectors
  <2> QED BY <2>1, <2>3, <2>4
<1> QED BY <1>2, <1>3, <1>4

(* Every step.                                                             *)
LEMMA StrStepKeeps ==
  ASSUME StrIInv, Careful, [StrNext]_strVars
  PROVE  StrIInv'
<1>1. CASE UNCHANGED strVars
  <2>1. /\ object' = object /\ same' = same /\ kin' = kin /\ mail' = mail
        /\ mem' = mem /\ owner' = owner /\ mapped' = mapped
    BY <1>1 DEF strVars, blockVars
  <2>2. BindingsOK /\ MailOK /\ MemoryOK /\ ViewsMapped /\ HoldingsOK
    BY StrIInvParts
  <2>3. BindingsOK' /\ MailOK' /\ ViewsMapped' /\ HoldingsOK'
    BY <2>1, <2>2 DEF BindingsOK, Bound, MailOK, ViewsMapped, HoldingsOK, Held
  <2>4. MemoryOK'
    BY <2>1, <2>2, MemoryStays DEF blockVars
  <2> QED BY <2>3, <2>4, NextStrIInv
<1>2. ASSUME NEW s \in Sessions, NEW b \in Blocks, Collect(s, b)
      PROVE  StrIInv'
  BY <1>2, CollectKeeps
<1>3. ASSUME NEW v \in Vars, NEW d \in Vectors, CreatePlain(v, d)
      PROVE  StrIInv'
  BY <1>3, PlainKeeps, ObjectForms DEF CreatePlain
<1>4. ASSUME NEW v \in Vars, NEW w \in Vars, Home[v] = Home[w],
             \/ Alias(v, w) \/ Unshare(v, w) \/ Share(v, w)
             \/ \E sel \in Selections : Subset(v, w, sel)
      PROVE  StrIInv'
  <2>1. CASE Alias(v, w)
    BY <1>4, <2>1, AliasStepKeeps
  <2>2. CASE Unshare(v, w) \/ \E sel \in Selections : Subset(v, w, sel)
    BY <1>3, <2>2, CopiesMade
  <2>3. CASE Share(v, w)
    BY <2>3, ShareKeeps
  <2> QED BY <1>4, <2>1, <2>2, <2>3
<1>5. ASSUME NEW v \in Vars,
             \/ \E i \in Indices, c \in Strings : WritePlain(v, i, c) \/ SetElement(v, i, c)
             \/ DataPtr(v) \/ Forget(v) \/ NewVector(v) \/ Send(v) \/ Receive(v)
      PROVE  StrIInv'
  <2>1. CASE \E i \in Indices, c \in Strings : WritePlain(v, i, c)
    BY <1>3, <2>1, CopiesMade
  <2>2. CASE \E i \in Indices, c \in Strings : SetElement(v, i, c)
    BY <2>2, SetElementKeeps
  <2>3. CASE DataPtr(v)
    BY <2>3, DataPtrKeeps
  <2>4. CASE Forget(v)
    BY <2>4, PlainKeeps DEF Forget, IsString
  <2>5. CASE NewVector(v)
    BY <1>3, <2>5, StringAssumption DEF NewVector
  <2>6. CASE Send(v)
    BY <2>6, SendKeeps
  <2>7. CASE Receive(v)
    BY <2>7, ReceiveKeeps
  <2> QED BY <1>5, <2>1, <2>2, <2>3, <2>4, <2>5, <2>6, <2>7
<1>6. CASE StrNext
  BY <1>2, <1>4, <1>5, <1>6 DEF StrNext
<1> QED BY <1>1, <1>6

(* The first state.                                                        *)
LEMMA StrInitOK == StrInit => StrIInv
<1> SUFFICES ASSUME StrInit
             PROVE  StrIInv
  OBVIOUS
<1>1. Plain(Initial) \in Objects /\ ~IsString(Plain(Initial)) /\ ~IsString(Nothing)
  BY StringAssumption, ObjectForms DEF IsString
<1>2. BindingsOK /\ MailOK
  BY <1>1 DEF StrInit, BindingsOK, MailOK, Bound
<1>3. \A x \in Held : ~IsString(x)
  BY <1>1 DEF StrInit, Held
<1>4. ViewsMapped /\ HoldingsOK
  BY <1>3 DEF ViewsMapped, HoldingsOK, HeldOK, IsViewOf, Held
<1>5. Mailed = {}
  BY <1>3 DEF Mailed, IsViewOf, Held
<1>6. MemoryOK
  BY <1>5 DEF StrInit, MemInit, MemoryOK, BlocksOK, ContentsOK, Alive, Named
<1> QED BY <1>2, <1>4, <1>6, StrIInvParts

(* In every behaviour of users who follow the advice not to write to       *)
(* shared strings that others read otherwise, for any number of sessions,  *)
(* variables and blocks, vectors of any length and any set of strings.     *)
THEOREM StrInductiveInvariant ==
  ASSUME Careful
  PROVE  StrSpec => []StrIInv
<1>1. StrInit => StrIInv
  BY StrInitOK
<1>2. StrIInv /\ [StrNext]_strVars => StrIInv'
  BY StrStepKeeps
<1> QED BY <1>1, <1>2, PTL DEF StrSpec

(* The variables of SharedString have their types: whatever a variable is  *)
(* bound to can be read as strings.                                        *)
THEOREM StrTypeCorrect ==
  ASSUME Careful
  PROVE  StrSpec => []StrTypeOK
<1>1. StrIInv => StrTypeOK
  BY DEF StrIInv
<1> QED BY <1>1, StrInductiveInvariant, PTL

(* A cached vector and the index say the same, whoever filled the cache,   *)
(* and whatever was written to the block since.                            *)
THEOREM CacheIsTheIndex ==
  ASSUME Careful
  PROVE  StrSpec => []CacheAgreesWithIndex
<1>1. StrIInv => CacheAgreesWithIndex
  BY DEF StrIInv
<1> QED BY <1>1, StrInductiveInvariant, PTL

----------------------------------------------------------------------------
(***************************************************************************)
(* SharedString implements ValueStore: encoded, cached, decoded, aliased,  *)
(* duplicated, sent, read late or collected, a string with copy on write   *)
(* changes only when its variable is assigned, and those without it that   *)
(* have one block change together.  The refinement mapping is that of      *)
(* SharedString (Promise there).                                           *)
(***************************************************************************)

(* Without copy on write an object belongs to the group of its block.      *)
InGroup(x, b) == IsViewOf(x, b) /\ ~x.cow

(* The value of an object under given contents of the blocks.              *)
Val(x, m) ==
  IF x = Nothing THEN Nothing
  ELSE IF IsString(x) /\ IsView(x.index) /\ ~x.cow THEN <<"common", x.index.block>>
  ELSE <<"own", IF IsString(x) THEN ReadIn(x, m) ELSE x.data>>

(* Its value is common exactly in a group, and its own otherwise.          *)
LEMMA ValForms ==
  ASSUME NEW x \in Objects \cup {Nothing}
  PROVE  /\ \A m : \A b \in Blocks : Val(x, m) = <<"common", b>> <=> InGroup(x, b)
         /\ \A m, n : (\A b \in Blocks : IsViewOf(x, b) /\ ~InGroup(x, b) => m[b] = n[b])
                      => Val(x, m) = Val(x, n)
         /\ IsString(x) /\ (\A b \in Blocks : ~InGroup(x, b))
              => \A m : Val(x, m) = <<"own", ReadIn(x, m)>>
         /\ x # Nothing /\ ~IsString(x) => \A m : Val(x, m) = <<"own", x.data>>
         /\ \A m : (IsString(x) => ReadIn(x, m) \in Vectors) /\ x # Nothing
                   => Val(x, m) # Nothing
<1>1. CASE x = Nothing
  <2>1. ~IsString(x) /\ \A b : ~InGroup(x, b)
    BY <1>1 DEF IsString, InGroup, IsViewOf
  <2>2. \A b \in Blocks : Nothing # <<"common", b>>
    BY StringAssumption
  <2>3. \A m : Val(x, m) = Nothing
    BY <1>1 DEF Val
  <2> QED BY <1>1, <2>1, <2>2, <2>3
<1>2. CASE IsString(x) /\ IsView(x.index) /\ ~x.cow
  <2>1. PICK b \in Blocks : b = x.index.block /\ InGroup(x, b)
    BY <1>2, ViewForms DEF InGroup
  <2>2. \A m : Val(x, m) = <<"common", b>>
    BY <1>2, <2>1 DEF Val, IsString
  <2>3. \A c \in Blocks : InGroup(x, c) <=> c = b
    BY <1>2, <2>1, ViewForms DEF InGroup
  <2>4. Nothing # <<"common", b>> /\ x # Nothing
    BY <1>2, StringAssumption DEF IsString
  <2> QED BY <1>2, <2>1, <2>2, <2>3, <2>4
<1>3. CASE IsString(x) /\ ~(IsView(x.index) /\ ~x.cow)
  <2>1. \A b \in Blocks : ~InGroup(x, b)
    BY <1>3, ViewForms DEF InGroup
  <2>2. \A m : Val(x, m) = <<"own", ReadIn(x, m)>>
    BY <1>3 DEF Val, IsString
  <2>3. \A m, n : (\A b \in Blocks : IsViewOf(x, b) => m[b] = n[b]) => ReadIn(x, m) = ReadIn(x, n)
    BY <1>3, ViewForms, ReadsItsBlock
  <2>4. \A m : ReadIn(x, m) \in Vectors => Nothing # <<"own", ReadIn(x, m)>>
    BY StringAssumption
  <2> QED BY <1>3, <2>1, <2>2, <2>3, <2>4
<1>4. CASE x # Nothing /\ ~IsString(x)
  <2>1. \A m : Val(x, m) = <<"own", x.data>>
    BY <1>4 DEF Val
  <2>2. \A b : ~InGroup(x, b)
    BY <1>4 DEF InGroup, IsViewOf
  <2>3. x.data \in Vectors /\ Nothing # <<"own", x.data>>
    BY <1>4, ObjectForms, StringAssumption
  <2> QED BY <1>4, <2>1, <2>2, <2>3
<1> QED BY <1>1, <1>2, <1>3, <1>4

(* Lists that are alike have the same value.                               *)
LEMMA AlikeVal ==
  ASSUME NEW x, NEW y, IsString(x), IsString(y), Alike(x, y), NEW m
  PROVE  Val(x, m) = Val(y, m)
BY AlikeReads DEF Val, Alike, IsString

(* What the refinement mapping shows.                                      *)
Mapping ==
  /\ Values = [v \in Vars |-> Val(object[v], mem)]
  /\ ValueOf(mail) = Val(mail, mem)
  /\ DOMAIN Common = Blocks /\ Common = [b \in Blocks |-> Common[b]]
  /\ \A b \in Blocks : \A x \in Held : InGroup(x, b) => Common[b] = ReadIn(x, mem)
  /\ \A b \in Blocks : (\A x \in Held : ~InGroup(x, b)) => Common[b] = Nothing

(* It does.                                                                *)
LEMMA MappingIs == StrIInv => Mapping
<1> SUFFICES ASSUME StrIInv
             PROVE  Mapping
  OBVIOUS
<1>1. \A x \in Held : ValueOf(x) = Val(x, mem)
  <2> SUFFICES ASSUME NEW x \in Held
               PROVE  ValueOf(x) = Val(x, mem)
    OBVIOUS
  <2>1. CASE x = Nothing
    BY <2>1 DEF ValueOf, Val
  <2>2. CASE x # Nothing /\ IsString(x)
    <3>1. DataOf(x) = ReadIn(x, mem)
      BY <2>2, HeldReads
    <3> QED BY <2>2, <3>1 DEF ValueOf, Val
  <2>3. CASE x # Nothing /\ ~IsString(x)
    <3>1. DataOf(x) = x.data
      BY <2>3, HeldReads
    <3> QED BY <2>3, <3>1 DEF ValueOf, Val
  <2> QED BY <2>1, <2>2, <2>3
<1>2. /\ Values = [v \in Vars |-> Val(object[v], mem)]
      /\ ValueOf(mail) = Val(mail, mem)
  BY <1>1 DEF Values, Held
<1>3. DOMAIN Common = Blocks /\ Common = [b \in Blocks |-> Common[b]]
  BY DEF Common
<1>4. ASSUME NEW b \in Blocks
      PROVE  /\ \A x \in Held : InGroup(x, b) => Common[b] = ReadIn(x, mem)
             /\ (\A x \in Held : ~InGroup(x, b)) => Common[b] = Nothing
  <2> DEFINE members == {x \in StringsAround : ValueOf(x) = <<"common", b>>}
  <2>1. Common[b] = IF members = {} THEN Nothing ELSE DataOf(CHOOSE x \in members : TRUE)
    BY DEF Common
  <2>2. StringsAround = {x \in Held : IsString(x)}
    BY DEF StringsAround, Held
  <2>3. \A x \in Held : x \in Objects \cup {Nothing}
    BY HeldReads
  <2>4. \A x : x \in members <=> x \in Held /\ InGroup(x, b)
    BY <1>1, <2>2, <2>3, ValForms DEF InGroup, IsViewOf
  <2> HIDE DEF members
  <2>5. ASSUME NEW x \in Held, InGroup(x, b)
        PROVE  Common[b] = ReadIn(x, mem)
    <3>1. PICK y : y = CHOOSE z \in members : TRUE
      OBVIOUS
    <3>2. y \in members /\ members # {}
      BY <2>4, <2>5, <3>1
    <3>3. Common[b] = DataOf(y) /\ y \in Held /\ InGroup(y, b)
      BY <2>1, <2>4, <3>1, <3>2
    <3>4. DataOf(y) = ReadIn(y, mem)
      BY <3>3, HeldReads DEF InGroup, IsViewOf, IsString
    <3>5. Alike(x, y)
      BY <2>5, <3>3, StrIInvParts DEF HoldingsOK, HeldOK, InGroup
    <3> QED BY <3>3, <3>4, <3>5, AlikeReads
  <2>6. (\A x \in Held : ~InGroup(x, b)) => Common[b] = Nothing
    BY <2>1, <2>4
  <2> QED BY <2>5, <2>6
<1> QED BY <1>2, <1>3, <1>4 DEF Mapping

(* Both ends of a step satisfy the invariant, and can be mapped.           *)
Sound == StrIInv /\ StrIInv' /\ Mapping /\ Mapping'

(* Any step of a careful user.                                             *)
LEMMA StepsAreSound ==
  ASSUME StrIInv, StrIInv'
  PROVE  Sound
<1>1. Mapping
  BY MappingIs
<1>2. Mapping'
  BY MappingIs, PTL
<1> QED BY <1>1, <1>2 DEF Sound

----------------------------------------------------------------------------
(* What ValueStore says of a step, in terms of SharedString                *)

(* A group is inhabited while somebody has an object of it, or while one   *)
(* is in transit.                                                          *)
LEMMA Inhabitants ==
  ASSUME Sound, NEW g \in Blocks
  PROVE  /\ Promise!Inhabited(g) <=> \E x \in Held : InGroup(x, g)
         /\ Promise!Inhabited(g)' <=> \E x \in Held' : InGroup(x, g)
<1>1. /\ \A x \in Held : x \in Objects \cup {Nothing}
      /\ mail' \in Objects \cup {Nothing} /\ \A v \in Vars : object'[v] \in Objects \cup {Nothing}
  <2>1. \A x \in Held : x \in Objects \cup {Nothing}
    BY HeldReads DEF Sound
  <2>2. BindingsOK' /\ MailOK'
    BY StrIInvParts, PTL DEF Sound
  <2> QED BY <2>1, <2>2 DEF BindingsOK, MailOK
<1>2. /\ mail \in Objects \cup {Nothing} /\ \A v \in Vars : object[v] \in Objects \cup {Nothing}
  BY <1>1 DEF Held
<1>3. /\ \A v \in Vars : Values[v] = Val(object[v], mem)
      /\ \A v \in Vars : Values'[v] = Val(object'[v], mem')
      /\ ValueOf(mail) = Val(mail, mem) /\ ValueOf(mail)' = Val(mail', mem')
  BY DEF Sound, Mapping
<1>4. /\ \A v \in Vars : Values[v] = <<"common", g>> <=> InGroup(object[v], g)
      /\ \A v \in Vars : Values'[v] = <<"common", g>> <=> InGroup(object'[v], g)
      /\ ValueOf(mail) = <<"common", g>> <=> InGroup(mail, g)
      /\ ValueOf(mail)' = <<"common", g>> <=> InGroup(mail', g)
  <2>1. \A x \in Objects \cup {Nothing} : \A m : Val(x, m) = <<"common", g>> <=> InGroup(x, g)
    BY ValForms
  <2>2. \A v \in Vars : Values[v] = <<"common", g>> <=> InGroup(object[v], g)
    BY <1>2, <1>3, <2>1
  <2>3. \A v \in Vars : Values'[v] = <<"common", g>> <=> InGroup(object'[v], g)
    BY <1>1, <1>3, <2>1
  <2>4. ValueOf(mail) = <<"common", g>> <=> InGroup(mail, g)
    BY <1>2, <1>3, <2>1
  <2>5. ValueOf(mail)' = <<"common", g>> <=> InGroup(mail', g)
    BY <1>1, <1>3, <2>1
  <2> QED BY <2>2, <2>3, <2>4, <2>5
<1>5. /\ Promise!Inhabited(g) <=> (\E v \in Vars : Values[v] = <<"common", g>>)
                                 \/ ValueOf(mail) = <<"common", g>>
      /\ Promise!Inhabited(g)' <=> (\E v \in Vars : Values'[v] = <<"common", g>>)
                                  \/ ValueOf(mail)' = <<"common", g>>
  BY DEF Promise!Inhabited, Promise!Members, Promise!Common
<1> QED BY <1>4, <1>5 DEF Held

(* Which values change.                                                    *)
LEMMA PromiseMeans ==
  ASSUME Sound, NEW v \in Vars
  PROVE  /\ (\A u \in Vars : u # v => Val(object'[u], mem') = Val(object[u], mem))
              => Promise!Only(v)
         /\ \A x : Promise!Set(v, x) <=> Val(object'[v], mem') = x
         /\ Values[v] = Val(object[v], mem)
         /\ ValueOf(mail) = Val(mail, mem) /\ ValueOf(mail)' = Val(mail', mem')
<1>1. /\ Values = [u \in Vars |-> Val(object[u], mem)]
      /\ Values' = [u \in Vars |-> Val(object'[u], mem')]
      /\ ValueOf(mail) = Val(mail, mem) /\ ValueOf(mail)' = Val(mail', mem')
  BY DEF Sound, Mapping
<1> QED BY <1>1 DEF Promise!Only, Promise!Set

(* Groups other than b keep what they had.                                 *)
GroupsStayBut(b) ==
  \A g \in Blocks \ {b} : \A x \in Held' : InGroup(x, g) =>
    \E y \in Held : InGroup(y, g) /\ ReadIn(y, mem) = ReadIn(x, mem')

(* All of them do.                                                         *)
GroupsStay ==
  \A g \in Blocks : \A x \in Held' : InGroup(x, g) =>
    \E y \in Held : InGroup(y, g) /\ ReadIn(y, mem) = ReadIn(x, mem')

(* b gets new contents.                                                    *)
GroupGets(b, d) ==
  GroupsStayBut(b) /\ \A x \in Held' : InGroup(x, b) => ReadIn(x, mem') = d

(* The contents of groups after a step.                                    *)
LEMMA CommonIs ==
  ASSUME Sound, NEW contents, DOMAIN contents = Blocks,
         \A g \in Blocks : \A x \in Held' : InGroup(x, g) => ReadIn(x, mem') = contents[g]
  PROVE  Promise!GroupsHold(contents)
<1>1. Common' = [g \in Blocks |-> Common'[g]]
  BY DEF Sound, Mapping
<1>2. ASSUME NEW g \in Blocks
      PROVE  Common'[g] = IF Promise!Inhabited(g)' THEN contents[g] ELSE Nothing
  <2>1. CASE \E x \in Held' : InGroup(x, g)
    <3>1. PICK x \in Held' : InGroup(x, g)
      BY <2>1
    <3>2. Common'[g] = ReadIn(x, mem')
      BY <3>1 DEF Sound, Mapping
    <3> QED BY <2>1, <3>1, <3>2, Inhabitants
  <2>2. CASE \A x \in Held' : ~InGroup(x, g)
    <3>1. Common'[g] = Nothing
      BY <2>2 DEF Sound, Mapping
    <3> QED BY <2>2, <3>1, Inhabitants
  <2> QED BY <2>1, <2>2
<1> QED BY <1>1, <1>2 DEF Promise!GroupsHold

(* The groups keep their contents.                                         *)
LEMMA GroupsHoldMeans ==
  ASSUME Sound, GroupsStay
  PROVE  Promise!GroupsHold(Common)
<1>1. ASSUME NEW g \in Blocks, NEW x \in Held', InGroup(x, g)
      PROVE  ReadIn(x, mem') = Common[g]
  <2>1. PICK y \in Held : InGroup(y, g) /\ ReadIn(y, mem) = ReadIn(x, mem')
    BY <1>1 DEF GroupsStay
  <2> QED BY <2>1 DEF Sound, Mapping
<1>2. DOMAIN Common = Blocks
  BY DEF Sound, Mapping
<1> QED BY <1>1, <1>2, CommonIs

(* One group gets new contents.                                            *)
LEMMA GroupGetsMeans ==
  ASSUME Sound, NEW b \in Blocks, NEW d, GroupGets(b, d)
  PROVE  Promise!GroupsHold([Common EXCEPT ![b] = d])
<1> DEFINE contents == [Common EXCEPT ![b] = d]
<1>1. DOMAIN Common = Blocks
  BY DEF Sound, Mapping
<1>2. DOMAIN contents = Blocks /\ \A g \in Blocks : contents[g] = IF g = b THEN d ELSE Common[g]
  BY <1>1
<1> HIDE DEF contents
<1>3. ASSUME NEW g \in Blocks, NEW x \in Held', InGroup(x, g)
      PROVE  ReadIn(x, mem') = contents[g]
  <2>1. CASE g = b
    BY <1>2, <1>3, <2>1 DEF GroupGets
  <2>2. CASE g # b
    <3>1. PICK y \in Held : InGroup(y, g) /\ ReadIn(y, mem) = ReadIn(x, mem')
      BY <1>3, <2>2 DEF GroupGets, GroupsStayBut
    <3>2. Common[g] = ReadIn(y, mem)
      BY <3>1 DEF Sound, Mapping
    <3> QED BY <1>2, <2>2, <3>1, <3>2
  <2> QED BY <2>1, <2>2
<1>4. Promise!GroupsHold(contents)
  BY <1>2, <1>3, CommonIs
<1> QED BY <1>4 DEF contents

(* What a value contains is what the object says.                          *)
LEMMA ContentsAre ==
  ASSUME Sound, NEW x \in Held, x # Nothing
  PROVE  /\ x \in Objects
         /\ DataOf(x) \in Vectors
         /\ Val(x, mem) # Nothing
         /\ Promise!Contents(Val(x, mem)) = DataOf(x)
         /\ (\A b \in Blocks : ~InGroup(x, b)) => Val(x, mem) = <<"own", DataOf(x)>>
<1>1. /\ x \in Objects /\ DataOf(x) \in Vectors
      /\ IsString(x) => DataOf(x) = ReadIn(x, mem)
      /\ ~IsString(x) => DataOf(x) = x.data
  BY HeldReads DEF Sound
<1>2. (\A b \in Blocks : ~InGroup(x, b)) => Val(x, mem) = <<"own", DataOf(x)>>
  BY <1>1, ValForms
<1>3. Val(x, mem) # Nothing
  <2>1. IsString(x) => ReadIn(x, mem) \in Vectors
    BY <1>1
  <2> QED BY <1>1, <2>1, ValForms
<1>4. Promise!Contents(Val(x, mem)) = DataOf(x)
  <2>1. CASE \A b \in Blocks : ~InGroup(x, b)
    <3>1. <<"own", DataOf(x)>>[1] = "own" /\ <<"own", DataOf(x)>>[2] = DataOf(x)
      OBVIOUS
    <3> QED BY <1>2, <2>1, <3>1 DEF Promise!Contents
  <2>2. CASE \E b \in Blocks : InGroup(x, b)
    <3>1. PICK b \in Blocks : InGroup(x, b)
      BY <2>2
    <3>2. Val(x, mem) = <<"common", b>> /\ Common[b] = ReadIn(x, mem)
      BY <1>1, <3>1, ValForms DEF Sound, Mapping
    <3>3. <<"common", b>>[1] # "own" /\ <<"common", b>>[2] = b
      OBVIOUS
    <3>4. IsString(x)
      BY <3>1 DEF InGroup, IsViewOf
    <3> QED BY <1>1, <3>2, <3>3, <3>4 DEF Promise!Contents
  <2> QED BY <2>1, <2>2
<1> QED BY <1>1, <1>2, <1>3, <1>4

----------------------------------------------------------------------------
(* The steps of the promise                                                *)

(* Nothing that is not v's changes its value: neither another variable nor *)
(* the message.                                                            *)
OnlyOf(v) ==
  /\ \A u \in Vars : u # v => Val(object'[u], mem') = Val(object[u], mem)
  /\ Val(mail', mem') = Val(mail, mem)

(* v becomes a value of its own.                                           *)
LEMMA OwnStep ==
  ASSUME Sound, NEW v \in Vars, NEW d, OnlyOf(v), GroupsStay,
         Val(object'[v], mem') = <<"own", d>>
  PROVE  /\ Promise!Only(v) /\ Promise!Fresh(v, d)
         /\ Promise!Set(v, <<"own", d>>)
         /\ Promise!GroupsHold(Common)
         /\ ValueOf(mail)' = ValueOf(mail)
<1>1. Promise!Only(v) /\ Promise!Set(v, <<"own", d>>)
  BY PromiseMeans DEF OnlyOf
<1>2. Promise!GroupsHold(Common)
  BY GroupsHoldMeans
<1>3. ValueOf(mail)' = ValueOf(mail)
  BY PromiseMeans DEF OnlyOf
<1>4. Promise!Fresh(v, d)
  BY <1>1, <1>2, <1>3 DEF Promise!Fresh, Promise!Own
<1> QED BY <1>1, <1>2, <1>3, <1>4

(* v becomes the first of a new group.                                     *)
LEMMA GroupStep ==
  ASSUME Sound, NEW v \in Vars, NEW d, NEW b \in Blocks, OnlyOf(v), GroupGets(b, d),
         \A x \in Held : ~InGroup(x, b),
         Val(object'[v], mem') = <<"common", b>>
  PROVE  Promise!Only(v) /\ Promise!Fresh(v, d)
<1>1. Promise!Only(v) /\ Promise!Set(v, <<"common", b>>)
  BY PromiseMeans DEF OnlyOf
<1>2. ~Promise!Inhabited(b)
  BY Inhabitants
<1>3. Promise!GroupsHold([Common EXCEPT ![b] = d])
  BY GroupGetsMeans
<1>4. ValueOf(mail)' = ValueOf(mail)
  BY PromiseMeans DEF OnlyOf
<1>5. Promise!Fresh(v, d)
  BY <1>1, <1>2, <1>3, <1>4
    DEF Promise!Fresh, Promise!Common, Promise!Set, Promise!GroupsHold, Promise!Inhabited
<1> QED BY <1>1, <1>5

(* v is bound to something that is there already, or to nothing.           *)
LEMMA BoundStep ==
  ASSUME Sound, NEW v \in Vars, NEW x \in Held \cup {Nothing}, object'[v] = x,
         \A u \in Vars : u # v => object'[u] = object[u], UNCHANGED <<mem, mail>>
  PROVE  /\ Promise!Only(v)
         /\ Promise!Set(v, Val(x, mem))
         /\ Promise!GroupsHold(Common)
         /\ ValueOf(mail)' = ValueOf(mail)
<1>1. Promise!Only(v) /\ Promise!Set(v, Val(x, mem)) /\ ValueOf(mail)' = ValueOf(mail)
  BY PromiseMeans
<1>2. \A y \in Held' : y \in Held \/ y = Nothing
  BY DEF Held
<1>3. GroupsStay
  BY <1>2 DEF GroupsStay, InGroup, IsViewOf, IsString
<1> QED BY <1>1, <1>3, GroupsHoldMeans

(* A step that the users do not notice.                                    *)
LEMMA StutterStep ==
  ASSUME Sound,
         \A u \in Vars : Val(object'[u], mem') = Val(object[u], mem),
         Val(mail', mem') = Val(mail, mem),
         GroupsStay
  PROVE  UNCHANGED Promise!store
<1>1. /\ Values = [u \in Vars |-> Val(object[u], mem)]
      /\ Values' = [u \in Vars |-> Val(object'[u], mem')]
      /\ ValueOf(mail) = Val(mail, mem) /\ ValueOf(mail)' = Val(mail', mem')
  BY DEF Sound, Mapping
<1>2. Values' = Values /\ ValueOf(mail)' = ValueOf(mail)
  BY <1>1
<1>3. \A g \in Blocks : Promise!Inhabited(g)' <=> Promise!Inhabited(g)
  BY <1>2 DEF Promise!Inhabited, Promise!Members
<1>4. Promise!GroupsHold(Common)
  BY GroupsHoldMeans
<1>5. Common' = [g \in Blocks |-> IF Promise!Inhabited(g)' THEN Common[g] ELSE Nothing]
  BY <1>4 DEF Promise!GroupsHold
<1>6. \A g \in Blocks : Common'[g] = Common[g]
  <2> SUFFICES ASSUME NEW g \in Blocks
               PROVE  Common'[g] = Common[g]
    OBVIOUS
  <2>1. CASE Promise!Inhabited(g)'
    BY <1>5, <2>1
  <2>2. CASE ~Promise!Inhabited(g)'
    <3>1. \A x \in Held : ~InGroup(x, g)
      BY <1>3, <2>2, Inhabitants
    <3>2. Common[g] = Nothing
      BY <3>1 DEF Sound, Mapping
    <3> QED BY <1>5, <2>2, <3>2
  <2> QED BY <2>1, <2>2
<1>7. Common' = Common
  <2>1. Common' = [b \in Blocks |-> Common'[b]] /\ Common = [b \in Blocks |-> Common[b]]
    BY DEF Sound, Mapping
  <2> QED BY <1>6, <2>1
<1> QED BY <1>2, <1>7 DEF Promise!store

----------------------------------------------------------------------------
(* Fresh values                                                            *)

(* One variable gets an object, and the blocks in use keep their contents. *)
LEMMA OthersStay ==
  ASSUME Sound, NEW v \in Vars,
         \A u \in Vars : u # v => object'[u] = object[u], UNCHANGED mail,
         \A x \in Held : \A b \in Blocks : IsViewOf(x, b) => mem'[b] = mem[b]
  PROVE  /\ OnlyOf(v)
         /\ \A x \in Held' : x = object'[v] \/ x \in Held
         /\ \A x \in Held : ReadIn(x, mem') = ReadIn(x, mem) \/ ~IsString(x)
         /\ (\A g \in Blocks : ~InGroup(object'[v], g)) => GroupsStay
<1>1. \A x \in Held : x \in Objects \cup {Nothing}
  BY HeldReads DEF Sound
<1>2. \A x \in Held : Val(x, mem') = Val(x, mem)
  <2> SUFFICES ASSUME NEW x \in Held
               PROVE  Val(x, mem') = Val(x, mem)
    OBVIOUS
  <2>1. \A m, n : (\A b \in Blocks : IsViewOf(x, b) /\ ~InGroup(x, b) => m[b] = n[b])
                  => Val(x, m) = Val(x, n)
    BY <1>1, ValForms
  <2> QED BY <2>1
<1>3. OnlyOf(v)
  BY <1>2 DEF OnlyOf, Held
<1>4. \A x \in Held' : x = object'[v] \/ x \in Held
  BY DEF Held
<1>5. \A x \in Held : ReadIn(x, mem') = ReadIn(x, mem) \/ ~IsString(x)
  <2> SUFFICES ASSUME NEW x \in Held, IsString(x)
               PROVE  ReadIn(x, mem') = ReadIn(x, mem)
    OBVIOUS
  <2>1. IsView(x.index) => mem'[x.index.block] = mem[x.index.block]
    BY <1>1, ViewForms
  <2> QED BY <2>1, ReadsItsBlock
<1>6. (\A g \in Blocks : ~InGroup(object'[v], g)) => GroupsStay
  BY <1>4, <1>5 DEF GroupsStay, InGroup, IsViewOf
<1> QED BY <1>3, <1>4, <1>5, <1>6

(* A plain vector.                                                         *)
LEMMA PlainValue ==
  ASSUME Sound, NEW v \in Vars, NEW d \in Vectors, CreatePlain(v, d)
  PROVE  /\ OnlyOf(v) /\ GroupsStay
         /\ Val(object'[v], mem') = <<"own", d>>
<1>1. Bind(v, Plain(d)) /\ mem' = mem /\ mail' = mail /\ BindingsOK
  BY StrIInvParts DEF CreatePlain, blockVars, Sound
<1>2. Plain(d) \in Objects /\ ~IsString(Plain(d)) /\ Plain(d).data = d /\ Plain(d) # Nothing
  BY ObjectForms
<1>3. object'[v] = Plain(d) /\ \A u \in Vars : u # v => object'[u] = object[u]
  BY <1>1, <1>2, BindKeeps
<1>4. \A g \in Blocks : ~InGroup(object'[v], g)
  BY <1>2, <1>3 DEF InGroup, IsViewOf
<1>5. OnlyOf(v) /\ GroupsStay
  BY <1>1, <1>3, <1>4, OthersStay
<1>6. Val(object'[v], mem') = <<"own", d>>
  BY <1>2, <1>3, ValForms
<1> QED BY <1>5, <1>6

(* A shared string: a value of its own, or the first of a new group.       *)
LEMMA ShareValue ==
  ASSUME Sound, NEW v \in Vars, NEW w \in Vars, Share(v, w), NEW d,
         d = DataOf(object[w])
  PROVE  Promise!Only(v) /\ Promise!Fresh(v, d)
<1>1. PICK b \in Blocks \ Mailed, x \in Objects :
        /\ ~Alive(b)
        /\ IsString(x) /\ x.index = View(b)
        /\ Bind(v, x) /\ mail' = mail
        /\ \A c \in Blocks : c # b => mem'[c] = mem[c]
        /\ ReadIn(x, mem') = d
  BY ShareMakes DEF Sound
<1>2. BindingsOK /\ ViewsMapped
  BY StrIInvParts DEF Sound
<1>3. object'[v] = x /\ \A u \in Vars : u # v => object'[u] = object[u]
  BY <1>1, <1>2, BindKeeps
<1>4. \A y \in Held : ~IsViewOf(y, b)
  BY <1>1, <1>2, DeadUnviewed
<1>5. \A y \in Held : \A c \in Blocks : IsViewOf(y, c) => mem'[c] = mem[c]
  BY <1>1, <1>4
<1>6. /\ OnlyOf(v)
      /\ \A y \in Held' : y = x \/ y \in Held
      /\ \A y \in Held : ReadIn(y, mem') = ReadIn(y, mem) \/ ~IsString(y)
      /\ (\A g \in Blocks : ~InGroup(x, g)) => GroupsStay
  BY <1>1, <1>3, <1>5, OthersStay
<1>7. IsView(x.index) /\ x.index.block = b /\ b \in Blocks /\ IsViewOf(x, b)
  BY <1>1, IndexForms DEF IsViewOf
<1>8. CASE x.cow
  <2>1. \A g \in Blocks : ~InGroup(x, g)
    BY <1>8 DEF InGroup
  <2>2. Val(object'[v], mem') = <<"own", d>>
    BY <1>1, <1>3, <2>1, ValForms
  <2> QED BY <1>6, <2>1, <2>2, OwnStep
<1>9. CASE ~x.cow
  <2>1. InGroup(x, b) /\ \A g \in Blocks : InGroup(x, g) => g = b
    BY <1>7, <1>9, ViewForms DEF InGroup
  <2>2. Val(object'[v], mem') = <<"common", b>>
    BY <1>3, <2>1, ValForms
  <2>3. GroupGets(b, d)
    <3>1. \A y \in Held' : InGroup(y, b) => ReadIn(y, mem') = d
      BY <1>1, <1>4, <1>6 DEF InGroup
    <3>2. GroupsStayBut(b)
      BY <1>6, <2>1 DEF GroupsStayBut, InGroup, IsViewOf
    <3> QED BY <3>1, <3>2 DEF GroupGets
  <2>4. \A y \in Held : ~InGroup(y, b)
    BY <1>4 DEF InGroup
  <2> QED BY <1>6, <2>2, <2>3, <2>4, GroupStep
<1> QED BY <1>8, <1>9

----------------------------------------------------------------------------
(* Writes                                                                  *)

(* An element of a value that is v's own.                                  *)
LEMMA OwnWrite ==
  ASSUME Sound, NEW v \in Vars, NEW i \in Indices, NEW c \in Strings, NEW d,
         Bound(v), i \in DOMAIN DataOf(object[v]),
         IsString(object[v]) => object[v].cow,
         d = [DataOf(object[v]) EXCEPT ![i] = c],
         OnlyOf(v), GroupsStay, Val(object'[v], mem') = <<"own", d>>
  PROVE  Promise!Only(v) /\ Promise!WriteElement(v, i, c)
<1>1. /\ Promise!Only(v)
      /\ Promise!Set(v, <<"own", d>>)
      /\ Promise!GroupsHold(Common)
      /\ ValueOf(mail)' = ValueOf(mail)
  BY OwnStep
<1>2. object[v] \in Held /\ object[v] # Nothing
  BY BoundIsHeld
<1>3. /\ Val(object[v], mem) # Nothing
      /\ Promise!Contents(Val(object[v], mem)) = DataOf(object[v])
      /\ (\A b \in Blocks : ~InGroup(object[v], b))
           => Val(object[v], mem) = <<"own", DataOf(object[v])>>
  BY <1>2, ContentsAre
<1>4. \A b \in Blocks : ~InGroup(object[v], b)
  BY DEF InGroup, IsViewOf
<1>5. Values[v] = Val(object[v], mem) /\ Val(object[v], mem)[1] = "own"
  BY <1>3, <1>4, PromiseMeans
<1> QED BY <1>1, <1>3, <1>5 DEF Promise!WriteElement, Promise!Own

(* An element of a group.                                                  *)
LEMMA GroupWrite ==
  ASSUME Sound, NEW v \in Vars, NEW i \in Indices, NEW c \in Strings, NEW d,
         NEW b \in Blocks,
         InGroup(object[v], b), i \in DOMAIN DataOf(object[v]),
         d = [DataOf(object[v]) EXCEPT ![i] = c],
         OnlyOf(v), GroupGets(b, d), object'[v] = object[v]
  PROVE  Promise!Only(v) /\ Promise!WriteElement(v, i, c)
<1>1. object[v] \in Held /\ object[v] # Nothing
  BY BoundIsHeld DEF InGroup, IsViewOf, IsString
<1>2. /\ Val(object[v], mem) # Nothing
      /\ Promise!Contents(Val(object[v], mem)) = DataOf(object[v])
      /\ object[v] \in Objects
  BY <1>1, ContentsAre
<1>3. \A m : Val(object[v], m) = <<"common", b>>
  BY <1>2, ValForms
<1>4. Values[v] = <<"common", b>> /\ Promise!Contents(<<"common", b>>) = DataOf(object[v])
      /\ Nothing # <<"common", b>>
  BY <1>2, <1>3, PromiseMeans
<1>5. Val(object'[v], mem') = <<"common", b>>
  BY <1>3
<1>6. Promise!Only(v) /\ Promise!Set(v, <<"common", b>>) /\ ValueOf(mail)' = ValueOf(mail)
  BY <1>5, PromiseMeans DEF OnlyOf
<1>7. Promise!GroupsHold([Common EXCEPT ![b] = d])
  BY GroupGetsMeans
<1>8. Promise!WriteElement(v, i, c)
  <2>1. <<"common", b>>[1] # "own" /\ <<"common", b>>[2] = b
    OBVIOUS
  <2> QED BY <1>4, <1>6, <1>7, <2>1 DEF Promise!WriteElement, Promise!GroupsHold
<1> QED BY <1>6, <1>8

(* R's own write into a plain vector.                                      *)
LEMMA PlainWrites ==
  ASSUME Sound, NEW v \in Vars, NEW i \in Indices, NEW c \in Strings, WritePlain(v, i,
         c)
  PROVE  Promise!Only(v) /\ Promise!WriteElement(v, i, c)
<1>1. PICK d \in Vectors :
        /\ d = [DataOf(object[v]) EXCEPT ![i] = c]
        /\ Bound(v) /\ i \in DOMAIN DataOf(object[v])
        /\ IsString(object[v]) => object[v].cow
        /\ CreatePlain(v, d)
  BY CopiesMade DEF Sound
<1>2. OnlyOf(v) /\ GroupsStay /\ Val(object'[v], mem') = <<"own", d>>
  BY <1>1, PlainValue
<1> QED BY <1>1, <1>2, OwnWrite

(* sharedString_set_elt                                                    *)
LEMMA ElementWrites ==
  ASSUME Sound, Careful, NEW v \in Vars, NEW i \in Indices, NEW c \in Strings,
         SetElement(v, i, c)
  PROVE  Promise!Only(v) /\ Promise!WriteElement(v, i, c)
<1>1. PICK b \in Blocks :
        /\ IsViewOf(object[v], b) /\ object[v] \in Held
        /\ object' = object /\ mail' = mail
        /\ \A a \in Blocks : a # b => mem'[a] = mem[a]
        /\ \A y \in Held : IsViewOf(y, b) => Alike(object[v], y)
        /\ i \in 1..object[v].length
        /\ ReadIn(object[v], mem') = [ReadIn(object[v], mem) EXCEPT ![i] = c]
        /\ object[v].cow => Viewers(b) = {v} /\ b \notin Mailed
  BY ElementWritten DEF Sound
<1> DEFINE x == object[v]
<1>2. IsString(x) /\ x # Nothing /\ Bound(v)
  BY <1>1, BoundIsHeld DEF IsViewOf
<1>3. /\ x \in Objects /\ DataOf(x) = ReadIn(x, mem)
      /\ DOMAIN DataOf(x) = 1..x.length
  BY <1>1, <1>2, HeldReads DEF Sound
<1>4. PICK d : d = [DataOf(x) EXCEPT ![i] = c]
  OBVIOUS
<1>5. ReadIn(x, mem') = d /\ i \in DOMAIN DataOf(x)
  BY <1>1, <1>3, <1>4
<1>6. Held' = Held /\ \A y \in Held : y \in Objects \cup {Nothing}
  BY <1>1, HeldReads DEF Held, Sound
<1>7. \A y \in Held : ~IsViewOf(y, b) =>
        Val(y, mem') = Val(y, mem) /\ (IsString(y) => ReadIn(y, mem') = ReadIn(y, mem))
  <2> SUFFICES ASSUME NEW y \in Held, ~IsViewOf(y, b)
               PROVE  /\ Val(y, mem') = Val(y, mem)
                      /\ IsString(y) => ReadIn(y, mem') = ReadIn(y, mem)
    OBVIOUS
  <2>1. \A a \in Blocks : IsViewOf(y, a) => mem'[a] = mem[a]
    BY <1>1
  <2>2. \A m, n : (\A a \in Blocks : IsViewOf(y, a) /\ ~InGroup(y, a) => m[a] = n[a])
                  => Val(y, m) = Val(y, n)
    BY <1>6, ValForms
  <2>3. Val(y, mem') = Val(y, mem)
    BY <2>1, <2>2
  <2>4. ASSUME IsString(y)
        PROVE  ReadIn(y, mem') = ReadIn(y, mem)
    <3>1. IsView(y.index) => mem'[y.index.block] = mem[y.index.block]
      BY <1>6, <2>1, <2>4, ViewForms
    <3> QED BY <3>1, ReadsItsBlock
  <2> QED BY <2>3, <2>4
<1> HIDE DEF x
<1>8. CASE x.cow
  <2>1. \A u \in Vars : u # v => ~IsViewOf(object[u], b)
    BY <1>1, <1>8 DEF Viewers, x
  <2>2. ~IsViewOf(mail, b)
    BY <1>1, <1>8 DEF Mailed, x
  <2>3. OnlyOf(v)
    BY <1>1, <1>7, <2>1, <2>2 DEF OnlyOf, Held
  <2>4. \A y \in Held : IsViewOf(y, b) => y.cow
    BY <1>1, <1>8 DEF Alike, x
  <2>5. GroupsStay
    BY <1>6, <1>7, <2>4 DEF GroupsStay, InGroup, IsViewOf
  <2>6. Val(object'[v], mem') = <<"own", d>>
    <3>1. \A a \in Blocks : ~InGroup(x, a)
      BY <1>8 DEF InGroup
    <3>2. \A m : Val(x, m) = <<"own", ReadIn(x, m)>>
      BY <1>2, <1>3, <3>1, ValForms
    <3> QED BY <1>1, <1>5, <3>2 DEF x
  <2> QED BY <1>2, <1>4, <1>5, <1>8, <2>3, <2>5, <2>6, OwnWrite DEF x
<1>9. CASE ~x.cow
  <2>1. InGroup(x, b)
    BY <1>1, <1>9 DEF InGroup, x
  <2>2. \A y \in Held : IsViewOf(y, b) => InGroup(y, b) /\ ReadIn(y, mem') = d
    <3> SUFFICES ASSUME NEW y \in Held, IsViewOf(y, b)
                 PROVE  InGroup(y, b) /\ ReadIn(y, mem') = d
      OBVIOUS
    <3>1. Alike(x, y)
      BY <1>1 DEF x
    <3>2. ReadIn(x, mem') = ReadIn(y, mem')
      BY <3>1, AlikeReads
    <3> QED BY <1>5, <1>9, <3>1, <3>2 DEF InGroup, Alike
  <2>3. \A y \in Held : IsViewOf(y, b) => Val(y, mem') = Val(y, mem)
    <3> SUFFICES ASSUME NEW y \in Held, IsViewOf(y, b)
                 PROVE  Val(y, mem') = Val(y, mem)
      OBVIOUS
    <3>1. InGroup(y, b)
      BY <2>2
    <3>2. \A m : Val(y, m) = <<"common", b>>
      BY <1>6, <3>1, ValForms
    <3> QED BY <3>2
  <2>4. OnlyOf(v)
    BY <1>1, <1>7, <2>3 DEF OnlyOf, Held
  <2>5. GroupsStayBut(b)
    <3> SUFFICES ASSUME NEW g \in Blocks \ {b}, NEW y \in Held, InGroup(y, g)
                 PROVE  ReadIn(y, mem) = ReadIn(y, mem')
      BY <1>6 DEF GroupsStayBut
    <3>1. ~IsViewOf(y, b) /\ IsString(y)
      BY <1>6, ViewForms DEF InGroup
    <3> QED BY <1>7, <3>1
  <2>6. GroupGets(b, d)
    BY <1>6, <2>2, <2>5 DEF GroupGets, InGroup
  <2> QED BY <1>1, <1>4, <1>5, <2>1, <2>4, <2>6, GroupWrite DEF x
<1> QED BY <1>8, <1>9

----------------------------------------------------------------------------
(* Assignments                                                             *)

(* y <- x, share and unshare                                               *)
LEMMA AssignSteps ==
  ASSUME Sound, NEW v \in Vars, NEW w \in Vars,
         Alias(v, w) \/ Unshare(v, w) \/ Share(v, w)
  PROVE  Promise!Only(v) /\ Promise!Assign(v, w)
<1>1. object[w] \in Held /\ object[w] # Nothing
  BY BoundIsHeld DEF Alias, Unshare, Share
<1>2. /\ Values[w] = Val(object[w], mem) /\ Val(object[w], mem) # Nothing
      /\ Promise!Contents(Val(object[w], mem)) = DataOf(object[w])
      /\ DataOf(object[w]) \in Vectors
  BY <1>1, ContentsAre, PromiseMeans
<1>3. PICK d \in Vectors : d = DataOf(object[w])
  BY <1>2
<1>4. CASE Alias(v, w)
  <2>1. BindingsOK
    BY StrIInvParts DEF Sound
  <2>2. object'[v] = object[w] /\ \A u \in Vars : u # v => object'[u] = object[u]
    BY <1>4, <2>1, AliasKeeps
  <2>3. UNCHANGED <<mem, mail>>
    BY <1>4 DEF Alias, blockVars
  <2>4. PICK x \in Held : x = object[w]
    BY <1>1
  <2>5. /\ Promise!Only(v)
        /\ Promise!Set(v, Val(x, mem))
        /\ Promise!GroupsHold(Common)
        /\ ValueOf(mail)' = ValueOf(mail)
    BY <2>2, <2>3, <2>4, BoundStep
  <2>6. Promise!Set(v, Values[w])
    BY <1>2, <2>4, <2>5 DEF Promise!Set
  <2> QED BY <1>2, <2>5, <2>6 DEF Promise!Assign
<1>5. CASE Unshare(v, w) \/ Share(v, w)
  <2>1. Promise!Only(v) /\ Promise!Fresh(v, d)
    <3>1. CASE Unshare(v, w)
      <4>1. CreatePlain(v, d)
        BY <1>3, <3>1, CopiesMade DEF Sound
      <4> QED BY <4>1, PlainValue, OwnStep
    <3>2. CASE Share(v, w)
      BY <1>3, <3>2, ShareValue
    <3> QED BY <1>5, <3>1, <3>2
  <2>2. d = Promise!Contents(Values[w])
    BY <1>2, <1>3
  <2>3. Promise!Fresh(v, Promise!Contents(Values[w]))
    BY <2>1, <2>2 DEF Promise!Fresh, Promise!GroupsHold
  <2> QED BY <1>2, <2>1, <2>3 DEF Promise!Assign
<1> QED BY <1>4, <1>5

(* y <- x[sel]                                                             *)
LEMMA SelectSteps ==
  ASSUME Sound, NEW v \in Vars, NEW w \in Vars, NEW sel \in Selections, Subset(v, w,
         sel)
  PROVE  Promise!Only(v) /\ Promise!Select(v, w, sel)
<1>1. /\ object[w] \in Held /\ object[w] # Nothing
      /\ \A i \in DOMAIN sel : sel[i] \in DOMAIN DataOf(object[w])
  BY BoundIsHeld DEF Subset
<1>2. /\ Values[w] = Val(object[w], mem) /\ Val(object[w], mem) # Nothing
      /\ Promise!Contents(Val(object[w], mem)) = DataOf(object[w])
  BY <1>1, ContentsAre, PromiseMeans
<1>3. PICK d \in Vectors :
        d = [i \in DOMAIN sel |-> DataOf(object[w])[sel[i]]] /\ CreatePlain(v, d)
  <2> DEFINE picked == [i \in DOMAIN sel |-> DataOf(object[w])[sel[i]]]
  <2>1. picked \in Vectors /\ CreatePlain(v, picked)
    BY CopiesMade DEF Sound
  <2> HIDE DEF picked
  <2>2. \E d \in Vectors : d = picked /\ CreatePlain(v, d)
    BY <2>1
  <2> QED BY <2>2 DEF picked
<1>4. Promise!Only(v) /\ Promise!Fresh(v, d)
  BY <1>3, PlainValue, OwnStep
<1>5. d = Promise!Picked(Promise!Contents(Values[w]), sel)
  BY <1>2, <1>3 DEF Promise!Picked
<1>6. Promise!Fresh(v, Promise!Picked(Promise!Contents(Values[w]), sel))
  BY <1>4, <1>5 DEF Promise!Fresh, Promise!GroupsHold
<1> QED BY <1>1, <1>2, <1>4, <1>6 DEF Promise!Select

(* A variable is removed, or starts again.                                 *)
LEMMA ResetSteps ==
  ASSUME Sound, NEW v \in Vars, Forget(v) \/ NewVector(v)
  PROVE  Promise!Only(v) /\ Promise!Reset(v)
<1>1. CASE Forget(v)
  <2>1. Bind(v, Nothing) /\ UNCHANGED <<mem, mail>> /\ BindingsOK
    BY <1>1, StrIInvParts DEF Forget, blockVars, Sound
  <2>2. object'[v] = Nothing /\ \A u \in Vars : u # v => object'[u] = object[u]
    BY <2>1, BindKeeps
  <2>3. /\ Promise!Only(v)
        /\ Promise!Set(v, Val(Nothing, mem))
        /\ Promise!GroupsHold(Common)
        /\ ValueOf(mail)' = ValueOf(mail)
    BY <2>1, <2>2, BoundStep
  <2>4. Promise!Set(v, Nothing)
    BY <2>3 DEF Val, Promise!Set
  <2> QED BY <2>3, <2>4 DEF Promise!Reset
<1>2. CASE NewVector(v)
  <2>1. CreatePlain(v, Initial) /\ Initial \in Vectors
    BY <1>2, StringAssumption DEF NewVector
  <2>2. /\ Promise!Only(v) /\ Promise!Set(v, <<"own", Initial>>)
        /\ Promise!GroupsHold(Common)
        /\ ValueOf(mail)' = ValueOf(mail)
    BY <2>1, PlainValue, OwnStep
  <2> QED BY <2>2 DEF Promise!Reset, Promise!Own
<1> QED BY <1>1, <1>2

----------------------------------------------------------------------------
(* Messages, the cache and the collector                                   *)

(* A message is read, or read too late.                                    *)
LEMMA ReceiveSteps ==
  ASSUME Sound, NEW v \in Vars, Receive(v)
  PROVE  Promise!Only(v) /\ Promise!Receive(v)
<1>1. PICK x \in {mail, Nothing} : Bind(v, x) /\ UNCHANGED <<mem, mail>> /\ mail # Nothing
  BY DEF Receive, OpenBlock, blockVars
<1>2. mail \in Held /\ BindingsOK /\ MailOK
  BY StrIInvParts DEF Held, Sound
<1>3. x \in Held \cup {Nothing} /\ x \in Objects \cup {Nothing}
  BY <1>2 DEF MailOK
<1>4. object'[v] = x /\ \A u \in Vars : u # v => object'[u] = object[u]
  BY <1>1, <1>2, <1>3, BindKeeps
<1>5. /\ Promise!Only(v)
      /\ Promise!Set(v, Val(x, mem))
      /\ Promise!GroupsHold(Common)
      /\ ValueOf(mail)' = ValueOf(mail)
  BY <1>1, <1>3, <1>4, BoundStep
<1>6. ValueOf(mail) = Val(mail, mem) /\ Val(mail, mem) # Nothing
  BY <1>1, <1>2, ContentsAre, PromiseMeans
<1>7. Promise!Set(v, ValueOf(mail)) \/ Promise!Set(v, Nothing)
  BY <1>5, <1>6 DEF Promise!Set, Val
<1> QED BY <1>5, <1>6, <1>7 DEF Promise!Receive

(* A message is sent.  The contents of the one it replaces may be dropped. *)
LEMMA SendSteps ==
  ASSUME Sound, NEW v \in Vars, Send(v)
  PROVE  Promise!Only(v) /\ Promise!Send(v)
<1>1. /\ object[v] \in Held /\ IsString(object[v]) /\ object[v] # Nothing
      /\ mail' = Serialized(object[v])
      /\ object' = object
      /\ \A x \in Held' : \A b \in Blocks : IsViewOf(x, b) => mem'[b] = mem[b]
  BY MessageSent DEF Sound, IsString
<1>2. PICK x \in Held : x = object[v]
  BY <1>1
<1>3. PICK z : z = Serialized(x)
  OBVIOUS
<1>4. /\ z \in Objects /\ IsString(z) /\ z.cow = x.cow
      /\ \A b \in Blocks : IsViewOf(z, b) => IsViewOf(x, b) /\ Alike(x, z)
      /\ \A m : (IsView(z.index) => m[z.index.block] = mem[z.index.block])
                => ReadIn(z, m) = ReadIn(x, mem)
  BY <1>1, <1>2, <1>3, SerializedIs DEF Sound
<1>5. z \in Held' /\ mail' = z /\ \A u \in Vars : object[u] \in Held' /\ object[u] \in Held
  BY <1>1, <1>2, <1>3 DEF Held
<1>6. \A y \in Held' : y = z \/ y \in Held
  BY <1>1, <1>5 DEF Held
<1>7. \A y \in Held : y \in Objects \cup {Nothing}
  BY HeldReads DEF Sound
<1>8. \A u \in Vars : Val(object[u], mem') = Val(object[u], mem)
  <2> SUFFICES ASSUME NEW u \in Vars
               PROVE  Val(object[u], mem') = Val(object[u], mem)
    OBVIOUS
  <2>1. \A b \in Blocks : IsViewOf(object[u], b) => mem'[b] = mem[b]
    BY <1>1, <1>5
  <2>2. \A m, n : (\A b \in Blocks : IsViewOf(object[u], b) /\ ~InGroup(object[u], b) => m[b] = n[b])
                  => Val(object[u], m) = Val(object[u], n)
    BY <1>5, <1>7, ValForms
  <2> QED BY <2>1, <2>2
<1>9. Promise!Only(v) /\ Promise!Set(v, Values[v])
  <2>1. Val(object'[v], mem') = Values[v]
    BY <1>1, <1>8, PromiseMeans
  <2> QED BY <1>1, <1>8, <2>1, PromiseMeans
<1>10. ReadIn(z, mem') = ReadIn(x, mem)
  <2>1. IsView(z.index) => mem'[z.index.block] = mem[z.index.block]
    BY <1>1, <1>4, <1>5, ViewForms
  <2> QED BY <1>4, <2>1
<1>11. GroupsStay
  <2> SUFFICES ASSUME NEW g \in Blocks, NEW y \in Held', InGroup(y, g)
               PROVE  \E q \in Held : InGroup(q, g) /\ ReadIn(q, mem) = ReadIn(y, mem')
    BY DEF GroupsStay
  <2>1. CASE y = z
    <3>1. InGroup(x, g)
      BY <1>4, <2>1 DEF InGroup
    <3> QED BY <1>10, <2>1, <3>1
  <2>2. CASE y \in Held
    <3>1. IsString(y) /\ y \in Objects \cup {Nothing}
      BY <1>7, <2>2 DEF InGroup, IsViewOf
    <3>2. IsView(y.index) => mem'[y.index.block] = mem[y.index.block]
      BY <1>1, <3>1, ViewForms
    <3>3. ReadIn(y, mem') = ReadIn(y, mem)
      BY <3>2, ReadsItsBlock
    <3> QED BY <2>2, <3>3
  <2> QED BY <1>6, <2>1, <2>2
<1>12. Promise!GroupsHold(Common)
  BY <1>11, GroupsHoldMeans
<1>13. /\ Values[v] = Val(x, mem) /\ Val(x, mem) # Nothing
       /\ Promise!Contents(Values[v]) = DataOf(x) /\ DataOf(x) = ReadIn(x, mem)
       /\ ValueOf(mail)' = Val(z, mem')
  <2>1. Values[v] = Val(x, mem) /\ ValueOf(mail)' = Val(z, mem')
    BY <1>2, <1>5, PromiseMeans
  <2>2. x # Nothing /\ IsString(x)
    BY <1>1, <1>2
  <2>3. DataOf(x) = ReadIn(x, mem)
    BY <2>2, HeldReads DEF Sound
  <2>4. Val(x, mem) # Nothing /\ Promise!Contents(Val(x, mem)) = DataOf(x)
    BY <2>2, ContentsAre
  <2> QED BY <2>1, <2>3, <2>4
<1>14. ValueOf(mail)' \in {Values[v], <<"own", DataOf(x)>>}
  <2>1. CASE \E b \in Blocks : InGroup(z, b)
    <3>1. PICK b \in Blocks : InGroup(z, b)
      BY <2>1
    <3>2. InGroup(x, b)
      BY <1>4, <3>1 DEF InGroup
    <3>3. Val(z, mem') = <<"common", b>>
      BY <1>4, <3>1, ValForms
    <3>4. Val(x, mem) = <<"common", b>>
      BY <1>7, <3>2, ValForms
    <3> QED BY <1>13, <3>3, <3>4
  <2>2. CASE \A b \in Blocks : ~InGroup(z, b)
    <3>1. \A m : Val(z, m) = <<"own", ReadIn(z, m)>>
      BY <1>4, <2>2, ValForms
    <3> QED BY <1>10, <1>13, <3>1
  <2> QED BY <2>1, <2>2
<1> QED BY <1>9, <1>12, <1>13, <1>14 DEF Promise!Send, Promise!Own

(* Asking for the data pointer changes no value.                           *)
LEMMA DataPtrSteps ==
  ASSUME Sound, NEW v \in Vars, DataPtr(v)
  PROVE  UNCHANGED Promise!store
<1>1. PICK z \in Objects :
        /\ IsString(object[v]) /\ IsString(z) /\ Alike(object[v], z)
        /\ StringOK(z, mem)
        /\ BindingsOK'
        /\ \A u \in Vars :
             \/ object'[u] = object[u]
             \/ object'[u] = z /\ object[u] = object[v]
  BY CacheFilled DEF Sound
<1>2. mem' = mem /\ mail' = mail
  BY DEF DataPtr, blockVars
<1>3. \A m : Val(z, m) = Val(object[v], m)
  BY <1>1, AlikeVal
<1>4. \A u \in Vars : Val(object'[u], mem) = Val(object[u], mem)
  BY <1>1, <1>3
<1>5. \A u \in Vars : Val(object'[u], mem') = Val(object[u], mem)
  BY <1>2, <1>4
<1>6. ReadIn(z, mem) = ReadIn(object[v], mem) /\ z.index = object[v].index
      /\ z.cow = object[v].cow
  BY <1>1, AlikeReads DEF Alike
<1>7. \A x \in Held' : x \in Held \/ x = z
  BY <1>1, <1>2 DEF Held
<1>8. GroupsStay
  <2>1. object[v] \in Held
    BY BoundIsHeld
  <2>2. \A g \in Blocks : InGroup(z, g) => InGroup(object[v], g)
    BY <1>1, <1>6 DEF InGroup, IsViewOf
  <2> QED BY <1>2, <1>6, <1>7, <2>1, <2>2 DEF GroupsStay
<1>9. Val(mail', mem') = Val(mail, mem)
  BY <1>2
<1> QED BY <1>5, <1>8, <1>9, StutterStep

(* The collector drops nothing that anybody can see.                       *)
LEMMA CollectSteps ==
  ASSUME Sound, NEW s \in Sessions, NEW b \in Blocks, Collect(s, b)
  PROVE  UNCHANGED Promise!store
<1>1. /\ object' = object /\ mail' = mail
      /\ \A x \in Held : \A c \in Blocks : IsViewOf(x, c) => mem'[c] = mem[c]
  BY BlockCollected DEF Sound
<1>2. Held' = Held /\ \A x \in Held : x \in Objects \cup {Nothing}
  BY <1>1, HeldReads DEF Held, Sound
<1>3. \A x \in Held : Val(x, mem') = Val(x, mem)
  <2> SUFFICES ASSUME NEW x \in Held
               PROVE  Val(x, mem') = Val(x, mem)
    OBVIOUS
  <2>1. \A m, n : (\A c \in Blocks : IsViewOf(x, c) /\ ~InGroup(x, c) => m[c] = n[c])
                  => Val(x, m) = Val(x, n)
    BY <1>2, ValForms
  <2> QED BY <1>1, <2>1
<1>4. \A u \in Vars : Val(object'[u], mem') = Val(object[u], mem)
  BY <1>1, <1>3 DEF Held
<1>5. Val(mail', mem') = Val(mail, mem)
  BY <1>1, <1>3 DEF Held
<1>6. GroupsStay
  <2> SUFFICES ASSUME NEW g \in Blocks, NEW y \in Held, InGroup(y, g)
               PROVE  ReadIn(y, mem) = ReadIn(y, mem')
    BY <1>2 DEF GroupsStay
  <2>1. IsView(y.index) => mem'[y.index.block] = mem[y.index.block]
    BY <1>1, <1>2, ViewForms DEF InGroup, IsViewOf
  <2> QED BY <2>1, ReadsItsBlock
<1> QED BY <1>4, <1>5, <1>6, StutterStep

----------------------------------------------------------------------------
(* The refinement                                                          *)

(* In the beginning every variable has the initial vector of its own.      *)
LEMMA OwnAtFirst == StrInit => Promise!StoreInit
<1> SUFFICES ASSUME StrInit
             PROVE  Promise!StoreInit
  OBVIOUS
<1>1. Mapping
  BY StrInitOK, MappingIs
<1>2. Initial \in Vectors
  BY StringAssumption
<1>3. Plain(Initial) \in Objects /\ ~IsString(Plain(Initial)) /\ Plain(Initial).data = Initial
      /\ Plain(Initial) # Nothing
  BY <1>2, ObjectForms
<1>4. \A v \in Vars : Val(object[v], mem) = <<"own", Initial>>
  BY <1>3, ValForms DEF StrInit
<1>5. Values = [v \in Vars |-> Promise!Own(Initial)]
  BY <1>1, <1>4 DEF Mapping, Promise!Own
<1>6. ValueOf(mail) = Nothing
  BY DEF StrInit, ValueOf
<1>7. \A x \in Held : ~IsString(x)
  BY <1>3 DEF StrInit, Held, IsString
<1>8. Common = [b \in Blocks |-> Nothing]
  BY <1>1, <1>7 DEF Mapping, InGroup, IsViewOf
<1> QED BY <1>5, <1>6, <1>8 DEF Promise!StoreInit

(* One step of a session is at most one step of the store.                 *)
LEMMA StepsKeepValues ==
  ASSUME Sound, Careful, [StrNext]_strVars
  PROVE  [Promise!StoreNext]_(Promise!store)
<1>1. CASE UNCHANGED strVars
  <2>1. object' = object /\ mem' = mem /\ mail' = mail /\ Held' = Held
    BY <1>1 DEF strVars, blockVars, Held
  <2>2. GroupsStay
    BY <2>1 DEF GroupsStay
  <2> QED BY <2>1, <2>2, StutterStep
<1>2. CASE \E s \in Sessions, b \in Blocks : Collect(s, b)
  BY <1>2, CollectSteps
<1>3. CASE \E v \in Vars : DataPtr(v)
  BY <1>3, DataPtrSteps
<1>4. ASSUME NEW v \in Vars, NEW w \in Vars, Home[v] = Home[w],
             \/ Alias(v, w)
             \/ Unshare(v, w)
             \/ Share(v, w)
             \/ \E sel \in Selections : Subset(v, w, sel)
      PROVE  Promise!StoreNext
  <2>1. Promise!Only(v) /\ (Promise!Assign(v, w) \/ \E sel \in Selections : Promise!Select(v, w, sel))
    BY <1>4, AssignSteps, SelectSteps
  <2> QED BY <1>4, <2>1 DEF Promise!StoreNext
<1>5. ASSUME NEW v \in Vars,
             \/ \E i \in Indices, c \in Strings : WritePlain(v, i, c) \/ SetElement(v, i, c)
             \/ Forget(v) \/ NewVector(v) \/ Send(v) \/ Receive(v)
      PROVE  Promise!StoreNext
  <2>1. /\ Promise!Only(v)
        /\ \/ Promise!Reset(v) \/ Promise!Receive(v) \/ Promise!Send(v)
           \/ \E i \in Indices, c \in Strings : Promise!WriteElement(v, i, c)
    BY <1>5, PlainWrites, ElementWrites, ResetSteps, SendSteps, ReceiveSteps
  <2> QED BY <2>1 DEF Promise!StoreNext
<1>6. CASE StrNext
  BY <1>2, <1>3, <1>4, <1>5, <1>6 DEF StrNext
<1> QED BY <1>1, <1>6

(* Shared strings behave as character vectors as long as users follow the  *)
(* advice to treat them as read-only where a write would not be seen: in   *)
(* every behaviour of any number of sessions, whatever is encoded, cached, *)
(* decoded, aliased, sent, read late or collected, a variable with copy on *)
(* write changes only when it is assigned, and one without follows all     *)
(* writes to its block.                                                    *)
THEOREM SharedStringsAreValues ==
  ASSUME Careful
  PROVE  StrSpec => StringsAsPromised
<1>1. StrInit => Promise!StoreInit
  BY OwnAtFirst
<1>2. StrIInv /\ StrIInv' /\ [StrNext]_strVars => [Promise!StoreNext]_(Promise!store)
  BY StepsAreSound, StepsKeepValues
<1> QED BY <1>1, <1>2, StrInductiveInvariant, PTL
    DEF StrSpec, StringsAsPromised, Promise!StoreSpec

=============================================================================
