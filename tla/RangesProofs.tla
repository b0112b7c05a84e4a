---------------------------- MODULE RangesProofs ---------------------------
(***************************************************************************)
(* The ranges of Ranges tile the file, for every size and stream count.    *)
(***************************************************************************)
EXTENDS Ranges, TLAPS

\* Division: the base length and the remainder make up the size.
LEMMA DivMod ==
    ASSUME NEW size \in Nat, NEW n \in Nat \ {0}
    PROVE  /\ size \div n \in Nat
           /\ size % n \in 0..(n - 1)
           /\ size = n * (size \div n) + (size % n)
  BY SMT

\* Products with the base length grow by one base length per stream.
LEMMA Distribute ==
    ASSUME NEW i \in Nat, NEW q \in Nat
    PROVE  i * q \in Nat /\ (i + 1) * q = i * q + q
  BY SMT

\* A product is monotone in its first factor.
LEMMA ProductMonotone ==
    ASSUME NEW i \in Nat, NEW j \in Nat, NEW q \in Nat, i <= j
    PROVE  i * q <= j * q
  <1>1. PICK d \in Nat : j = i + d
    BY SMT
  <1>2. j * q = i * q + d * q /\ d * q \in Nat /\ i * q \in Nat
    BY <1>1, SMT
  <1> QED BY <1>2, SMT

\* Every range starts at a byte offset.
LEMMA RangeStartNat ==
    ASSUME NEW size \in Nat, NEW n \in Nat \ {0}, NEW i \in Nat
    PROVE  RangeStart(size, n, i) \in Nat
  <1> DEFINE q == size \div n
             r == size % n
  <1>1. q \in Nat /\ r \in Nat
    BY DivMod
  <1>2. i * q \in Nat
    BY <1>1, Distribute
  <1> HIDE DEF q, r
  <1>3. i * q + (IF i < r THEN i ELSE r) \in Nat
    BY <1>1, <1>2
  <1> QED BY <1>3 DEF RangeStart, q, r

\* A range is one base length long, and one byte more while the remainder lasts.
LEMMA RangeStep ==
    ASSUME NEW size \in Nat, NEW n \in Nat \ {0}, NEW i \in Nat
    PROVE  RangeEnd(size, n, i) =
             RangeStart(size, n, i) + (size \div n) + (IF i < size % n THEN 1 ELSE 0)
  <1> DEFINE q == size \div n
             r == size % n
  <1>1. q \in Nat /\ r \in Nat
    BY DivMod
  <1>2. i * q \in Nat /\ (i + 1) * q = i * q + q
    BY <1>1, Distribute
  <1> HIDE DEF q, r
  <1>3. (i + 1) * q + (IF i + 1 < r THEN i + 1 ELSE r)
          = i * q + (IF i < r THEN i ELSE r) + q + (IF i < r THEN 1 ELSE 0)
    BY <1>1, <1>2, SMT
  <1> QED BY <1>3 DEF RangeStart, RangeEnd, q, r

\* The ranges run from the first byte to the last.
LEMMA RangeBounds ==
    ASSUME NEW size \in Nat, NEW n \in Nat \ {0}
    PROVE  RangeStart(size, n, 0) = 0 /\ RangeStart(size, n, n) = size
  <1> DEFINE q == size \div n
             r == size % n
  <1>1. q \in Nat /\ r \in 0..(n - 1) /\ size = n * q + r
    BY DivMod
  <1>2. 0 * q = 0
    BY <1>1, SMT
  <1> HIDE DEF q, r
  <1> QED BY <1>1, <1>2 DEF RangeStart, q, r

\* Later streams start later: ranges are in stream order.
LEMMA RangeMonotone ==
    ASSUME NEW size \in Nat, NEW n \in Nat \ {0}, NEW i \in Nat, NEW j \in Nat, i <= j
    PROVE  RangeStart(size, n, i) <= RangeStart(size, n, j)
  <1> DEFINE q == size \div n
             r == size % n
  <1>1. q \in Nat /\ r \in Nat
    BY DivMod
  <1>2. i * q <= j * q /\ i * q \in Nat /\ j * q \in Nat
    BY <1>1, ProductMonotone, Distribute
  <1> HIDE DEF q, r
  <1>3. i * q + (IF i < r THEN i ELSE r) <= j * q + (IF j < r THEN j ELSE r)
    BY <1>1, <1>2, SMT
  <1> QED BY <1>3 DEF RangeStart, q, r

\* Two streams never carry the same byte, and no stream goes past the file.
THEOREM RangesDisjoint ==
    ASSUME NEW size \in Nat, NEW n \in Nat \ {0},
           NEW i \in 0..(n - 1), NEW j \in 0..(n - 1), i < j
    PROVE  /\ RangeStart(size, n, i) <= RangeEnd(size, n, i)
           /\ RangeEnd(size, n, i) <= RangeStart(size, n, j)
           /\ RangeEnd(size, n, j) <= size
  <1>1. i + 1 <= j /\ j + 1 <= n /\ i + 1 \in Nat /\ j + 1 \in Nat
    BY SMT
  <1>2. RangeStart(size, n, i) <= RangeStart(size, n, i + 1)
    BY <1>1, RangeMonotone, SMT
  <1>3. RangeStart(size, n, i + 1) <= RangeStart(size, n, j)
    BY <1>1, RangeMonotone
  <1>4. RangeStart(size, n, j + 1) <= RangeStart(size, n, n)
    BY <1>1, RangeMonotone
  <1> QED BY <1>2, <1>3, <1>4, RangeBounds DEF RangeEnd
============================================================================
