------------------------- MODULE SplitRangesProofs -------------------------
(***************************************************************************)
(* split_ranges computes the ranges of Ranges, for every size and count,   *)
(* so they tile the file with lengths that differ by at most one.          *)
(***************************************************************************)
EXTENDS SplitRanges, RangesProofs

\* What the loop carries from one iteration to the next.
Carried ==
    /\ Len(out) <= n
    /\ start = RangeStart(size, n, Len(out))
    /\ rem = (IF Len(out) < size % n THEN (size % n) - Len(out) ELSE 0)

IInv == TypeOK /\ Carried /\ ClosedForm

LEMMA IInvInit == Init => IInv
  <1> SUFFICES ASSUME Init PROVE IInv
    OBVIOUS
  <1>1. size \in Nat /\ n \in Nat \ {0}
    BY SplitAssumption DEF Init
  <1>2. size % n \in 0..(n - 1)
    BY <1>1, DivMod
  <1>3. RangeStart(size, n, 0) = 0
    BY <1>1, RangeBounds
  <1>4. out = <<>> /\ Len(out) = 0 /\ out \in Seq(Nat \X Nat)
    BY DEF Init
  <1>5. TypeOK
    BY <1>1, <1>2, <1>4 DEF Init, TypeOK
  <1>6. Carried
    BY <1>1, <1>2, <1>3, <1>4 DEF Init, Carried
  <1> QED BY <1>4, <1>5, <1>6 DEF IInv, ClosedForm

\* One iteration appends exactly the next range.
LEMMA PushKeepsIInv == IInv /\ Push => IInv'
  <1> SUFFICES ASSUME IInv, Push PROVE IInv'
    OBVIOUS
  <1> DEFINE L == Len(out)
             r == size % n
             extra == IF rem > 0 THEN 1 ELSE 0
             end == start + size \div n + extra
  <1>1. /\ size \in Nat /\ n \in Nat \ {0} /\ rem \in Nat /\ start \in Nat
        /\ out \in Seq(Nat \X Nat) /\ L \in Nat /\ L < n
    BY DEF IInv, TypeOK, Push
  <1>2. r \in 0..(n - 1) /\ size \div n \in Nat
    BY <1>1, DivMod
  <1>3. rem > 0 <=> L < r
    BY <1>1, <1>2 DEF IInv, Carried
  <1>4. RangeEnd(size, n, L) = RangeStart(size, n, L) + size \div n + (IF L < r THEN 1 ELSE 0)
    BY <1>1, RangeStep
  <1>5. end = RangeEnd(size, n, L) /\ end \in Nat
    BY <1>1, <1>2, <1>3, <1>4 DEF IInv, Carried
  <1>6. /\ out' = Append(out, <<start, end>>) /\ start' = end /\ rem' = rem - extra
        /\ size' = size /\ n' = n
    BY DEF Push
  <1> HIDE DEF end
  <1>7. /\ Len(out') = L + 1 /\ out' \in Seq(Nat \X Nat)
        /\ \A j \in 1..L : out'[j] = out[j]
        /\ out'[L + 1] = <<start, end>>
    BY <1>1, <1>5, <1>6
  <1>8. TypeOK'
    BY <1>1, <1>5, <1>6, <1>7 DEF TypeOK
  <1>9. Carried'
    <2>1. start' = RangeStart(size, n, L + 1)
      BY <1>5, <1>6 DEF RangeEnd
    <2>2. rem' = (IF L + 1 < r THEN r - (L + 1) ELSE 0)
      BY <1>1, <1>2, <1>6 DEF IInv, Carried
    <2> QED BY <1>1, <1>6, <1>7, <2>1, <2>2 DEF Carried
  <1>10. ClosedForm'
    <2> SUFFICES ASSUME NEW j \in 1..(L + 1)
                 PROVE  out'[j] = <<RangeStart(size, n, j - 1), RangeEnd(size, n, j - 1)>>
      BY <1>6, <1>7 DEF ClosedForm
    <2>1. CASE j \in 1..L
      BY <1>7, <2>1 DEF IInv, ClosedForm
    <2>2. CASE j = L + 1
      <3>1. start = RangeStart(size, n, L)
        BY DEF IInv, Carried
      <3> QED BY <1>1, <1>5, <1>7, <2>2, <3>1
    <2> QED BY <1>1, <2>1, <2>2
  <1> QED BY <1>8, <1>9, <1>10 DEF IInv

LEMMA IInvStep == IInv /\ [Next]_vars => IInv'
  <1> SUFFICES ASSUME IInv, [Next]_vars PROVE IInv'
    OBVIOUS
  <1>1. CASE Push
    BY <1>1, PushKeepsIInv
  <1>2. CASE UNCHANGED vars
    BY <1>2 DEF IInv, TypeOK, Carried, ClosedForm, vars
  <1> QED BY <1>1, <1>2 DEF Next, Done

LEMMA IInvAlways == Spec => []IInv
  BY IInvInit, IInvStep, PTL DEF Spec

\* The ranges pushed so far are those of streams 0, 1, ...: sender and receiver
\* of a stream, each running split_ranges alone, use the same range.
THEOREM SplitIsClosedForm == Spec => []ClosedForm
  <1>1. IInv => ClosedForm
    BY DEF IInv
  <1> QED BY <1>1, IInvAlways, PTL

\* The ranges start at 0, end at the size, and neither overlap nor leave a gap.
THEOREM SplitTiles == Spec => []Tiles
  <1>1. IInv => Tiles
    <2> SUFFICES ASSUME IInv PROVE Tiles
      OBVIOUS
    <2>1. /\ size \in Nat /\ n \in Nat \ {0} /\ Len(out) \in Nat /\ Len(out) <= n
          /\ \A j \in 1..Len(out) :
                out[j] = <<RangeStart(size, n, j - 1), RangeEnd(size, n, j - 1)>>
      BY DEF IInv, TypeOK, Carried, ClosedForm
    <2>2. ASSUME NEW j \in 1..Len(out)
          PROVE  out[j][1] = (IF j = 1 THEN 0 ELSE out[j - 1][2])
      <3>1. CASE j = 1
        BY <2>1, <3>1, RangeBounds
      <3>2. CASE j > 1
        <4>1. j - 1 \in 1..Len(out) /\ (j - 2) + 1 = j - 1 /\ (j - 1) - 1 = j - 2
          BY <2>1, <3>2
        <4>2. out[j - 1][2] = RangeEnd(size, n, j - 2)
          BY <2>1, <4>1
        <4>3. out[j][1] = RangeStart(size, n, j - 1)
          BY <2>1
        <4> QED BY <3>2, <4>1, <4>2, <4>3 DEF RangeEnd
      <3> QED BY <2>1, <3>1, <3>2
    <2>3. ASSUME NEW j \in 1..Len(out), NEW k \in 1..Len(out), j < k
          PROVE  out[j][2] <= out[k][1]
      <3>1. j - 1 \in 0..(n - 1) /\ k - 1 \in 0..(n - 1) /\ j - 1 < k - 1
        BY <2>1, <2>3
      <3>2. RangeEnd(size, n, j - 1) <= RangeStart(size, n, k - 1)
        BY <2>1, <3>1, RangesDisjoint
      <3> QED BY <2>1, <3>2
    <2>4. ASSUME Len(out) = n PROVE out[n][2] = size
      <3>1. n \in 1..Len(out) /\ (n - 1) + 1 = n
        BY <2>1, <2>4
      <3>2. out[n][2] = RangeEnd(size, n, n - 1)
        BY <2>1, <3>1
      <3> QED BY <2>1, <3>1, <3>2, RangeBounds DEF RangeEnd
    <2> QED BY <2>2, <2>3, <2>4 DEF Tiles
  <1> QED BY <1>1, IInvAlways, PTL

\* No two ranges differ by more than one byte.
THEOREM SplitBalanced == Spec => []Balanced
  <1>1. IInv => Balanced
    <2> SUFFICES ASSUME IInv, NEW j \in 1..Len(out), NEW k \in 1..Len(out)
                 PROVE  (out[j][2] - out[j][1]) - (out[k][2] - out[k][1]) \in {-1, 0, 1}
      BY DEF Balanced
    <2>0. out \in Seq(Nat \X Nat) /\ size \in Nat /\ n \in Nat \ {0}
      BY DEF IInv, TypeOK
    <2>1. /\ size \in Nat /\ n \in Nat \ {0} /\ Len(out) \in Nat
          /\ \A m \in 1..Len(out) :
                out[m] = <<RangeStart(size, n, m - 1), RangeEnd(size, n, m - 1)>>
      <3>1. Len(out) \in Nat
        BY <2>0
      <3>2. ClosedForm
        BY DEF IInv
      <3> QED BY <2>0, <3>1, <3>2 DEF ClosedForm
    <2>2. ASSUME NEW m \in 1..Len(out)
          PROVE  (out[m][2] - out[m][1]) - (size \div n) \in {0, 1}
      <3>1. m - 1 \in Nat
        BY <2>1
      <3>2. /\ RangeStart(size, n, m - 1) \in Nat /\ size \div n \in Nat
            /\ RangeEnd(size, n, m - 1) = RangeStart(size, n, m - 1) + size \div n
                                            + (IF m - 1 < size % n THEN 1 ELSE 0)
        BY <2>1, <3>1, RangeStartNat, RangeStep, DivMod
      <3> QED BY <2>1, <3>2
    <2>3. /\ size \div n \in Nat
          /\ \A m \in 1..Len(out) : out[m][1] \in Nat /\ out[m][2] \in Nat
      <3>1. size \div n \in Nat
        BY <2>1, DivMod
      <3>2. ASSUME NEW m \in 1..Len(out) PROVE out[m][1] \in Nat /\ out[m][2] \in Nat
        <4>1. out[m] \in Nat \X Nat
          BY <2>0
        <4> QED BY <4>1
      <3> QED BY <3>1, <3>2
    <2>4. /\ (out[j][2] - out[j][1]) - (size \div n) \in {0, 1}
          /\ (out[k][2] - out[k][1]) - (size \div n) \in {0, 1}
      BY <2>2
    <2> DEFINE J == out[j][2] - out[j][1]
               K == out[k][2] - out[k][1]
    <2>5. J \in Int /\ K \in Int /\ size \div n \in Int
      BY <2>3
    <2>6. J - (size \div n) \in {0, 1} /\ K - (size \div n) \in {0, 1}
      BY <2>4
    <2> HIDE DEF J, K
    <2>7. J - K \in {-1, 0, 1}
      BY <2>5, <2>6
    <2> QED BY <2>7 DEF J, K
  <1> QED BY <1>1, IInvAlways, PTL
============================================================================
