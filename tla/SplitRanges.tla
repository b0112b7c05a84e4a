----------------------------- MODULE SplitRanges ---------------------------
(***************************************************************************)
(* The loop of split_ranges: it cuts `size' bytes into n half-open ranges  *)
(* by carrying the start of the next range and what is left of the         *)
(* remainder.  Both sides run it on their own and never exchange a range,  *)
(* so they agree on who carries which byte only if it always computes the  *)
(* closed form of Ranges, and lose no byte only if that tiles the file.    *)
(***************************************************************************)
EXTENDS Ranges, Sequences

CONSTANTS
    Sizes,    \* the byte counts split
    Counts    \* the stream counts

ASSUME SplitAssumption == Sizes \subseteq Nat /\ Counts \subseteq Nat \ {0}

VARIABLES
    size, n,  \* the arguments
    rem,      \* ranges that still get one byte more
    start,    \* where the next range starts
    out       \* the ranges so far

vars == <<size, n, rem, start, out>>

Init ==
    /\ size \in Sizes /\ n \in Counts
    /\ rem = size % n
    /\ start = 0
    /\ out = <<>>

\* Mistaken iterations.  The remainder is never used up:
PushKeepsRem ==
    /\ Len(out) < n
    /\ LET end == start + size \div n + (IF rem > 0 THEN 1 ELSE 0)
       IN  out' = Append(out, <<start, end>>) /\ start' = end
    /\ UNCHANGED <<size, n, rem>>

\* or it is taken whole by the first range that sees it.
PushAllRem ==
    /\ Len(out) < n
    /\ LET end == start + size \div n + rem
       IN  out' = Append(out, <<start, end>>) /\ start' = end
    /\ rem' = 0
    /\ UNCHANGED <<size, n>>

\* One iteration.
Push ==
    /\ Len(out) < n
    /\ LET extra == IF rem > 0 THEN 1 ELSE 0
           end == start + size \div n + extra
       IN  /\ out' = Append(out, <<start, end>>)
           /\ start' = end
           /\ rem' = rem - extra
    /\ UNCHANGED <<size, n>>

Done == Len(out) = n /\ UNCHANGED vars

Next == Push \/ Done

Spec == Init /\ [][Next]_vars

----------------------------------------------------------------------------
TypeOK ==
    /\ size \in Nat /\ n \in Nat \ {0}
    /\ rem \in Nat /\ start \in Nat
    /\ out \in Seq(Nat \X Nat)

\* Range j of the loop is the one Ranges names for stream j: what the sender of
\* stream j reads is what its receiver writes.
ClosedForm ==
    \A j \in 1..Len(out) :
        out[j] = <<RangeStart(size, n, j - 1), RangeEnd(size, n, j - 1)>>

\* SPEC "ranges exclusive": the ranges start at 0, leave no gap, share no byte,
\* and the last one ends at the size.
Tiles ==
    /\ \A j \in 1..Len(out) : out[j][1] = (IF j = 1 THEN 0 ELSE out[j - 1][2])
    /\ \A j, k \in 1..Len(out) : j < k => out[j][2] <= out[k][1]
    /\ Len(out) = n => out[n][2] = size

\* SPEC "sizes differ by at most 1": no stream is left with a longer tail.
Balanced ==
    \A j, k \in 1..Len(out) : (out[j][2] - out[j][1]) - (out[k][2] - out[k][1]) \in {-1, 0, 1}
============================================================================
