------------------------------- MODULE Ranges ------------------------------
(***************************************************************************)
(* The byte range stream i of n carries out of `size' bytes: the value     *)
(* split_ranges returns at index i, in closed form.  SplitRanges checks    *)
(* and proves that the loop computes it.                                   *)
(***************************************************************************)
EXTENDS Integers

\* Streams 0..i-1 take base bytes each, and one of the remainder while it lasts.
RangeStart(size, n, i) ==
    LET rem == size % n
    IN  i * (size \div n) + (IF i < rem THEN i ELSE rem)

RangeEnd(size, n, i) == RangeStart(size, n, i + 1)
============================================================================
