------------------------------ MODULE TwoSinks -----------------------------
(***************************************************************************)
(* Two sinks with one destination: a retry while the first sink, cut off   *)
(* from its source, has not timed out yet, or two commands of two users.   *)
(* Nothing locks the destination.  Each has a temporary of its own.        *)
(***************************************************************************)
EXTENDS Files

CONSTANTS N, Chunk, Check, Crypt, Headers, InitDests, Faults, MaxAttempts, Hash(_)

VARIABLES
    dest,
    temp1, fd1, alive1, main1, hdr1, th1, off1, abort1, joined1, got1, attempt1,
    temp2, fd2, alive2, main2, hdr2, th2, off2, abort2, joined2, got2, attempt2

One == INSTANCE Sink WITH
    temp <- temp1, fd <- fd1, alive <- alive1, main <- main1, hdr <- hdr1, th <- th1,
    off <- off1, abort <- abort1, joined <- joined1, got <- got1, attempt <- attempt1

Two == INSTANCE Sink WITH
    temp <- temp2, fd <- fd2, alive <- alive2, main <- main2, hdr <- hdr2, th <- th2,
    off <- off2, abort <- abort2, joined <- joined2, got <- got2, attempt <- attempt2

\* Both are given the same: what Sink assumes of it.
ASSUME TwoSinksAssumption == One!SinkAssumption

state1 == <<temp1, alive1, main1, hdr1, th1, off1, abort1, joined1, got1, attempt1>>
state2 == <<temp2, alive2, main2, hdr2, th2, off2, abort2, joined2, got2, attempt2>>
vars == <<dest, state1, fd1, state2, fd2>>

\* A descriptor of the destination still names the old file after the other
\* sink's rename put a new one in its place.
Outlives(fd, replaced) == IF replaced /\ fd = "dest" THEN "gone" ELSE fd

Step1 ==
    /\ One!Next
    /\ fd2' = Outlives(fd2, One!Fresh /\ main1 = "rename" /\ main1' = "ok")
    /\ UNCHANGED state2

Step2 ==
    /\ Two!Next
    /\ fd1' = Outlives(fd1, Two!Fresh /\ main2 = "rename" /\ main2' = "ok")
    /\ UNCHANGED state1

Init == One!Init /\ Two!Init
Next == Step1 \/ Step2
Spec == Init /\ [][Next]_vars

----------------------------------------------------------------------------
\* Fresh copies do not mix: the destination is at every moment what was there
\* before or one of the announced files, whole, however the two interleave,
\* fail or are killed.
Whole(f) == \E h \in Headers : FileLen(f) = h.size /\ Hash(f.bytes) = h.sum
NeverMixed == dest \in InitDests \/ Whole(dest)

\* A copy that reported success is replaced only by another that succeeds.
KeptUntilReplaced ==
    [][main1 = "ok" /\ dest' # dest => main2 = "rename" /\ main2' = "ok"]_vars
============================================================================
