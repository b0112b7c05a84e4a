------------------------------ MODULE Throttle -----------------------------
(***************************************************************************)
(* The -x limit of one side: its stream threads share a byte counter, and  *)
(* after each frame a thread sleeps until the counter value it saw is due. *)
(* A single sleep is capped (2 seconds in the code).                       *)
(***************************************************************************)
EXTENDS Integers

CONSTANTS
    N,          \* stream threads
    Load,       \* frames each of them carries
    Frame,      \* payload bytes of a frame
    Rate,       \* bytes per tick
    SleepCap,   \* the longest single sleep, in ticks
    Resumed     \* the prefix not sent again, resume_from

ASSUME ThrottleAssumption ==
    /\ N \in 1..64
    /\ {Frame, Rate, SleepCap} \subseteq Nat \ {0}
    /\ {Load, Resumed} \subseteq Nat

Threads == 0..(N - 1)
Size == Resumed + N * Load * Frame

\* By then every byte is due, and the clock matters no more.
Horizon == (Size + Rate - 1) \div Rate

VARIABLES
    now,     \* ticks since rate_start
    total,   \* the shared counter; it starts at the prefix
    left,    \* frames each thread has left
    seen,    \* the counter as each thread's fetch_add left it
    pc,      \* "move", "pause" (in throttle), "sleep", "done" or "failed"
    until    \* when each sleep ends

vars == <<now, total, left, seen, pc, until>>

\* A frame is sent or received, and counted.
Move(i) ==
    /\ pc[i] = "move" /\ left[i] > 0
    /\ total' = total + Frame
    /\ left' = [left EXCEPT ![i] = @ - 1]
    /\ seen' = [seen EXCEPT ![i] = total']
    /\ pc' = [pc EXCEPT ![i] = "pause"]
    /\ UNCHANGED <<now, until>>

\* The connection or the disk fails, or the thread sees that another has failed.
Fail(i) ==
    /\ pc[i] = "move" /\ left[i] > 0
    /\ pc' = [pc EXCEPT ![i] = "failed"]
    /\ UNCHANGED <<now, total, left, seen, until>>

\* A mistake: one tick more is slept whenever the rate asks for a whole number.
DueAfter(n) == (n - Rate * now) \div Rate + 1

\* Ticks until n bytes are due at the rate, rounded up.
Due(n) == (n - Rate * now + Rate - 1) \div Rate

\* A mistake: the wait is rounded down.
WaitShort(n) == IF n > Rate * now THEN (n - Rate * now) \div Rate ELSE 0

\* The sleep of throttle, given the counter value the thread saw.
Wait(n) ==
    IF n > Rate * now
    THEN IF Due(n) <= SleepCap THEN Due(n) ELSE SleepCap
    ELSE 0

Pause(i) ==
    /\ pc[i] = "pause"
    /\ until' = [until EXCEPT ![i] = now + Wait(seen[i])]
    /\ pc' = [pc EXCEPT ![i] = "sleep"]
    /\ UNCHANGED <<now, total, left, seen>>

\* A sleep lasts at least its time.
Wake(i) ==
    /\ pc[i] = "sleep" /\ until[i] <= now
    /\ pc' = [pc EXCEPT ![i] = "move"]
    /\ UNCHANGED <<now, total, left, seen, until>>

Finish(i) ==
    /\ pc[i] = "move" /\ left[i] = 0
    /\ pc' = [pc EXCEPT ![i] = "done"]
    /\ UNCHANGED <<now, total, left, seen, until>>

Tick == now < Horizon /\ now' = now + 1 /\ UNCHANGED <<total, left, seen, pc, until>>

Init ==
    /\ now = 0 /\ total = Resumed
    /\ left = [i \in Threads |-> Load]
    /\ seen = [i \in Threads |-> 0]
    /\ pc = [i \in Threads |-> "move"]
    /\ until = [i \in Threads |-> 0]

Thread(i) == Move(i) \/ Fail(i) \/ Pause(i) \/ Wake(i) \/ Finish(i)

Next == Tick \/ \E i \in Threads : Thread(i)

Spec == Init /\ [][Next]_vars

----------------------------------------------------------------------------
Payload == total - Resumed

\* "-x": however the threads interleave on the counter, they are never more than
\* one frame each ahead of the rate.
RateHeld == Payload <= Rate * now + N * Frame

\* Nor are they held back below it: a thread sleeps only while the payload sent
\* so far is ahead of what the rate allows by now.
NotStarved ==
    (\E i \in Threads : pc[i] = "sleep" /\ until[i] > now) => Payload > Rate * now
============================================================================
