----------------------------- MODULE CopyPromise ---------------------------
(***************************************************************************)
(* What a sink promises whoever runs it, with no threads, temporaries or   *)
(* steps of its own: the destination, the accepted header and a status.    *)
(* A fresh copy replaces the destination at once or leaves it alone.  A    *)
(* resume may leave anything behind the prefix it was told to trust, but   *)
(* never touches the prefix, and calls itself successful only on the whole *)
(* file.                                                                   *)
(***************************************************************************)
EXTENDS Files

CONSTANTS Headers, InitDests, Hash(_)

VARIABLES
    dest,    \* the file at the destination path
    hdr,     \* the header of the copy under way
    status   \* "idle", "busy", "ok", "failed", or "dead": no longer running

pvars == <<dest, hdr, status>>

Resuming == hdr.resume # 0
KeepsPrefix == Prefix(dest', hdr.resume) = Prefix(dest, hdr.resume)

\* The file the header announces.
Announced(f) ==
    /\ FileLen(f) = hdr.size
    /\ hdr.check => Hash(f.bytes) = hdr.sum
    /\ hdr.preserve => f.meta = "sent"

Init == dest \in InitDests /\ status = "idle" /\ hdr.resume = 0

Begin ==
    /\ status = "idle" /\ status' = "busy"
    /\ hdr' \in Headers
    /\ hdr'.resume <= FileLen(dest)
    /\ UNCHANGED dest

Refuse == status = "idle" /\ status' = "failed" /\ UNCHANGED <<dest, hdr>>

\* A resume works in the destination itself, and may still do so after failing.
Scribble ==
    /\ status \in {"busy", "failed"} /\ Resuming
    /\ KeepsPrefix
    /\ UNCHANGED <<hdr, status>>

Succeed ==
    /\ status = "busy" /\ status' = "ok"
    /\ Announced(dest')
    /\ Resuming => dest' = dest
    /\ UNCHANGED hdr

Fail ==
    /\ status = "busy" /\ status' = "failed"
    /\ IF Resuming THEN KeepsPrefix ELSE dest' = dest
    /\ UNCHANGED hdr

Die == status # "ok" /\ status' = "dead" /\ UNCHANGED <<dest, hdr>>

Again ==
    /\ status \in {"ok", "dead"} /\ status' = "idle"
    /\ hdr'.resume = 0
    /\ UNCHANGED dest

Next == Begin \/ Refuse \/ Scribble \/ Succeed \/ Fail \/ Die \/ Again

Spec == Init /\ [][Next]_pvars
============================================================================
