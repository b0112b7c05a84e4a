-------------------------------- MODULE Sink -------------------------------
(***************************************************************************)
(* The receiving side of one transfer: finish_sink, its receiver threads   *)
(* (recv_range) and its failure cleanup, over the destination file and the *)
(* temporary beside it.  The process may be killed at any step and run     *)
(* again on what it left behind.                                           *)
(*                                                                         *)
(* The main thread reads the control header, opens the work file (a        *)
(* temporary, or the destination itself when resuming), starts one         *)
(* receiver per stream, joins them in stream order, verifies the hash,     *)
(* applies mode and mtime, and renames.  A receiver checks the abort flag, *)
(* reads a frame, writes it at its offset, and loops.                      *)
(***************************************************************************)
EXTENDS Files, Ranges

CONSTANTS
    N,            \* streams accepted, the local -s
    Chunk,        \* CHUNK: the most payload bytes of one frame
    Check,        \* local -c
    Crypt,        \* a session key is held and the payload is sealed
    Headers,      \* the control headers a source may send
    InitDests,    \* what may be at the destination path before
    Faults,       \* the file operations that may fail
    MaxAttempts,  \* how many times the command is run
    Hash(_)       \* BLAKE3 of a content

FaultKinds == {"open", "setlen", "write", "hash", "preserve", "rename", "remove"}

\* A header as decoded; opens: the sealed fields open under this side's key.
HeaderType(h) ==
    /\ h.magic \in BOOLEAN /\ h.check \in BOOLEAN /\ h.crypt \in BOOLEAN
    /\ h.opens \in BOOLEAN /\ h.preserve \in BOOLEAN
    /\ h.size \in Nat /\ h.n \in Nat /\ h.resume \in Nat

ASSUME SinkAssumption ==
    /\ N \in 1..64
    /\ Chunk \in Nat \ {0}
    /\ Check \in BOOLEAN /\ Crypt \in BOOLEAN
    /\ \A h \in Headers : HeaderType(h)
    /\ InitDests \subseteq Files \cup {NoFile}
    /\ Faults \subseteq FaultKinds
    /\ MaxAttempts \in Nat

Streams == 0..(N - 1)

NoHeader == [magic |-> FALSE, check |-> FALSE, crypt |-> FALSE, opens |-> FALSE,
             preserve |-> FALSE, size |-> 0, n |-> 0, resume |-> 0, sum |-> <<>>]

VARIABLES
    dest,     \* the file at the destination path
    temp,     \* the file at this run's temporary path
    fd,       \* where the open work file is: "none", "temp", "dest", "gone"
    alive,    \* the process runs
    main,     \* where finish_sink is; "ok" and "err" are its results
    hdr,      \* the accepted header
    th,       \* where each receiver is; "ok" and "err" are its results
    off,      \* the next offset each receiver writes
    abort,    \* the flag the receivers share
    joined,   \* receivers joined so far, in stream order
    got,      \* bytes counted for the progress report
    attempt   \* runs of the command so far

vars == <<dest, temp, fd, alive, main, hdr, th, off, abort, joined, got, attempt>>
files == <<dest, temp, fd>>
threads == <<th, off, abort, got>>

\* Mistaken forms, here and below: each shows what some property rules out.
\* A range that forgets where the resume starts.
StartAtZero(i) == RangeStart(hdr.size - hdr.resume, N, i)

Start(i) == hdr.resume + RangeStart(hdr.size - hdr.resume, N, i)
End(i) == hdr.resume + RangeEnd(hdr.size - hdr.resume, N, i)
Left(i) == End(i) - off[i]

Fresh == hdr.resume = 0
May(fault) == fault \in Faults
AtMain(pc) == alive /\ main = pc
AtThread(i, pc) == alive /\ th[i] = pc

\* A step of the main thread, or of receiver i, that changes nothing else.
Goto(pc) == main' = pc /\ UNCHANGED <<files, alive, hdr, threads, joined, attempt>>
ThreadGoto(i, pc) ==
    /\ th' = [th EXCEPT ![i] = pc]
    /\ UNCHANGED <<files, alive, main, hdr, off, abort, joined, got, attempt>>

----------------------------------------------------------------------------
\* The control header.

\* Every refusal of the header before the destination is looked at.
Accepts(h) ==
    /\ h.magic
    /\ h.n \in 1..64
    /\ h.crypt = Crypt
    /\ h.resume <= h.size
    /\ Check => h.check
    /\ h.resume > 0 => h.check
    /\ h.n = N
    /\ h.crypt => h.opens

\* The length of the destination is taken on trust.
AnyPrefix(h) == TRUE

\* A resume needs the prefix the source will not send again.
HavePrefix(h) == FileLen(dest) >= h.resume

ReadControl(h) ==
    /\ AtMain("control")
    /\ Accepts(h)
    /\ HavePrefix(h)
    /\ hdr' = h
    /\ main' = "open"
    /\ UNCHANGED <<files, alive, threads, joined, attempt>>

Refuse(h) ==
    /\ AtMain("control")
    /\ ~(Accepts(h) /\ HavePrefix(h))
    /\ Goto("err")

\* The header never comes, or comes short: a closed stream or the read timeout.
ControlLost ==
    /\ AtMain("control")
    /\ Goto("err")

----------------------------------------------------------------------------
\* The work file.

\* A fresh file is written in place.
OpenInPlace ==
    /\ AtMain("open")
    /\ dest' = IF Fresh THEN EmptyFile ELSE dest
    /\ fd' = "dest" /\ main' = "extend"
    /\ UNCHANGED <<temp, alive, hdr, threads, joined, attempt>>

OpenWork ==
    /\ AtMain("open")
    /\ IF Fresh
       THEN /\ temp' = EmptyFile
            /\ fd' = "temp"
            /\ main' = "extend"
       ELSE /\ fd' = "dest"
            /\ main' = IF FileLen(dest) > hdr.resume THEN "droptail" ELSE "extend"
            /\ UNCHANGED temp
    /\ UNCHANGED <<dest, alive, hdr, threads, joined, attempt>>

\* set_len of the open file, wherever it now is.
Resize(n) ==
    /\ dest' = IF fd = "dest" THEN SetLen(dest, n) ELSE dest
    /\ temp' = IF fd = "temp" THEN SetLen(temp, n) ELSE temp
    /\ UNCHANGED fd

\* Only what the source will not resend stays in front of the new bytes.
DropTail ==
    /\ AtMain("droptail")
    /\ Resize(hdr.resume)
    /\ main' = "extend"
    /\ UNCHANGED <<alive, hdr, threads, joined, attempt>>

\* One receiver more than there are streams.
ExtendForOneMore ==
    /\ AtMain("extend")
    /\ Resize(hdr.size)
    /\ UNCHANGED <<alive, hdr, abort, joined, attempt>>
    /\ main' = "join"
    /\ th' = [i \in 0..N |-> "check"]
    /\ off' = [i \in 0..N |-> Start(i)]
    /\ got' = hdr.resume

\* set_len(size), then the receivers are spawned.
Extend ==
    /\ AtMain("extend")
    /\ Resize(hdr.size)
    /\ main' = "join"
    /\ th' = [i \in Streams |-> "check"]
    /\ off' = [i \in Streams |-> Start(i)]
    /\ got' = hdr.resume
    /\ UNCHANGED <<alive, hdr, abort, joined, attempt>>

\* All three return through `?', past the cleanup below.
SetupFails ==
    /\ \/ AtMain("open") /\ May("open")
       \/ (AtMain("droptail") \/ AtMain("extend")) /\ May("setlen")
    /\ Goto("err")

----------------------------------------------------------------------------
\* A receiver: recv_range, and the store of the abort flag when it fails.

\* A write through the open file reaches the file wherever it now is.
Put(o, d) ==
    /\ dest' = IF fd = "dest" THEN WriteAt(dest, o, d) ELSE dest
    /\ temp' = IF fd = "temp" THEN WriteAt(temp, o, d) ELSE temp
    /\ UNCHANGED fd

RecvDone(i) ==
    /\ AtThread(i, "check")
    /\ Left(i) = 0
    /\ ThreadGoto(i, "ok")

\* A receiver that sees the flag waits for it to be lowered.
RecvParks(i) == AtThread(i, "check") /\ abort /\ UNCHANGED vars

RecvAborted(i) ==
    /\ AtThread(i, "check")
    /\ Left(i) > 0
    /\ abort
    /\ ThreadGoto(i, "err")

RecvCheck(i) ==
    /\ AtThread(i, "check")
    /\ Left(i) > 0
    /\ ~abort
    /\ ThreadGoto(i, "read")

\* What one read yields: a sealed frame of the peer's length, which may be none, else the
\* bytes asked for.
FrameLen(i, k) ==
    IF hdr.crypt THEN k \in 0..Chunk /\ k <= Left(i)
    ELSE k = (IF Left(i) < Chunk THEN Left(i) ELSE Chunk)

Frames(i) == UNION {[1..k -> Byte] : k \in {k \in 0..Chunk : FrameLen(i, k)}}

\* The counter takes the frame's size, not its payload's.
RecvCountsWhole(i, d) ==
    /\ AtThread(i, "read")
    /\ FrameLen(i, Len(d))
    /\ Put(off[i], d)
    /\ off' = [off EXCEPT ![i] = @ + Len(d)]
    /\ got' = got + Chunk
    /\ th' = [th EXCEPT ![i] = "check"]
    /\ UNCHANGED <<alive, main, hdr, abort, joined, attempt>>

RecvFrame(i, d) ==
    /\ AtThread(i, "read")
    /\ FrameLen(i, Len(d))
    /\ Put(off[i], d)
    /\ off' = [off EXCEPT ![i] = @ + Len(d)]
    /\ got' = got + Len(d)
    /\ th' = [th EXCEPT ![i] = "check"]
    /\ UNCHANGED <<alive, main, hdr, abort, joined, attempt>>

\* The stream closed or stalled past its timeout, or the frame does not open.
RecvFails(i) ==
    /\ AtThread(i, "read")
    /\ th' = [th EXCEPT ![i] = "err"]
    /\ abort' = TRUE
    /\ UNCHANGED <<files, alive, main, hdr, off, joined, got, attempt>>

\* write_at_full stops after k bytes of the frame.
RecvShortWrite(i, d, k) ==
    /\ AtThread(i, "read")
    /\ May("write")
    /\ FrameLen(i, Len(d))
    /\ Put(off[i], SubSeq(d, 1, k))
    /\ th' = [th EXCEPT ![i] = "err"]
    /\ abort' = TRUE
    /\ UNCHANGED <<alive, main, hdr, off, joined, got, attempt>>

----------------------------------------------------------------------------
\* The end of finish_sink.

JoinOk ==
    /\ AtMain("join")
    /\ joined < N
    /\ th[joined] = "ok"
    /\ joined' = joined + 1
    /\ UNCHANGED <<files, alive, main, hdr, threads, attempt>>

\* The first failed receiver ends the joining: those after it are detached.
JoinErr ==
    /\ AtMain("join")
    /\ joined < N
    /\ th[joined] = "err"
    /\ Goto("cleanup")

\* The last receiver is not waited for.
JoinedAllButOne == AtMain("join") /\ joined = N - 1 /\ Goto("verify")

JoinedAll ==
    /\ AtMain("join")
    /\ joined = N
    /\ Goto("verify")

Work == IF Fresh THEN temp ELSE dest

\* Only a fresh file is hashed.
VerifyFresh ==
    /\ AtMain("verify")
    /\ Goto(IF Fresh /\ hdr.check /\ Hash(Work.bytes) # hdr.sum THEN "cleanup" ELSE "preserve")

Verify ==
    /\ AtMain("verify")
    /\ Goto(IF hdr.check /\ Hash(Work.bytes) # hdr.sum THEN "cleanup" ELSE "preserve")

\* Mode and mtime are set on a temporary only.
PreserveFresh ==
    /\ AtMain("preserve")
    /\ temp' = IF hdr.preserve /\ Fresh THEN [temp EXCEPT !.meta = "sent"] ELSE temp
    /\ main' = "rename"
    /\ UNCHANGED <<dest, fd, alive, hdr, threads, joined, attempt>>

ApplyPreserve ==
    /\ AtMain("preserve")
    /\ IF ~hdr.preserve THEN UNCHANGED <<dest, temp>>
       ELSE IF Fresh THEN temp' = [temp EXCEPT !.meta = "sent"] /\ UNCHANGED dest
       ELSE dest' = [dest EXCEPT !.meta = "sent"] /\ UNCHANGED temp
    /\ main' = "rename"
    /\ UNCHANGED <<fd, alive, hdr, threads, joined, attempt>>

\* A fresh transfer replaces the destination; a resumed one is in place already.
Rename ==
    /\ AtMain("rename")
    /\ IF Fresh
       THEN dest' = temp /\ temp' = NoFile /\ fd' = "dest"
       ELSE UNCHANGED files
    /\ main' = "ok"
    /\ UNCHANGED <<alive, hdr, threads, joined, attempt>>

\* An error after the receivers returns without the cleanup.
FinishReturns == AtMain("verify") /\ hdr.check /\ May("hash") /\ Goto("err")

\* hash_file, apply_preserve and rename fail into the cleanup.
FinishFails ==
    /\ \/ AtMain("verify") /\ hdr.check /\ May("hash")
       \/ AtMain("preserve") /\ hdr.preserve /\ May("preserve")
       \/ AtMain("rename") /\ Fresh /\ May("rename")
    /\ Goto("cleanup")

\* The cleanup works on the destination, whatever the work file was.
CleanupDest ==
    /\ AtMain("cleanup")
    /\ dest' = SetLen(dest, hdr.resume)
    /\ main' = "err"
    /\ UNCHANGED <<temp, fd, alive, hdr, threads, joined, attempt>>

\* sink_fail_cleanup: remove the temporary, or cut the destination to its prefix.
Cleanup ==
    /\ AtMain("cleanup")
    /\ IF Fresh
       THEN temp' = NoFile /\ fd' = "gone" /\ UNCHANGED dest
       ELSE dest' = SetLen(dest, hdr.resume) /\ UNCHANGED <<temp, fd>>
    /\ main' = "err"
    /\ UNCHANGED <<alive, hdr, threads, joined, attempt>>

\* Its own failure is ignored.
CleanupFails ==
    /\ AtMain("cleanup")
    /\ May("remove")
    /\ Goto("err")

----------------------------------------------------------------------------
\* The process.

\* It returns to the shell, and the receivers it detached end with it.
Exit ==
    /\ AtMain("ok") \/ AtMain("err")
    /\ alive' = FALSE
    /\ UNCHANGED <<files, main, hdr, threads, joined, attempt>>

\* Killed, at any step.
Crash ==
    /\ alive /\ main \notin {"ok", "err"}
    /\ alive' = FALSE
    /\ UNCHANGED <<files, main, hdr, threads, joined, attempt>>

\* The command is run again; its temporary has a new random name.
Rerun ==
    /\ ~alive /\ attempt < MaxAttempts
    /\ alive' = TRUE
    /\ attempt' = attempt + 1
    /\ main' = "control"
    /\ hdr' = NoHeader
    /\ temp' = NoFile /\ fd' = "none"
    /\ th' = [i \in Streams |-> "idle"]
    /\ off' = [i \in Streams |-> 0]
    /\ abort' = FALSE /\ joined' = 0 /\ got' = 0
    /\ UNCHANGED dest

Init ==
    /\ dest \in InitDests
    /\ temp = NoFile /\ fd = "none"
    /\ alive = TRUE
    /\ main = "control"
    /\ hdr = NoHeader
    /\ th = [i \in Streams |-> "idle"]
    /\ off = [i \in Streams |-> 0]
    /\ abort = FALSE /\ joined = 0 /\ got = 0
    /\ attempt = 1

Control == ControlLost \/ \E h \in Headers : ReadControl(h) \/ Refuse(h)
Prepare == OpenWork \/ DropTail \/ Extend \/ SetupFails
Joining == JoinOk \/ JoinErr \/ JoinedAll
Finish == \/ Verify \/ ApplyPreserve \/ Rename \/ FinishFails
          \/ Cleanup \/ CleanupFails
Main == Control \/ Prepare \/ Joining \/ Finish

Arrives(i) == \E d \in Frames(i) :
                 RecvFrame(i, d) \/ \E k \in 0..(Len(d) - 1) : RecvShortWrite(i, d, k)
Receiver(i) == RecvDone(i) \/ RecvAborted(i) \/ RecvCheck(i) \/ Arrives(i) \/ RecvFails(i)

Next == Main \/ (\E i \in Streams : Receiver(i)) \/ Exit \/ Crash \/ Rerun

\* A sealed frame of no bytes: it opens, and the receiver is where it was.
EmptyFrame(i) == RecvFrame(i, <<>>)

\* Every blocking call of either kind of thread is bounded by a socket timeout.
Fairness == WF_vars(Main) /\ \A i \in Streams : WF_vars(Receiver(i))

Spec == Init /\ [][Next]_vars /\ Fairness

----------------------------------------------------------------------------
\* What must hold.

ThreadStates == {"idle", "check", "read", "ok", "err"}
MainStates == {"control", "open", "droptail", "extend", "join", "verify",
               "preserve", "rename", "cleanup", "ok", "err"}

TypeOK ==
    /\ dest \in Files \cup {NoFile}
    /\ temp \in Files \cup {NoFile}
    /\ fd \in {"none", "temp", "dest", "gone"}
    /\ alive \in BOOLEAN
    /\ main \in MainStates
    /\ hdr \in Headers \cup {NoHeader}
    /\ th \in [Streams -> ThreadStates]
    /\ off \in [Streams -> Nat]
    /\ abort \in BOOLEAN
    /\ joined \in 0..N
    /\ got \in Nat
    /\ attempt \in Nat

\* A transfer that finish_sink calls successful left the destination at the
\* announced size and, when the source sent a hash, with the hashed content:
\* whatever earlier runs were killed half-way, whatever the prefix held.
VerifiedDest ==
    main = "ok" => /\ FileLen(dest) = hdr.size
                   /\ hdr.check => Hash(dest.bytes) = hdr.sum

\* A receiver that failed, even one nobody joins, keeps finish_sink from
\* success: the join loop sees the error before the hash is looked at.
FailureReported ==
    (\E i \in Streams : th[i] = "err")
        => main \notin {"verify", "preserve", "rename", "ok"}

\* When the payload is complete the shared counter, added to by all receivers,
\* has counted each byte once: it is the total of the progress report.
GotExact == main \in {"verify", "preserve", "rename", "ok"} => got = hdr.size

\* --preserve survives to the end: nothing touches the file after apply_preserve.
PreservedMeta == main = "ok" /\ hdr.preserve => dest.meta = "sent"

\* When finish_sink has returned, no temporary is left beside the destination.
NoTempLeft == main \in {"ok", "err"} => temp = NoFile

\* A fresh transfer (and one whose header was refused) changes the destination
\* only by putting the whole new file in place: complete, hashed, with its mode.
FreshReplacesWhole ==
    [][Fresh /\ dest' # dest =>
          /\ FileLen(dest') = hdr.size
          /\ hdr.check => Hash(dest'.bytes) = hdr.sum
          /\ hdr.preserve => dest'.meta = "sent"]_vars

\* A resume never changes the bytes it trusts: not by its writes, not by its
\* cleanup, not by a receiver that is still writing after the cleanup.
PrefixTrusted ==
    [][~Fresh => Prefix(dest', hdr.resume) = Prefix(dest, hdr.resume)]_vars

\* After success no receiver is left that could still write the destination.
SettledAfterOk == [][main = "ok" => dest' = dest]_vars

\* sink_fail_cleanup's own comment: a failed transfer shrinks a resumed
\* destination to its trusted prefix.
FailedResumeShrinks ==
    main = "err" /\ fd = "dest" => FileLen(dest) <= hdr.resume

\* A stalled or dead source makes the sink fail, never hang, whichever receiver it starves
\* and whoever is joined first. Only a source that sends empty sealed frames for ever, each
\* of them within the timeout, keeps finish_sink from returning.
Returns ==
    \/ alive ~> (main \in {"ok", "err"} \/ ~alive)
    \/ \E i \in Streams : []<><<EmptyFrame(i)>>_vars
============================================================================
