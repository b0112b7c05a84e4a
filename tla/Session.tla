------------------------------- MODULE Session -----------------------------
(***************************************************************************)
(* One transfer end to end: Source and Sink over N byte streams.  A stream *)
(* delivers frames in order, holds at most Cap of them, and may be cut     *)
(* with whatever it still holds; either process may be killed; a read or a *)
(* write that makes no progress times out.  The command may then be run    *)
(* again, resuming (-A) from the length the destination then has.          *)
(***************************************************************************)
EXTENDS Sink

CONSTANTS
    Cap,          \* frames the socket buffers of a stream hold
    SendCheck,    \* the source's -c
    SendCrypt,    \* the source holds the session key
    Preserve,     \* the source's --preserve
    Contents,     \* what the input file may hold
    MaxEdits,     \* how often its owner may change it
    Resume,       \* -A on both sides
    Trouble       \* which of "cut", "stall", "kill", "input" may happen

VARIABLES src, from, salive, smain, shdr, sth, soff, sabort, sjoined, chan,
          wire,   \* the streams not cut
          edits,  \* changes of the input file so far
          hashed  \* the input's content when the size was taken, then when hashed

Src == INSTANCE Source

svars == <<src, from, salive, smain, shdr, sth, soff, sabort, sjoined, chan>>
net == <<wire, edits, hashed>>
allvars == <<vars, svars, net>>

ASSUME SessionAssumption ==
    /\ Cap \in Nat \ {0} /\ MaxEdits \in Nat /\ Contents \subseteq Seq(Byte)
    /\ {SendCheck, SendCrypt, Preserve, Resume} \subseteq BOOLEAN
    /\ Trouble \subseteq {"cut", "stall", "kill", "input"}

Can(t) == t \in Trouble

\* The receiving end of stream i is gone.
RClosed(i) == \/ ~alive
              \/ th[i] \in {"ok", "err"}
              \/ th[i] = "idle" /\ main = "err"

\* A blocked read ends without a frame; a blocked write without room.
ReadEnds(i) == chan[i] = <<>> /\ (Src!SClosed(i) \/ i \notin wire \/ Can("stall"))
WriteEnds(i) == RClosed(i) \/ i \notin wire \/ (Can("stall") /\ Len(chan[i]) >= Cap)

Consume(i) == chan' = [chan EXCEPT ![i] = Tail(@)]
SameSource == UNCHANGED <<src, from, salive, smain, shdr, sth, soff, sabort, sjoined>>

----------------------------------------------------------------------------
\* The sink's steps, fed by the streams.

SinkControl ==
    /\ UNCHANGED net
    /\ SameSource
    /\ \/ chan[0] # <<>> /\ Consume(0)
          /\ (ReadControl(Head(chan[0])) \/ Refuse(Head(chan[0])))
       \/ ReadEnds(0) /\ ControlLost /\ UNCHANGED chan

SinkLocal == (Prepare \/ Joining \/ Finish) /\ UNCHANGED <<svars, net>>

\* The frame at the head of the stream arrives.
Receive(i) ==
    /\ th[i] = "read" /\ chan[i] # <<>>
    /\ Consume(i)
    /\ LET d == Head(chan[i])
       IN  RecvFrame(i, d) \/ \E k \in 0..(Len(d) - 1) : RecvShortWrite(i, d, k)

SinkReceiver(i) ==
    /\ UNCHANGED net
    /\ SameSource
    /\ \/ (RecvDone(i) \/ RecvAborted(i) \/ RecvCheck(i)) /\ UNCHANGED chan
       \/ Receive(i)
       \/ ReadEnds(i) /\ RecvFails(i) /\ UNCHANGED chan

SinkEnds == (Exit \/ (Can("kill") /\ Crash)) /\ UNCHANGED <<svars, net>>

----------------------------------------------------------------------------
\* The source's steps, into the streams.

SourceMain ==
    /\ UNCHANGED <<vars, wire, edits>>
    /\ hashed' = IF smain \in {"open", "hash"} THEN src ELSE hashed
    /\ \/ Src!SMain
       \/ 0 \in wire /\ Src!SendControl
       \/ WriteEnds(0) /\ Src!ControlFails
       \/ (from > 0 /\ ~SendCheck) /\ Src!ControlFails
       \/ Can("input") /\ Src!InputFails

SourceSender(i) ==
    /\ UNCHANGED <<vars, net>>
    /\ \/ Src!SendDone(i) \/ Src!SendAborted(i) \/ Src!SendNext(i)
       \/ i \in wire /\ Src!SendFrame(i)
       \/ (Src!SourceCut(i) \/ WriteEnds(i)) /\ Src!SendFails(i)

SourceEnds ==
    /\ smain \in {"ok", "err"} \/ Can("kill")
    /\ Src!SExit
    /\ UNCHANGED <<vars, net>>

----------------------------------------------------------------------------
\* The world.

\* A stream dies with the end of what it holds.
Cut(i) ==
    /\ Can("cut")
    /\ i \in wire /\ alive /\ salive
    /\ wire' = wire \ {i}
    /\ \E k \in 0..Len(chan[i]) : chan' = [chan EXCEPT ![i] = SubSeq(@, 1, k)]
    /\ SameSource
    /\ UNCHANGED <<vars, edits, hashed>>

Edit(content) ==
    /\ edits < MaxEdits /\ salive /\ content # src
    /\ edits' = edits + 1
    /\ Src!EditSource(content)
    /\ UNCHANGED <<vars, wire, hashed>>

Offset(file) == IF Resume THEN FileLen(file) ELSE 0

Again ==
    /\ Rerun
    /\ Src!SRerun(Offset(dest))
    /\ wire' = Streams
    /\ UNCHANGED <<edits, hashed>>

SessionInit ==
    /\ Init
    /\ src \in Contents
    /\ Src!SInit(Offset(dest))
    /\ wire = Streams /\ edits = 0 /\ hashed = src

SinkProcess == SinkControl \/ SinkLocal
World == (\E i \in Streams : Cut(i)) \/ (\E c \in Contents : Edit(c)) \/ Again

SessionNext ==
    \/ SinkProcess \/ (\E i \in Streams : SinkReceiver(i)) \/ SinkEnds
    \/ SourceMain \/ (\E i \in Streams : SourceSender(i)) \/ SourceEnds
    \/ World

\* Both kernels schedule every thread; the commands return to their shells.
SessionFairness ==
    /\ WF_allvars(SinkProcess) /\ WF_allvars(SourceMain)
    /\ WF_allvars(Exit /\ UNCHANGED <<svars, net>>)
    /\ WF_allvars(smain \in {"ok", "err"} /\ SourceEnds)
    /\ \A i \in Streams : WF_allvars(SinkReceiver(i)) /\ WF_allvars(SourceSender(i))

SessionSpec == SessionInit /\ [][SessionNext]_allvars /\ SessionFairness

----------------------------------------------------------------------------
\* What must hold.

\* When the input was left alone, a successful sink has exactly its bytes, with
\* or without a hash: no frame is lost, duplicated, or put at another's offset.
Delivered == main = "ok" /\ edits = 0 => dest.bytes = src

\* With a hash, success means the destination is the content the source hashed,
\* however the input, the prefix or an earlier killed run went wrong.
DeliveredAsHashed == main = "ok" /\ hdr.check => dest.bytes = hashed

\* The sink cannot succeed in a transfer that fails at the source: a sender that
\* fails still owes the sink bytes.
NoFalseFailure == main = "ok" => smain # "err"

\* One dead stream, or one side gone, ends both commands: the abort flag stops
\* the siblings, dropped sockets and timeouts stop the peer.
BothEnd == (wire # Streams \/ ~alive \/ ~salive) ~> (~alive /\ ~salive)

\* A fresh copy that meets no cut and no kill arrives: no order in which the
\* threads of both sides, full buffers and the closing of finished streams
\* interleave makes it hang or fail.
Undisturbed ==
    /\ from = 0 /\ wire = Streams
    /\ alive \/ main \in {"ok", "err"}
    /\ salive \/ smain \in {"ok", "err"}
FileArrives == []Undisturbed => <>(main = "ok" /\ smain = "ok" /\ dest.bytes = src)
============================================================================
