------------------------------- MODULE Source ------------------------------
(***************************************************************************)
(* The sending side of one transfer: finish_source and its sender threads  *)
(* (send_range), writing to one bounded byte stream per range.  Stream 0   *)
(* carries the control header before its frames.  The source file may be   *)
(* changed by its owner at any time; nothing locks it.                     *)
(***************************************************************************)
EXTENDS Ranges, Sequences

CONSTANTS
    N,          \* streams dialed, -s
    Chunk,      \* CHUNK or CRYPT_PT: payload bytes of one frame
    Cap,        \* frames the two socket buffers of a stream hold
    SendCheck,  \* -c
    SendCrypt,  \* a session key is held
    Preserve,   \* --preserve
    Hash(_)     \* BLAKE3 of a content

VARIABLES
    src,      \* the bytes of the input file
    from,     \* resume_from, the -R of this run
    salive,   \* the process runs
    smain,    \* where finish_source is; "ok" and "err" are its results
    shdr,     \* the header: its size from open, its sum from hash_file
    sth,      \* where each sender is; "ok" and "err" are its results
    soff,     \* the next offset each sender reads
    sabort,   \* the flag the senders share
    sjoined,  \* senders joined so far
    chan      \* what is in flight on each stream

svars == <<src, from, salive, smain, shdr, sth, soff, sabort, sjoined, chan>>

SStart(i) == from + RangeStart(shdr.size - from, N, i)

\* A mistake: the end of a range taken for its last byte.
SEndInclusive(i) == from + RangeEnd(shdr.size - from, N, i) - 1

SEnd(i) == from + RangeEnd(shdr.size - from, N, i)
SLeft(i) == SEnd(i) - soff[i]
Want(i) == IF SLeft(i) < Chunk THEN SLeft(i) ELSE Chunk

SAtMain(pc) == salive /\ smain = pc
SAtThread(i, pc) == salive /\ sth[i] = pc

\* finish_source or the sender that owned the stream has dropped its socket.
SClosed(i) ==
    \/ ~salive
    \/ sth[i] \in {"ok", "err"}
    \/ sth[i] = "idle" /\ smain = "err"

BlankHeader(resume) ==
    [magic |-> TRUE, check |-> SendCheck, crypt |-> SendCrypt, opens |-> TRUE,
     preserve |-> Preserve, size |-> 0, n |-> N, resume |-> resume, sum |-> <<>>]

----------------------------------------------------------------------------
\* The size is that of the opened file; a resume past its end is refused.
OpenSource ==
    /\ SAtMain("open")
    /\ IF from > Len(src)
       THEN smain' = "err" /\ UNCHANGED shdr
       ELSE smain' = "hash" /\ shdr' = [shdr EXCEPT !.size = Len(src)]
    /\ UNCHANGED <<src, from, salive, sth, soff, sabort, sjoined, chan>>

\* hash_file reads the path again: the file of that moment.
HashSource ==
    /\ SAtMain("hash")
    /\ shdr' = IF SendCheck THEN [shdr EXCEPT !.sum = Hash(src)] ELSE shdr
    /\ smain' = "header"
    /\ UNCHANGED <<src, from, salive, sth, soff, sabort, sjoined, chan>>

\* The header goes out on stream 0, then the senders start.
SendControl ==
    /\ SAtMain("header")
    /\ from > 0 => SendCheck
    /\ chan' = [chan EXCEPT ![0] = Append(@, shdr)]
    /\ smain' = "join"
    /\ sth' = [i \in 0..(N - 1) |-> "check"]
    /\ soff' = [i \in 0..(N - 1) |-> SStart(i)]
    /\ UNCHANGED <<src, from, salive, shdr, sabort, sjoined>>

\* A resume without a hash is refused here, with the header begun; a dead peer too.
ControlFails ==
    /\ SAtMain("header")
    /\ smain' = "err"
    /\ UNCHANGED <<src, from, salive, shdr, sth, soff, sabort, sjoined, chan>>

----------------------------------------------------------------------------
\* A mistake: the sender ends its stream by a shutdown that may fail.
SendShuts(i) ==
    /\ SAtThread(i, "check")
    /\ SLeft(i) = 0
    /\ \E r \in {"ok", "err"} : sth' = [sth EXCEPT ![i] = r]
    /\ UNCHANGED <<src, from, salive, smain, shdr, soff, sabort, sjoined, chan>>

SendDone(i) ==
    /\ SAtThread(i, "check")
    /\ SLeft(i) = 0
    /\ sth' = [sth EXCEPT ![i] = "ok"]
    /\ UNCHANGED <<src, from, salive, smain, shdr, soff, sabort, sjoined, chan>>

\* A mistake: a sender that sees the flag waits for it to be lowered.
SendParks(i) == SAtThread(i, "check") /\ sabort /\ UNCHANGED svars

SendAborted(i) ==
    /\ SAtThread(i, "check")
    /\ SLeft(i) > 0
    /\ sabort
    /\ sth' = [sth EXCEPT ![i] = "err"]
    /\ UNCHANGED <<src, from, salive, smain, shdr, soff, sabort, sjoined, chan>>

SendNext(i) ==
    /\ SAtThread(i, "check")
    /\ SLeft(i) > 0
    /\ ~sabort
    /\ sth' = [sth EXCEPT ![i] = "write"]
    /\ UNCHANGED <<src, from, salive, smain, shdr, soff, sabort, sjoined, chan>>

\* read_at_full of the range's next bytes, then the write into the stream.
SendFrame(i) ==
    /\ SAtThread(i, "write")
    /\ soff[i] + Want(i) <= Len(src)
    /\ Len(chan[i]) < Cap
    /\ chan' = [chan EXCEPT ![i] = Append(@, SubSeq(src, soff[i] + 1, soff[i] + Want(i)))]
    /\ soff' = [soff EXCEPT ![i] = @ + Want(i)]
    /\ sth' = [sth EXCEPT ![i] = "check"]
    /\ UNCHANGED <<src, from, salive, smain, shdr, sabort, sjoined>>

\* The read or the write fails, and the flag stops the siblings.
SendFails(i) ==
    /\ SAtThread(i, "write")
    /\ sth' = [sth EXCEPT ![i] = "err"]
    /\ sabort' = TRUE
    /\ UNCHANGED <<src, from, salive, smain, shdr, soff, sjoined, chan>>

\* read_at_full meets the end of a file that has become shorter.
SourceCut(i) == soff[i] + Want(i) > Len(src)

----------------------------------------------------------------------------
SJoinOk ==
    /\ SAtMain("join")
    /\ sjoined < N
    /\ sth[sjoined] = "ok"
    /\ sjoined' = sjoined + 1
    /\ UNCHANGED <<src, from, salive, smain, shdr, sth, soff, sabort, chan>>

SJoinErr ==
    /\ SAtMain("join")
    /\ sjoined < N
    /\ sth[sjoined] = "err"
    /\ smain' = "err"
    /\ UNCHANGED <<src, from, salive, shdr, sth, soff, sabort, sjoined, chan>>

SJoinedAll ==
    /\ SAtMain("join")
    /\ sjoined = N
    /\ smain' = "ok"
    /\ UNCHANGED <<src, from, salive, shdr, sth, soff, sabort, sjoined, chan>>

\* The input cannot be opened, or hash_file cannot read it.
InputFails ==
    /\ SAtMain("open") \/ (SAtMain("hash") /\ SendCheck)
    /\ smain' = "err"
    /\ UNCHANGED <<src, from, salive, shdr, sth, soff, sabort, sjoined, chan>>

\* The command returns, or is killed.
SExit ==
    /\ salive
    /\ salive' = FALSE
    /\ UNCHANGED <<src, from, smain, shdr, sth, soff, sabort, sjoined, chan>>

\* The owner of the input file writes it.
EditSource(content) ==
    /\ src' = content
    /\ UNCHANGED <<from, salive, smain, shdr, sth, soff, sabort, sjoined, chan>>

SInit(resume) ==
    /\ from = resume
    /\ salive = TRUE /\ smain = "open"
    /\ shdr = BlankHeader(resume)
    /\ sth = [i \in 0..(N - 1) |-> "idle"]
    /\ soff = [i \in 0..(N - 1) |-> 0]
    /\ sabort = FALSE /\ sjoined = 0
    /\ chan = [i \in 0..(N - 1) |-> <<>>]

\* The command is run again, over new connections.
SRerun(resume) ==
    /\ ~salive
    /\ from' = resume
    /\ salive' = TRUE /\ smain' = "open"
    /\ shdr' = BlankHeader(resume)
    /\ sth' = [i \in 0..(N - 1) |-> "idle"]
    /\ soff' = [i \in 0..(N - 1) |-> 0]
    /\ sabort' = FALSE /\ sjoined' = 0
    /\ chan' = [i \in 0..(N - 1) |-> <<>>]
    /\ UNCHANGED src

SMain == OpenSource \/ HashSource \/ SJoinOk \/ SJoinErr \/ SJoinedAll
============================================================================
