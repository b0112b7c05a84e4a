------------------------------- MODULE Sealing ------------------------------
(***************************************************************************)
(* What -e puts on the streams the handshake filed.  A source draws a salt *)
(* for its transfer, writes the header in clear, seals the control box on  *)
(* stream 0 and then its frames, each under the key derived from the salt, *)
(* a nonce made of stream and counter, and the header's fields as          *)
(* associated data.  The sink is the accepter.  The source it waits for is *)
(* the dialer of Handshake; a second source that holds the same key may    *)
(* reach the port as well: two commands aimed at one port, or a late       *)
(* dialer of a transfer whose port the next listener of -Z has reused.     *)
(***************************************************************************)
EXTENDS Handshake, Sequences, Ranges

CONSTANTS
    Sizes,   \* lengths a file may have, in frames
    CtrMax   \* CONTROL_COUNTER, u64::MAX in the code

ASSUME SealingAssumption ==
    Dialed = N /\ CtrMax \in Nat /\ Sizes \subseteq 0..CtrMax

Sources == 0..1
SourceOf(c) == IF c < Dialed THEN 0 ELSE 1
StreamOf(c) == c - SourceOf(c) * Dialed

VARIABLES
    size,     \* each source's file
    control,  \* the sources that have sent their header and control box
    counter,  \* frames sealed on each connection
    sink,     \* "header", "recv", "ok" or "err"
    header,   \* the salt and size the sink has read
    opened    \* frames opened, by stream

sealVars == <<size, control, counter, sink, header, opened>>
allVars == <<vars, sealVars>>

----------------------------------------------------------------------------
\* A source's salt is its own: gen_key draws 32 random bytes for each transfer.
\* The first of a pair is a mistake: the long-term key itself, or associated data
\* without the length.
PskOnly(salt) == [psk |-> key, salt |-> 0]
DeriveAeadKey(salt) == [psk |-> key, salt |-> salt]

MakeNonce(i, k) == [stream |-> i, counter |-> k]

SaltOnly(n, salt) == [size |-> 0, salt |-> salt]
FrameAad(n, salt) == [size |-> n, salt |-> salt]

\* What a source seals on a connection: what was in it, and under what.
Box(c, what, k) ==
    LET q == SourceOf(c)
    IN  [key |-> DeriveAeadKey(q), nonce |-> MakeNonce(StreamOf(c), k),
         aad |-> FrameAad(size[q], q), plain |-> <<q, StreamOf(c), what, k>>]

\* A box opens under the key, nonce and associated data it was sealed under.
Opens(box, h, i, k) ==
    /\ box.key = DeriveAeadKey(h.salt)
    /\ box.nonce = MakeNonce(i, k)
    /\ box.aad = FrameAad(h.size, h.salt)

Frames(n, i) == RangeEnd(n, N, i) - RangeStart(n, N, i)

Boxes(c) ==
    {Box(c, "frame", k) : k \in 0..(counter[c] - 1)} \cup
    {Box(c, "control", CtrMax) : q \in {q \in control : c = q * Dialed}}

----------------------------------------------------------------------------
\* finish_source starts once every stream is dialed.
SendControl(q) ==
    /\ Keyed /\ q \notin control
    /\ IF q = 0 THEN dialer = "ok" ELSE \A i \in Streams : i < Extra /\ said[Dialed + i].mac
    /\ control' = control \cup {q}
    /\ UNCHANGED <<vars, size, counter, sink, header, opened>>

SealFrame(c) ==
    /\ SourceOf(c) \in control /\ StreamOf(c) \in Streams
    /\ counter[c] < Frames(size[SourceOf(c)], StreamOf(c))
    /\ counter' = [counter EXCEPT ![c] = @ + 1]
    /\ UNCHANGED <<vars, size, control, sink, header, opened>>

\* The header travels in clear and may have been damaged; the control box tells.
ReadHeader ==
    /\ Keyed /\ accepter = "ok" /\ sink = "header"
    /\ SourceOf(slots[0]) \in control
    /\ header' \in [salt : Sources, size : Sizes]
    /\ sink' = IF Opens(Box(slots[0], "control", CtrMax), header', 0, CtrMax)
               THEN "recv" ELSE "err"
    /\ UNCHANGED <<vars, size, control, counter, opened>>

Awaits(i) == sink = "recv" /\ Len(opened[i]) < Frames(header.size, i)

\* The next frame of a stream; one that does not open ends it all.
OpenFrame(i) ==
    LET k == Len(opened[i])
        box == Box(slots[i], "frame", k)
    IN  /\ Awaits(i) /\ k < counter[slots[i]]
        /\ IF Opens(box, header, i, k)
           THEN opened' = [opened EXCEPT ![i] = Append(@, box.plain)] /\ UNCHANGED sink
           ELSE sink' = "err" /\ UNCHANGED opened
        /\ UNCHANGED <<vars, size, control, counter, header>>

\* A source dies, or stalls past the timeout.
Lost ==
    /\ \/ Keyed /\ accepter = "ok" /\ sink = "header"
       \/ \E i \in Streams : Awaits(i)
    /\ sink' = "err"
    /\ UNCHANGED <<vars, size, control, counter, header, opened>>

Received ==
    /\ sink = "recv" /\ \A i \in Streams : ~Awaits(i)
    /\ sink' = "ok"
    /\ UNCHANGED <<vars, size, control, counter, header, opened>>

SealingInit ==
    /\ Init
    /\ size \in [Sources -> Sizes]
    /\ control = {} /\ counter = [c \in Conns |-> 0]
    /\ sink = "header" /\ header = [salt |-> 0, size |-> 0]
    /\ opened = [i \in Streams |-> <<>>]

Open == Next /\ UNCHANGED sealVars

SealingNext ==
    \/ Open
    \/ \E q \in Sources : SendControl(q)
    \/ \E c \in Conns : SealFrame(c)
    \/ ReadHeader \/ (\E i \in Streams : OpenFrame(i)) \/ Lost \/ Received

SealingSpec ==
    /\ SealingInit /\ [][SealingNext]_allVars
    /\ WF_allVars(Dial /\ UNCHANGED sealVars) /\ WF_allVars(Serve /\ UNCHANGED sealVars)

----------------------------------------------------------------------------
SealingTypeOK ==
    /\ TypeOK
    /\ size \in [Sources -> Sizes] /\ control \subseteq Sources
    /\ counter \in [Conns -> 0..CtrMax]
    /\ sink \in {"header", "recv", "ok", "err"}
    /\ header \in [salt : Sources, size : Sizes \cup {0}]
    /\ opened \in [Streams -> Seq(Sources \X Streams \X {"frame"} \X (0..CtrMax))]

\* No two boxes of any transfers under one key, the control box included, are sealed with
\* the same key and nonce, whichever commands share -k (crypto.rs:18, 91).
NonceOnce ==
    \A c, d \in Conns : \A a \in Boxes(c), b \in Boxes(d) :
        a.key = b.key /\ a.nonce = b.nonce => a = b

\* All that is opened is one source's, the one whose header was read, in place and in order,
\* and a transfer that ends well has all of it, even when another command with the same key
\* has some of the streams (net.rs:333) or the header is not what was sent.
OneSource ==
    /\ \A i \in Streams : \A k \in DOMAIN opened[i] :
          opened[i][k] = <<SourceOf(slots[0]), i, "frame", k - 1>>
    /\ sink = "ok" => \A i \in Streams :
          Len(opened[i]) = Frames(size[SourceOf(slots[0])], i)
============================================================================
