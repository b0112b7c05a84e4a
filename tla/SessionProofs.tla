---------------------------- MODULE SessionProofs --------------------------
(***************************************************************************)
(* Proofs about Session, for every number of streams, frame size, buffer   *)
(* bound and content: what a sink that succeeds has is what its source     *)
(* announced and, when nobody changed the input, the input.                *)
(*                                                                         *)
(* The sink's part of the invariant is that of SinkProofs: a step of the   *)
(* session is one of the sink (Fed) or leaves the sink alone.  The new     *)
(* part follows the frames: those in flight on a stream lead from the      *)
(* offset of its receiver to the offset of its sender.                     *)
(***************************************************************************)
EXTENDS Session, SinkProofs

----------------------------------------------------------------------------
\* Frames in flight, as sequences.

\* The bytes d are those of the file f from offset o on.
Copy(f, o, d) == \A j \in 1..Len(d) : d[j] = f[o + j]

\* p[k] is where frame k of D ends in the file, p[0] = a where the first one starts;
\* none reaches past z.  When f was not edited (e = 0) each frame has its bytes.
Path(e, f, D, a, z, p) ==
    /\ p \in [0..Len(D) -> Nat]
    /\ p[0] = a
    /\ \A k \in 1..Len(D) : D[k] \in Seq(Byte) /\ p[k] = p[k - 1] + Len(D[k])
    /\ e = 0 => \A k \in 1..Len(D) : Copy(f, p[k - 1], D[k])
    /\ \A k \in 0..Len(D) : p[k] <= z

Reaches(D, p, z) == p[Len(D)] = z

\* Nothing in flight.
LEMMA PathEmpty ==
    ASSUME NEW e, NEW f, NEW a \in Nat
    PROVE  LET p == [k \in 0..0 |-> a]
           IN  Path(e, f, <<>>, a, a, p) /\ p[Len(<<>>)] = a
  <1> DEFINE p == [k \in 0..0 |-> a]
  <1>1. Len(<<>>) = 0 /\ p \in [0..0 -> Nat] /\ p[0] = a
    OBVIOUS
  <1> HIDE DEF p
  <1>2. Path(e, f, <<>>, a, a, p)
    BY <1>1 DEF Path
  <1> QED BY <1>1, <1>2 DEF p

\* A sender writes its next bytes.
LEMMA PathAppend ==
    ASSUME NEW e, NEW f, NEW S, NEW D \in Seq(S), NEW a, NEW z \in Nat, NEW p,
           Path(e, f, D, a, z, p), Reaches(D, p, z),
           NEW d \in S, d \in Seq(Byte), e = 0 => Copy(f, z, d)
    PROVE  \E q : /\ Path(e, f, Append(D, d), a, z + Len(d), q)
                  /\ Reaches(Append(D, d), q, z + Len(d))
  <1> USE DEF Reaches
  <1> DEFINE n == Len(D)
             E == Append(D, d)
             q == [k \in 0..(n + 1) |-> IF k <= n THEN p[k] ELSE z + Len(d)]
  <1>1. n \in Nat /\ Len(E) = n + 1 /\ Len(d) \in Nat /\ E[n + 1] = d
        /\ \A k \in 1..n : E[k] = D[k]
    BY AppendProperties
  <1>2. /\ p \in [0..n -> Nat] /\ p[0] = a
        /\ \A k \in 1..n : D[k] \in Seq(Byte) /\ p[k] = p[k - 1] + Len(D[k])
        /\ e = 0 => \A k \in 1..n : Copy(f, p[k - 1], D[k])
        /\ \A k \in 0..n : p[k] <= z
    BY DEF Path
  <1> HIDE DEF n, E
  <1>3. /\ q \in [0..(n + 1) -> Nat] /\ q[0] = a /\ q[n + 1] = z + Len(d) /\ q[n] = z
        /\ \A k \in 1..n : q[k] = p[k] /\ q[k - 1] = p[k - 1]
        /\ \A k \in 0..(n + 1) : q[k] <= z + Len(d)
    <2> HIDE DEF q
    <2>1. n \in 0..(n + 1) /\ 0 \in 0..n /\ 0..n \subseteq 0..(n + 1) /\ p[n] = z
      BY <1>1 DEF n
    <2>2. \A k \in 0..n : q[k] = p[k] /\ p[k] \in Nat
      BY <1>1, <1>2 DEF q
    <2>3. q[n + 1] = z + Len(d) /\ q \in [0..(n + 1) -> Nat]
      BY <1>1, <1>2 DEF q
    <2>4. \A k \in 1..n : k \in 0..n /\ k - 1 \in 0..n
      BY <1>1
    <2>5. \A k \in 0..(n + 1) : k \in 0..n \/ k = n + 1
      BY <1>1
    <2>6. ASSUME NEW k \in 0..(n + 1)
          PROVE  q[k] <= z + Len(d)
      <3>1. CASE k \in 0..n
        <4>1. q[k] \in Nat /\ q[k] <= z
          BY <1>2, <2>2, <3>1
        <4> QED BY <1>1, <4>1
      <3>2. CASE k = n + 1
        BY <1>1, <2>3, <3>2
      <3> QED BY <2>5, <3>1, <3>2
    <2>7. \A k \in 1..n : q[k] = p[k] /\ q[k - 1] = p[k - 1]
      BY <2>2, <2>4
    <2> QED BY <1>2, <2>1, <2>2, <2>3, <2>6, <2>7
  <1> HIDE DEF q
  <1>4. ASSUME NEW k \in 1..(n + 1)
        PROVE  /\ E[k] \in Seq(Byte) /\ q[k] = q[k - 1] + Len(E[k])
               /\ e = 0 => Copy(f, q[k - 1], E[k])
    <2>1. CASE k = n + 1
      <3>1. k - 1 = n
        BY <1>1, <2>1
      <3> QED BY <1>1, <1>3, <2>1, <3>1
    <2>2. CASE k # n + 1
      <3>1. k \in 1..n
        BY <1>1, <2>2
      <3> QED BY <1>1, <1>2, <1>3, <3>1
    <2> QED BY <2>1, <2>2
  <1>5. Path(e, f, E, a, z + Len(d), q)
    BY <1>1, <1>3, <1>4 DEF Path
  <1> QED BY <1>1, <1>3, <1>5 DEF E

\* The first frame arrives.
LEMMA PathTail ==
    ASSUME NEW e, NEW f, NEW S, NEW D \in Seq(S), D # <<>>, NEW a \in Nat, NEW z, NEW p,
           Path(e, f, D, a, z, p)
    PROVE  LET d == Head(D)
           IN  /\ d \in Seq(Byte)
               /\ a + Len(d) <= z
               /\ e = 0 => Copy(f, a, d)
               /\ \E q : /\ Path(e, f, Tail(D), a + Len(d), z, q)
                         /\ q[Len(Tail(D))] = p[Len(D)]
  <1> DEFINE n == Len(D)
             E == Tail(D)
             d == Head(D)
             q == [k \in 0..(n - 1) |-> p[k + 1]]
  <1>1. n \in Nat \ {0} /\ Len(E) = n - 1 /\ d = D[1] /\ \A k \in 1..(n - 1) : E[k] = D[k + 1]
    BY HeadTailProperties, EmptySeq
  <1>2. /\ p \in [0..n -> Nat] /\ p[0] = a
        /\ \A k \in 1..n : D[k] \in Seq(Byte) /\ p[k] = p[k - 1] + Len(D[k])
        /\ e = 0 => \A k \in 1..n : Copy(f, p[k - 1], D[k])
        /\ \A k \in 0..n : p[k] <= z
    BY DEF Path
  <1> HIDE DEF n, E, d
  <1>3. d \in Seq(Byte) /\ p[1] = a + Len(d) /\ p[1] <= z
        /\ (e = 0 => Copy(f, a, d))
    <2>1. 1 \in 1..n /\ 1 \in 0..n /\ 1 - 1 = 0
      BY <1>1
    <2> QED BY <1>1, <1>2, <2>1
  <1>4. /\ q \in [0..(n - 1) -> Nat] /\ q[0] = a + Len(d) /\ q[n - 1] = p[n]
        /\ \A k \in 1..(n - 1) : q[k] = p[k + 1] /\ q[k - 1] = p[k]
        /\ \A k \in 0..(n - 1) : q[k] <= z
    <2>1. /\ 0 \in 0..(n - 1) /\ n - 1 \in 0..(n - 1) /\ (n - 1) + 1 = n /\ 0 + 1 = 1
          /\ \A k \in 0..(n - 1) : k + 1 \in 0..n
          /\ \A k \in 1..(n - 1) : k \in 0..(n - 1) /\ k - 1 \in 0..(n - 1) /\ (k - 1) + 1 = k
      BY <1>1
    <2>2. q \in [0..(n - 1) -> Nat] /\ \A k \in 0..(n - 1) : q[k] = p[k + 1]
      BY <1>2, <2>1
    <2> HIDE DEF q
    <2>3. q[0] = p[1] /\ q[n - 1] = p[n]
      BY <2>1, <2>2
    <2>4. \A k \in 1..(n - 1) : q[k] = p[k + 1] /\ q[k - 1] = p[k]
      BY <2>1, <2>2
    <2>5. \A k \in 0..(n - 1) : q[k] <= z
      BY <1>2, <2>1, <2>2
    <2> QED BY <1>3, <2>2, <2>3, <2>4, <2>5
  <1> HIDE DEF q
  <1>5. ASSUME NEW k \in 1..(n - 1)
        PROVE  /\ E[k] \in Seq(Byte) /\ q[k] = q[k - 1] + Len(E[k])
               /\ e = 0 => Copy(f, q[k - 1], E[k])
    <2>1. k + 1 \in 1..n /\ (k + 1) - 1 = k
      BY <1>1
    <2>2. E[k] = D[k + 1] /\ q[k] = p[k + 1] /\ q[k - 1] = p[k]
      BY <1>1, <1>4
    <2>3. /\ D[k + 1] \in Seq(Byte) /\ p[k + 1] = p[k] + Len(D[k + 1])
          /\ e = 0 => Copy(f, p[k], D[k + 1])
      BY <1>2, <2>1
    <2> QED BY <2>2, <2>3
  <1>6. Path(e, f, E, a + Len(d), z, q)
    BY <1>1, <1>4, <1>5 DEF Path
  <1> QED BY <1>1, <1>3, <1>4, <1>6 DEF E, d, n

\* The stream is cut: the last frames are lost.
LEMMA PathPrefix ==
    ASSUME NEW e, NEW f, NEW S, NEW D \in Seq(S), NEW a, NEW z, NEW p,
           Path(e, f, D, a, z, p), NEW m \in 0..Len(D)
    PROVE  \E q : Path(e, f, SubSeq(D, 1, m), a, z, q)
  <1> DEFINE E == SubSeq(D, 1, m)
             q == [k \in 0..m |-> p[k]]
  <1>1. Len(E) = m /\ \A k \in 1..m : E[k] = D[k]
    <2>1. Len(D) \in Nat /\ \A k \in 1..m : D[k] \in S
      OBVIOUS
    <2> QED BY <2>1, SubSeqProperties
  <1> HIDE DEF E
  <1>2. /\ p \in [0..Len(D) -> Nat] /\ p[0] = a
        /\ \A k \in 1..Len(D) : D[k] \in Seq(Byte) /\ p[k] = p[k - 1] + Len(D[k])
        /\ e = 0 => \A k \in 1..Len(D) : Copy(f, p[k - 1], D[k])
        /\ \A k \in 0..Len(D) : p[k] <= z
    BY DEF Path
  <1>3. /\ 0..m \subseteq 0..Len(D) /\ 1..m \subseteq 1..Len(D) /\ 0 \in 0..m
        /\ \A k \in 1..m : k \in 0..m /\ k - 1 \in 0..m
    OBVIOUS
  <1>4. q \in [0..m -> Nat] /\ \A k \in 0..m : q[k] = p[k]
    BY <1>2, <1>3
  <1> HIDE DEF q
  <1>5. \A k \in 1..m : q[k] = p[k] /\ q[k - 1] = p[k - 1] /\ E[k] = D[k]
    BY <1>1, <1>3, <1>4
  <1>6. Path(e, f, E, a, z, q)
    <2>1. /\ q[0] = a
          /\ \A k \in 0..m : q[k] <= z
      BY <1>2, <1>3, <1>4
    <2>2. \A k \in 1..m : E[k] \in Seq(Byte) /\ q[k] = q[k - 1] + Len(E[k])
      BY <1>2, <1>3, <1>5
    <2>3. e = 0 => \A k \in 1..m : Copy(f, q[k - 1], E[k])
      BY <1>2, <1>3, <1>5
    <2> QED BY <1>1, <1>4, <2>1, <2>2, <2>3 DEF Path
  <1> QED BY <1>6 DEF E

\* What is known of the file may be forgotten.
LEMMA PathForget ==
    ASSUME NEW e, NEW f, NEW D, NEW a, NEW z, NEW p, Path(e, f, D, a, z, p),
           NEW e2, NEW f2, e2 = 0 => e = 0 /\ f2 = f
    PROVE  Path(e2, f2, D, a, z, p)
  BY DEF Path


----------------------------------------------------------------------------
\* The source.

\* The header of a run: what differs between runs is its size and its hash.
Announce(size, sum) ==
    [magic |-> TRUE, check |-> SendCheck, crypt |-> SendCrypt, opens |-> TRUE,
     preserve |-> Preserve, size |-> size, n |-> N, resume |-> from, sum |-> sum]

\* The header went out and the senders were started.
Sent == sth[0] # "idle"

Traffic == [Streams -> Seq(Seq(Byte) \cup {shdr})]

SourceType ==
    /\ src \in Seq(Byte) /\ hashed \in Seq(Byte)
    /\ from \in Nat /\ edits \in Nat
    /\ salive \in BOOLEAN
    /\ smain \in {"open", "hash", "header", "join", "ok", "err"}
    /\ shdr.size \in Nat /\ shdr = Announce(shdr.size, shdr.sum)
    /\ sth \in [Streams -> {"idle", "check", "write", "ok", "err"}]
    /\ soff \in [Streams -> Nat]
    /\ sjoined \in 0..N
    /\ chan \in Traffic
    /\ wire \subseteq Streams

\* Nothing is sent before the header.
SentInv ==
    /\ smain \in {"join", "ok"} => Sent
    /\ ~Sent => /\ smain \in {"open", "hash", "header", "err"}
                /\ \A i \in Streams : sth[i] = "idle" /\ chan[i] = <<>>
    /\ Sent => smain \in {"join", "ok", "err"} /\ \A i \in Streams : sth[i] # "idle"

\* What the header says of the file.
AnnouncedInv ==
    /\ smain \in {"hash", "header"} \/ Sent => from <= shdr.size
    /\ smain = "header" \/ Sent => (SendCheck => shdr.sum = Hash(hashed))
    /\ Sent => (from > 0 => SendCheck)
    /\ edits = 0 => /\ hashed = src
                    /\ smain \in {"hash", "header"} \/ Sent => shdr.size = Len(src)

\* A sender stays in its range; one that fails has some of it left.
SenderInv ==
    /\ Sent => \A i \in Streams :
                  /\ Src!SStart(i) <= soff[i] /\ soff[i] <= Src!SEnd(i)
                  /\ sth[i] = "ok" => soff[i] = Src!SEnd(i)
                  /\ sth[i] \in {"write", "err"} => soff[i] < Src!SEnd(i)
    /\ Sent /\ smain = "err" => \E i \in Streams : sth[i] = "err"

SourceInv == SourceType /\ SentInv /\ AnnouncedInv /\ SenderInv

\* Every sender's range lies in the announced file.
LEMMA SenderRanges ==
    ASSUME SourceType, from <= shdr.size, NEW i \in Streams
    PROVE  /\ Src!SStart(i) \in Nat /\ Src!SEnd(i) \in Nat
           /\ Src!SStart(i) <= Src!SEnd(i) /\ Src!SEnd(i) <= shdr.size
  <1> DEFINE s == shdr.size - from
  <1>1. /\ s \in Nat /\ N \in Nat \ {0} /\ i \in Nat /\ i + 1 \in Nat /\ i + 1 <= N
        /\ i <= i + 1 /\ shdr.size \in Nat /\ from \in Nat /\ N \in Nat
    BY SinkAssumption DEF Streams, SourceType
  <1> HIDE DEF s
  <1>2. RangeStart(s, N, i) \in Nat /\ RangeStart(s, N, i + 1) \in Nat
    BY <1>1, RangeStartNat
  <1>3. RangeStart(s, N, i) <= RangeStart(s, N, i + 1)
    BY <1>1, RangeMonotone
  <1>4. RangeStart(s, N, i + 1) <= RangeStart(s, N, N) /\ RangeStart(s, N, N) = s
    BY <1>1, RangeMonotone, RangeBounds
  <1>5. /\ Src!SStart(i) = from + RangeStart(s, N, i)
        /\ Src!SEnd(i) = from + RangeStart(s, N, i + 1)
    BY DEF Src!SStart, Src!SEnd, Src!RangeStart, Src!RangeEnd, RangeStart, s
  <1>6. s = shdr.size - from
    BY DEF s
  <1> QED BY <1>1, <1>2, <1>3, <1>4, <1>5, <1>6

LEMMA FirstStream == 0 \in Streams /\ N \in Nat \ {0}
  BY SinkAssumption DEF Streams

LEMMA AnnounceSum ==
    ASSUME NEW z, NEW m, NEW v
    PROVE  [Announce(z, m) EXCEPT !.sum = v] = Announce(z, v)
  <1> DEFINE h == [Announce(z, m) EXCEPT !.sum = v]
  <1>1. h \in [magic : {TRUE}, check : {SendCheck}, crypt : {SendCrypt}, opens : {TRUE},
               preserve : {Preserve}, size : {z}, n : {N}, resume : {from}, sum : {v}]
    BY DEF Announce
  <1> HIDE DEF h
  <1>2. h = Announce(z, v)
    BY <1>1 DEF Announce
  <1> QED BY <1>2 DEF h

\* An empty stream may carry anything.
LEMMA QuietTraffic ==
    ASSUME chan \in Traffic, \A i \in Streams : chan[i] = <<>>, NEW T
    PROVE  chan \in [Streams -> Seq(T)]
  <1>1. \A i \in Streams : chan[i] \in Seq(T)
    BY EmptySeq
  <1> QED BY <1>1 DEF Traffic

\* Steps that change at most what is in flight and whether the process runs.
LEMMA SourceKept ==
    ASSUME SourceInv, UNCHANGED <<src, from, smain, shdr, sth, soff, sjoined, edits, hashed>>,
           salive' \in BOOLEAN, wire' \subseteq Streams, chan' \in Traffic,
           ~Sent => \A i \in Streams : chan'[i] = <<>>
    PROVE  SourceInv'
  <1>1. SourceType'
    BY DEF SourceInv, SourceType, Traffic, Announce
  <1>2. SentInv'
    BY DEF SourceInv, SentInv, Sent
  <1>3. AnnouncedInv'
    BY DEF SourceInv, AnnouncedInv, Sent
  <1>4. SenderInv'
    BY DEF SourceInv, SenderInv, Sent, Src!SStart, Src!SEnd
  <1> QED BY <1>1, <1>2, <1>3, <1>4 DEF SourceInv

\* Steps of the source before its header is out.
LEMMA BeforeHeader ==
    ASSUME SourceInv, SourceMain, Src!OpenSource \/ Src!HashSource \/ Src!ControlFails \/ Src!InputFails
    PROVE  SourceInv'
  <1>1. /\ UNCHANGED <<src, from, salive, sth, soff, sjoined, chan, wire, edits>>
        /\ smain \in {"open", "hash", "header"}
        /\ smain' \in {"hash", "header", "err"}
        /\ hashed' = IF smain \in {"open", "hash"} THEN src ELSE hashed
    BY DEF SourceMain, Src!OpenSource, Src!HashSource, Src!ControlFails, Src!InputFails,
           Src!SAtMain
  <1>2. ~Sent /\ \A i \in Streams : sth[i] = "idle" /\ chan[i] = <<>>
    BY <1>1 DEF SourceInv, SentInv
  <1>3. ~Sent'
    BY <1>1, <1>2 DEF Sent
  <1>4. /\ shdr' = Announce(shdr'.size, shdr'.sum) /\ shdr'.size \in Nat
        /\ smain' = "hash" => shdr'.size = Len(src) /\ from <= Len(src)
        /\ smain' = "header" => smain = "hash" /\ shdr'.size = shdr.size
                                /\ (SendCheck => shdr'.sum = Hash(src))
    <2>1. shdr = Announce(shdr.size, shdr.sum) /\ shdr.size \in Nat /\ Len(src) \in Nat /\ from \in Nat
      BY DEF SourceInv, SourceType
    <2>2. CASE Src!OpenSource
      BY <2>1, <2>2 DEF Src!OpenSource, Src!SAtMain, Announce
    <2>3. CASE Src!HashSource
      <3>1. smain' = "header" /\ smain = "hash"
        BY <2>3 DEF Src!HashSource, Src!SAtMain
      <3>2. CASE SendCheck
        <4>1. shdr' = [shdr EXCEPT !.sum = Hash(src)]
          BY <2>3, <3>2 DEF Src!HashSource
        <4>2. shdr' = Announce(shdr.size, Hash(src))
          BY <2>1, <4>1, AnnounceSum
        <4> QED BY <2>1, <3>1, <4>2 DEF Announce
      <3>3. CASE ~SendCheck
        BY <2>1, <2>3, <3>1, <3>3 DEF Src!HashSource
      <3> QED BY <3>2, <3>3
    <2>4. CASE Src!ControlFails \/ Src!InputFails
      BY <2>1, <2>4 DEF Src!ControlFails, Src!InputFails, Src!SAtMain
    <2> QED BY <2>2, <2>3, <2>4
  <1>5. SourceType'
    <2>1. chan' \in Traffic'
      BY <1>1, <1>2, QuietTraffic DEF SourceInv, SourceType, Traffic
    <2>2. hashed' \in Seq(Byte)
      BY <1>1 DEF SourceInv, SourceType
    <2>3. shdr' = Announce(shdr.size, shdr.sum)'
      BY <1>1, <1>4 DEF Announce
    <2> QED BY <1>1, <1>4, <2>1, <2>2, <2>3 DEF SourceInv, SourceType
  <1>6. SentInv'
    BY <1>1, <1>2, <1>3 DEF SentInv
  <1>7. AnnouncedInv'
    BY <1>1, <1>3, <1>4 DEF SourceInv, AnnouncedInv
  <1>8. SenderInv'
    BY <1>3 DEF SenderInv
  <1> QED BY <1>5, <1>6, <1>7, <1>8 DEF SourceInv

LEMMA HeaderGoes ==
    ASSUME SourceInv, SourceMain, Src!SendControl
    PROVE  SourceInv' /\ ~Sent /\ Sent'
  <1>1. /\ UNCHANGED <<src, from, salive, shdr, sjoined, wire, edits, hashed>>
        /\ smain = "header" /\ smain' = "join" /\ (from > 0 => SendCheck)
        /\ chan' = [chan EXCEPT ![0] = Append(chan[0], shdr)]
        /\ sth' = [i \in Streams |-> "check"]
        /\ soff' = [i \in Streams |-> Src!SStart(i)]
    BY DEF SourceMain, Src!SendControl, Src!SAtMain, Streams
  <1>2. ~Sent /\ Sent'
    BY <1>1, FirstStream DEF SourceInv, SentInv, Sent
  <1>3. from <= shdr.size
    BY <1>1 DEF SourceInv, AnnouncedInv
  <1>4. ASSUME NEW i \in Streams
        PROVE  /\ Src!SStart(i) \in Nat /\ Src!SEnd(i) \in Nat
               /\ Src!SStart(i) <= Src!SEnd(i) /\ soff'[i] = Src!SStart(i)
               /\ Src!SStart(i)' = Src!SStart(i) /\ Src!SEnd(i)' = Src!SEnd(i)
    <2>1. Src!SStart(i)' = Src!SStart(i) /\ Src!SEnd(i)' = Src!SEnd(i)
      BY <1>1 DEF Src!SStart, Src!SEnd
    <2> QED BY <1>1, <1>3, <2>1, SenderRanges DEF SourceInv
  <1>5. SourceType'
    <2>1. chan' \in Traffic'
      <3>1. chan[0] \in Seq(Seq(Byte) \cup {shdr})
        BY FirstStream DEF SourceInv, SourceType, Traffic
      <3>2. Append(chan[0], shdr) \in Seq(Seq(Byte) \cup {shdr})
        BY <3>1, AppendProperties
      <3> QED BY <1>1, <3>2 DEF SourceInv, SourceType, Traffic
    <2>2. soff' \in [Streams -> Nat]
      BY <1>1, <1>4
    <2>3. shdr' = Announce(shdr.size, shdr.sum)'
      BY <1>1 DEF SourceInv, SourceType, Announce
    <2> QED BY <1>1, <2>1, <2>2, <2>3 DEF SourceInv, SourceType
  <1>6. SentInv'
    BY <1>1, <1>2 DEF SentInv
  <1>7. AnnouncedInv'
    BY <1>1 DEF SourceInv, AnnouncedInv
  <1>8. SenderInv'
    BY <1>1, <1>4 DEF SenderInv
  <1> QED BY <1>2, <1>5, <1>6, <1>7, <1>8 DEF SourceInv

\* The senders are joined; the first failure is that of the command.
LEMMA SendersJoined ==
    ASSUME SourceInv, SourceMain, Src!SJoinOk \/ Src!SJoinErr \/ Src!SJoinedAll
    PROVE  SourceInv'
  <1>1. /\ UNCHANGED <<src, from, salive, shdr, sth, soff, chan, wire, edits, hashed>>
        /\ smain = "join" /\ smain' \in {"join", "ok", "err"}
        /\ sjoined' = sjoined \/ (sjoined' = sjoined + 1 /\ sjoined < N)
        /\ smain' = "err" => sjoined < N /\ sth[sjoined] = "err"
    BY DEF SourceMain, Src!SJoinOk, Src!SJoinErr, Src!SJoinedAll, Src!SAtMain
  <1>2. Sent
    BY <1>1 DEF SourceInv, SentInv
  <1>3. SourceType'
    <2>1. sjoined' \in 0..N
      BY <1>1, FirstStream DEF SourceInv, SourceType
    <2> QED BY <1>1, <2>1 DEF SourceInv, SourceType, Traffic, Announce
  <1>4. SentInv'
    BY <1>1, <1>2 DEF SourceInv, SentInv, Sent
  <1>5. AnnouncedInv'
    BY <1>1, <1>2 DEF SourceInv, AnnouncedInv, Sent
  <1>6. SenderInv'
    <2>1. smain' = "err" => \E i \in Streams : sth[i] = "err"
      BY <1>1, FirstStream DEF SourceInv, SourceType, Streams
    <2> QED BY <1>1, <1>2, <2>1 DEF SourceInv, SenderInv, Sent, Src!SStart, Src!SEnd
  <1> QED BY <1>3, <1>4, <1>5, <1>6 DEF SourceInv

\* A step of sender i to pc, its next offset o.
LEMMA SenderMoves ==
    ASSUME SourceInv, NEW i \in Streams, NEW pc \in {"check", "write", "ok", "err"}, NEW o \in Nat,
           Sent, sth[i] \in {"check", "write"}, chan' \in Traffic,
           UNCHANGED <<src, from, salive, smain, shdr, sjoined, wire, edits, hashed>>,
           sth' = [sth EXCEPT ![i] = pc], soff' \in [Streams -> Nat],
           soff'[i] = o, \A j \in Streams : j # i => soff'[j] = soff[j],
           Src!SStart(i) <= o, o <= Src!SEnd(i),
           pc = "ok" => o = Src!SEnd(i),
           pc \in {"write", "err"} => o < Src!SEnd(i)
    PROVE  SourceInv'
  <1>1. /\ sth \in [Streams -> {"idle", "check", "write", "ok", "err"}]
        /\ \A j \in Streams : sth'[j] = IF j = i THEN pc ELSE sth[j]
    BY DEF SourceInv, SourceType
  <1>2. Sent' /\ \A j \in Streams : sth'[j] # "idle"
    BY <1>1, FirstStream DEF SourceInv, SentInv, Sent
  <1>3. SourceType'
    <2>1. sth' \in [Streams -> {"idle", "check", "write", "ok", "err"}]
      BY <1>1
    <2> QED BY <2>1 DEF SourceInv, SourceType, Traffic, Announce
  <1>4. SentInv'
    BY <1>2 DEF SourceInv, SentInv
  <1>5. AnnouncedInv'
    BY <1>2 DEF SourceInv, AnnouncedInv
  <1>6. SenderInv'
    <2>1. \A j \in Streams : Src!SStart(j)' = Src!SStart(j) /\ Src!SEnd(j)' = Src!SEnd(j)
      BY DEF Src!SStart, Src!SEnd
    <2>2. \A j \in Streams : /\ Src!SStart(j) <= soff'[j] /\ soff'[j] <= Src!SEnd(j)
                             /\ sth'[j] = "ok" => soff'[j] = Src!SEnd(j)
                             /\ sth'[j] \in {"write", "err"} => soff'[j] < Src!SEnd(j)
      BY <1>1 DEF SourceInv, SenderInv
    <2>3. (\E j \in Streams : sth[j] = "err") => \E j \in Streams : sth'[j] = "err"
      BY <1>1
    <2> QED BY <2>1, <2>2, <2>3 DEF SourceInv, SenderInv
  <1> QED BY <1>3, <1>4, <1>5, <1>6 DEF SourceInv

\* What a sender reads: the bytes of the file at its offset, at least one of its range.
LEMMA FrameRead ==
    ASSUME SourceInv, NEW i \in Streams, Src!SendFrame(i)
    PROVE  LET d == SubSeq(src, soff[i] + 1, soff[i] + Src!Want(i))
           IN  /\ Sent /\ sth[i] = "write" /\ chan' = [chan EXCEPT ![i] = Append(chan[i], d)]
               /\ d \in Seq(Byte) /\ Len(d) \in Nat /\ Copy(src, soff[i], d)
               /\ soff'[i] = soff[i] + Len(d) /\ soff[i] + Len(d) <= Src!SEnd(i)
  <1> DEFINE w == Src!Want(i)
             d == SubSeq(src, soff[i] + 1, soff[i] + w)
  <1>1. /\ sth[i] = "write" /\ soff[i] + w <= Len(src)
        /\ chan' = [chan EXCEPT ![i] = Append(chan[i], d)]
        /\ soff' = [soff EXCEPT ![i] = soff[i] + w]
    BY DEF Src!SendFrame, Src!SAtThread
  <1>2. Sent
    BY <1>1 DEF SourceInv, SentInv
  <1>3. /\ soff \in [Streams -> Nat] /\ soff[i] \in Nat /\ Src!SEnd(i) \in Nat
        /\ soff[i] < Src!SEnd(i) /\ Chunk \in Nat \ {0}
    BY <1>1, <1>2, SenderRanges, SinkAssumption
       DEF SourceInv, SourceType, SenderInv, AnnouncedInv
  <1>4. w \in Nat /\ soff[i] + w <= Src!SEnd(i)
    BY <1>3 DEF Src!Want, Src!SLeft
  <1> HIDE DEF w
  <1>5. src \in Seq(Byte) /\ Len(src) \in Nat /\ \A k \in 1..Len(src) : src[k] \in Byte
    BY DEF SourceInv, SourceType
  <1>6. \A k \in (soff[i] + 1)..(soff[i] + w) : src[k] \in Byte
    BY <1>1, <1>3, <1>4, <1>5
  <1>7. d \in Seq(Byte) /\ Len(d) = w /\ \A k \in 1..w : d[k] = src[soff[i] + k]
    <2>1. /\ d \in Seq(Byte)
          /\ Len(d) = IF soff[i] + 1 <= soff[i] + w THEN (soff[i] + w) - (soff[i] + 1) + 1 ELSE 0
          /\ \A k \in 1..((soff[i] + w) - (soff[i] + 1) + 1) : d[k] = src[(soff[i] + 1) + k - 1]
      BY <1>3, <1>4, <1>6, SubSeqProperties
    <2> HIDE DEF d
    <2>2. (soff[i] + w) - (soff[i] + 1) + 1 = w /\ \A k \in 1..w : (soff[i] + 1) + k - 1 = soff[i] + k
      BY <1>3, <1>4
    <2>3. Len(d) = w
      BY <1>3, <1>4, <2>1
    <2> QED BY <2>1, <2>2, <2>3
  <1>8. soff'[i] = soff[i] + Len(d)
    BY <1>1, <1>3, <1>7
  <1> HIDE DEF d
  <1>9. Copy(src, soff[i], d)
    BY <1>7 DEF Copy
  <1> QED BY <1>1, <1>2, <1>4, <1>7, <1>8, <1>9 DEF d, w

LEMMA SenderStep ==
    ASSUME SourceInv, NEW i \in Streams, SourceSender(i)
    PROVE  SourceInv' /\ Sent
  <1>1. UNCHANGED <<src, from, salive, smain, shdr, sjoined, wire, edits, hashed>>
    BY DEF SourceSender, net, Src!SendDone, Src!SendAborted, Src!SendNext, Src!SendFrame, Src!SendFails
  <1>2. sth[i] \in {"check", "write"} /\ Sent
    <2>1. sth[i] \in {"check", "write"}
      BY DEF SourceSender, Src!SendDone, Src!SendAborted, Src!SendNext, Src!SendFrame,
             Src!SendFails, Src!SAtThread
    <2> QED BY <2>1 DEF SourceInv, SentInv
  <1>3. /\ soff \in [Streams -> Nat] /\ soff[i] \in Nat /\ Src!SEnd(i) \in Nat
        /\ Src!SStart(i) \in Nat /\ Src!SStart(i) <= soff[i] /\ soff[i] <= Src!SEnd(i)
        /\ sth[i] = "write" => soff[i] < Src!SEnd(i)
        /\ chan \in Traffic
    BY <1>2, SenderRanges DEF SourceInv, SourceType, SenderInv, AnnouncedInv
  <1>4. CASE Src!SendDone(i) \/ Src!SendAborted(i) \/ Src!SendNext(i) \/ Src!SendFails(i)
    <2>1. PICK pc \in {"write", "ok", "err"} :
             /\ sth' = [sth EXCEPT ![i] = pc] /\ UNCHANGED <<soff, chan>>
             /\ pc = "ok" => Src!SLeft(i) = 0
             /\ pc \in {"write", "err"} => sth[i] = "write" \/ Src!SLeft(i) > 0
      BY <1>4 DEF Src!SendDone, Src!SendAborted, Src!SendNext, Src!SendFails, Src!SAtThread
    <2>2. /\ pc = "ok" => soff[i] = Src!SEnd(i)
          /\ pc \in {"write", "err"} => soff[i] < Src!SEnd(i)
      BY <1>3, <2>1 DEF Src!SLeft
    <2> QED BY <1>1, <1>2, <1>3, <2>1, <2>2, SenderMoves
  <1>5. CASE Src!SendFrame(i)
    <2> DEFINE d == SubSeq(src, soff[i] + 1, soff[i] + Src!Want(i))
    <2>1. /\ chan' = [chan EXCEPT ![i] = Append(chan[i], d)]
          /\ d \in Seq(Byte) /\ Len(d) \in Nat
          /\ soff'[i] = soff[i] + Len(d) /\ soff[i] + Len(d) <= Src!SEnd(i)
      BY <1>5, FrameRead
    <2> HIDE DEF d
    <2>2. sth' = [sth EXCEPT ![i] = "check"]
          /\ soff' = [soff EXCEPT ![i] = soff[i] + Src!Want(i)]
      BY <1>5 DEF Src!SendFrame
    <2>3. soff' \in [Streams -> Nat] /\ \A j \in Streams : j # i => soff'[j] = soff[j]
      BY <1>3, <2>1, <2>2
    <2>4. chan' \in Traffic
      <3>1. chan[i] \in Seq(Seq(Byte) \cup {shdr})
        BY <1>3 DEF Traffic
      <3>2. Append(chan[i], d) \in Seq(Seq(Byte) \cup {shdr})
        BY <2>1, <3>1, AppendProperties
      <3> QED BY <1>3, <2>1, <3>2 DEF Traffic
    <2>5. Src!SStart(i) <= soff[i] + Len(d) /\ soff[i] + Len(d) \in Nat
      BY <1>3, <2>1
    <2> QED BY <1>1, <1>2, <2>1, <2>2, <2>3, <2>4, <2>5, SenderMoves
  <1> QED BY <1>2, <1>4, <1>5 DEF SourceSender


----------------------------------------------------------------------------
\* The streams.

\* The sink has the source's header, or none.
AcceptedInv ==
    /\ hdr = NoHeader \/ (Sent /\ hdr = shdr)
    /\ hdr = NoHeader => main \in {"control", "err"} /\ \A i \in Streams : th[i] = "idle"
    /\ main = "control" /\ chan[0] # <<>> => Head(chan[0]) = shdr
    /\ main = "control" /\ Sent /\ 0 \in wire => chan[0] # <<>>

\* The frames in flight: on stream 0 they follow the header.
Data(i) ==
    IF i = 0 /\ main = "control" THEN IF chan[0] = <<>> THEN <<>> ELSE Tail(chan[0])
    ELSE chan[i]

\* Receiver i reads them, or is still going to.
Reading(i) == Sent /\ th[i] # "err" /\ (main = "control" \/ hdr # NoHeader)
Base(i) == IF th[i] = "idle" THEN Src!SStart(i) ELSE off[i]

\* They lead from the receiver's offset to the sender's, or less far on a stream
\* that was cut.
Carries(i, p) ==
    /\ Path(edits, src, Data(i), Base(i), soff[i], p)
    /\ i \in wire => Reaches(Data(i), p, soff[i])

StreamInv == \A i \in Streams : Reading(i) => \E p : Carries(i, p)

LinkInv == AcceptedInv /\ StreamInv
SInv == IInv /\ SourceInv /\ LinkInv

\* The shapes of what is in flight.
LEMMA Shapes ==
    ASSUME SInv, NEW i \in Streams
    PROVE  /\ chan[i] \in Seq(Seq(Byte) \cup {shdr})
           /\ Data(i) \in Seq(Seq(Byte) \cup {shdr})
           /\ soff[i] \in Nat /\ off[i] \in Nat
           /\ Sent => Base(i) \in Nat
  <1>1. chan[i] \in Seq(Seq(Byte) \cup {shdr})
    BY DEF SInv, SourceInv, SourceType, Traffic
  <1>2. Data(i) \in Seq(Seq(Byte) \cup {shdr})
    BY <1>1, EmptySeq, HeadTailProperties DEF Data
  <1>3. soff[i] \in Nat /\ off[i] \in Nat
    BY Basics DEF SInv, IInv, SourceInv, SourceType
  <1>4. Sent => Src!SStart(i) \in Nat
    BY SenderRanges DEF SInv, SourceInv, AnnouncedInv
  <1> QED BY <1>1, <1>2, <1>3, <1>4 DEF Base

\* Both sides split the same file in the same way.
LEMMA SameRanges ==
    ASSUME SourceType, hdr = shdr, NEW i
    PROVE  Start(i) = Src!SStart(i) /\ End(i) = Src!SEnd(i)
  <1>1. hdr.resume = from /\ hdr.size = shdr.size
    BY DEF SourceType, Announce
  <1> QED BY <1>1 DEF Start, End, Src!SStart, Src!SEnd, Src!RangeStart, Src!RangeEnd,
                      RangeStart, RangeEnd

LEMMA HeaderShape ==
    ASSUME SourceType
    PROVE  /\ HeaderType(shdr) /\ shdr # NoHeader
           /\ shdr.check = SendCheck /\ shdr.resume = from /\ shdr.n = N
  <1>1. shdr.magic = TRUE /\ shdr.n = N /\ shdr.resume = from /\ shdr.check = SendCheck
        /\ shdr.crypt = SendCrypt /\ shdr.opens = TRUE /\ shdr.preserve = Preserve
    BY DEF SourceType, Announce
  <1>2. N \in Nat /\ SendCheck \in BOOLEAN /\ SendCrypt \in BOOLEAN /\ Preserve \in BOOLEAN
        /\ shdr.size \in Nat /\ from \in Nat
    BY FirstStream, SessionAssumption DEF SourceType
  <1>3. shdr # NoHeader
    BY <1>1 DEF NoHeader
  <1> QED BY <1>1, <1>2, <1>3 DEF HeaderType

\* A stream on which nothing happens.
LEMMA StreamKept ==
    ASSUME SInv, NEW i \in Streams, Reading(i)' => Reading(i),
           Data(i)' = Data(i), Base(i)' = Base(i), soff'[i] = soff[i],
           edits' = 0 => edits = 0 /\ src' = src, i \in wire' => i \in wire
    PROVE  Reading(i)' => \E p : Carries(i, p)'
  <1> SUFFICES ASSUME Reading(i) PROVE \E p : Carries(i, p)'
    OBVIOUS
  <1>1. PICK p : Carries(i, p)
    BY DEF SInv, LinkInv, StreamInv
  <1>2. Path(edits', src', Data(i)', Base(i)', soff'[i], p)
    BY <1>1, PathForget DEF Carries
  <1>3. Path(edits, src, Data(i), Base(i), soff[i], p)'
    BY <1>2 DEF Path, Copy
  <1>4. i \in wire' => Reaches(Data(i)', p, soff'[i])
    BY <1>1 DEF Carries
  <1>5. Carries(i, p)'
    BY <1>3, <1>4 DEF Carries
  <1> QED BY <1>5

\* The frame at the head of a stream is the file's, at the receiver's offset.
LEMMA FrameAtHead ==
    ASSUME SInv, NEW i \in Streams, th[i] = "read", chan[i] # <<>>
    PROVE  LET d == Head(chan[i])
           IN  /\ Reading(i) /\ Data(i) = chan[i] /\ Base(i) = off[i]
               /\ d \in Seq(Byte)
               /\ edits = 0 => Copy(src, off[i], d)
               /\ \E q : /\ Path(edits, src, Tail(chan[i]), off[i] + Len(d), soff[i], q)
                         /\ i \in wire => Reaches(Tail(chan[i]), q, soff[i])
  <1>1. hdr # NoHeader /\ Sent
    BY DEF SInv, LinkInv, AcceptedInv
  <1>2. main # "control"
    BY DEF SInv, IInv, RangeInv, Starting
  <1>3. Reading(i) /\ Data(i) = chan[i] /\ Base(i) = off[i]
    BY <1>1, <1>2 DEF Reading, Data, Base
  <1>4. PICK p : Carries(i, p)
    BY <1>3 DEF SInv, LinkInv, StreamInv
  <1>5. Path(edits, src, chan[i], off[i], soff[i], p)
        /\ (i \in wire => Reaches(chan[i], p, soff[i]))
    BY <1>3, <1>4 DEF Carries
  <1>6. chan[i] \in Seq(Seq(Byte) \cup {shdr}) /\ off[i] \in Nat
    BY Shapes DEF SInv, IInv, SinkType
  <1> DEFINE d == Head(chan[i])
  <1>7. /\ d \in Seq(Byte)
        /\ edits = 0 => Copy(src, off[i], d)
        /\ \E q : /\ Path(edits, src, Tail(chan[i]), off[i] + Len(d), soff[i], q)
                  /\ q[Len(Tail(chan[i]))] = p[Len(chan[i])]
    BY <1>5, <1>6, PathTail
  <1> QED BY <1>3, <1>5, <1>7 DEF Reaches

----------------------------------------------------------------------------
\* The sink's steps in a session.

SinkSame == UNCHANGED <<dest, temp, fd, alive, main, hdr, th, off, abort, joined, got, attempt>>
SourceSame == UNCHANGED <<src, from, salive, smain, shdr, sth, soff, sabort, sjoined, wire, edits, hashed>>

\* The first frame of a stream is taken, or none.
LEMMA SourceConsumed ==
    ASSUME SInv, SourceSame,
           UNCHANGED chan \/ \E i \in Streams : chan[i] # <<>> /\ Consume(i)
    PROVE  SourceInv'
  <1>1. CASE UNCHANGED chan
    BY <1>1, SourceKept DEF SourceSame, SInv, SourceInv, SourceType, SentInv
  <1>2. ASSUME NEW i \in Streams, chan[i] # <<>>, Consume(i)
        PROVE  SourceInv'
    <2>1. chan' = [chan EXCEPT ![i] = Tail(chan[i])] /\ Sent
      BY <1>2 DEF Consume, SInv, SourceInv, SentInv
    <2>2. Tail(chan[i]) \in Seq(Seq(Byte) \cup {shdr})
      BY <1>2, Shapes, HeadTailProperties
    <2>3. chan' \in Traffic
      BY <2>1, <2>2 DEF SInv, SourceInv, SourceType, Traffic
    <2> QED BY <2>1, <2>3, SourceKept DEF SourceSame, SInv, SourceInv, SourceType
  <1> QED BY <1>1, <1>2

\* The header at the head of stream 0 is the source's.
LEMMA ControlLinks ==
    ASSUME SInv, SinkControl
    PROVE  Fed /\ SourceInv' /\ LinkInv'
  <1>1. /\ SourceSame
        /\ \/ chan[0] # <<>> /\ Consume(0) /\ (ReadControl(Head(chan[0])) \/ Refuse(Head(chan[0])))
           \/ ControlLost /\ UNCHANGED chan
    BY DEF SinkControl, SourceSame, net, SameSource
  <1>2. SourceInv'
    BY <1>1, SourceConsumed, FirstStream
  <1>3. main = "control" /\ UNCHANGED <<th, off>>
    BY <1>1 DEF ReadControl, Refuse, ControlLost, AtMain, Goto, threads
  <1>4. hdr = NoHeader /\ \A i \in Streams : th[i] = "idle"
    BY <1>3 DEF SInv, IInv, HeaderInv, RangeInv, Starting
  <1>5. ASSUME hdr' = NoHeader, main' = "err"
        PROVE  LinkInv'
    <2>1. AcceptedInv'
      BY <1>3, <1>4, <1>5 DEF AcceptedInv
    <2>2. \A i \in Streams : ~Reading(i)'
      BY <1>5 DEF Reading
    <2> QED BY <2>1, <2>2 DEF LinkInv, StreamInv
  <1>6. CASE ControlLost /\ UNCHANGED chan
    <2>1. hdr' = NoHeader /\ main' = "err"
      BY <1>4, <1>6 DEF ControlLost, Goto
    <2> QED BY <1>2, <1>5, <1>6, <2>1 DEF Fed
  <1>7. CASE chan[0] # <<>> /\ Consume(0) /\ (ReadControl(Head(chan[0])) \/ Refuse(Head(chan[0])))
    <2>1. Head(chan[0]) = shdr /\ HeaderType(shdr) /\ shdr # NoHeader
      BY <1>3, <1>7, HeaderShape DEF SInv, SourceInv, LinkInv, AcceptedInv
    <2>2. Fed
      BY <1>7, <2>1 DEF Fed
    <2>3. CASE Refuse(shdr)
      <3>1. hdr' = NoHeader /\ main' = "err"
        BY <1>4, <2>3 DEF Refuse, Goto
      <3> QED BY <1>2, <1>5, <2>2, <3>1
    <2>4. CASE ReadControl(shdr)
      <3>1. hdr' = shdr /\ main' = "open" /\ shdr' = shdr /\ chan' = [chan EXCEPT ![0] = Tail(chan[0])]
        BY <1>1, <1>7, <2>4 DEF ReadControl, SourceSame, Consume
      <3>2. Sent /\ Sent'
        BY <1>1, <1>7, FirstStream DEF SInv, SourceInv, SentInv, SourceSame, Sent
      <3>3. AcceptedInv'
        BY <2>1, <3>1, <3>2 DEF AcceptedInv
      <3>4. ASSUME NEW i \in Streams
            PROVE  Reading(i)' => \E p : Carries(i, p)'
        <4>1. Reading(i)
          BY <1>3, <1>4, <3>2 DEF Reading
        <4>2. Data(i)' = Data(i)
          BY <1>3, <1>7, <3>1 DEF Data, SInv, SourceInv, SourceType, Traffic
        <4>3. Base(i)' = Base(i)
          BY <1>1, <1>3, <1>4 DEF Base, SourceSame, Src!SStart
        <4> QED BY <1>1, <4>1, <4>2, <4>3, StreamKept DEF SourceSame
      <3> QED BY <1>2, <2>2, <3>3, <3>4 DEF LinkInv, StreamInv
    <2> QED BY <1>7, <2>1, <2>3, <2>4
  <1> QED BY <1>1, <1>6, <1>7

\* Once the header is accepted the main thread leaves header and streams alone;
\* it starts each receiver at the sender's own offset.
LEMMA LocalForm ==
    ASSUME SInv, Prepare \/ Joining \/ Finish
    PROVE  /\ hdr' = hdr /\ hdr # NoHeader /\ main # "control" /\ main' # "control"
           /\ \A i \in Streams :
                 \/ th'[i] = th[i] /\ off'[i] = off[i]
                 \/ th[i] = "idle" /\ th'[i] = "check" /\ off'[i] = Start(i)
  <1> USE DEF AtMain, Goto, threads
  <1>1. hdr' = hdr /\ main \in MainStates \ {"control", "err", "ok"} /\ main' # "control"
    BY DEF Prepare, OpenWork, DropTail, Extend, SetupFails, Joining, JoinOk, JoinErr, JoinedAll,
           Finish, Verify, ApplyPreserve, Rename, FinishFails, Cleanup, CleanupFails, MainStates
  <1>2. hdr # NoHeader /\ main # "control"
    BY <1>1 DEF SInv, LinkInv, AcceptedInv
  <1>3. CASE Extend
    <2>1. \A i \in Streams : th[i] = "idle"
      BY <1>3 DEF Extend, SInv, IInv, RangeInv, Starting
    <2>2. th' = [i \in Streams |-> "check"] /\ off' = [i \in Streams |-> Start(i)]
      BY <1>3 DEF Extend
    <2> QED BY <1>1, <1>2, <2>1, <2>2
  <1>4. CASE ~Extend
    <2>1. UNCHANGED <<th, off>>
      BY <1>4 DEF Prepare, OpenWork, DropTail, SetupFails, Joining, JoinOk, JoinErr, JoinedAll,
             Finish, Verify, ApplyPreserve, Rename, FinishFails, Cleanup, CleanupFails
    <2> QED BY <1>1, <1>2, <2>1
  <1> QED BY <1>3, <1>4

LEMMA LocalLinks ==
    ASSUME SInv, SinkLocal
    PROVE  Fed /\ SourceInv' /\ LinkInv'
  <1>1. (Prepare \/ Joining \/ Finish) /\ SourceSame /\ UNCHANGED chan
    BY DEF SinkLocal, SourceSame, svars, net
  <1>2. Fed /\ SourceInv'
    BY <1>1, SourceConsumed DEF Fed
  <1>3. /\ hdr' = hdr /\ hdr # NoHeader /\ main # "control" /\ main' # "control"
        /\ \A i \in Streams :
              \/ th'[i] = th[i] /\ off'[i] = off[i]
              \/ th[i] = "idle" /\ th'[i] = "check" /\ off'[i] = Start(i)
    BY <1>1, LocalForm
  <1>4. hdr = shdr /\ Sent
    BY <1>3 DEF SInv, LinkInv, AcceptedInv
  <1>5. Sent' /\ shdr' = shdr
    BY <1>1, <1>4 DEF SourceSame, Sent
  <1>6. AcceptedInv'
    BY <1>3, <1>4, <1>5 DEF AcceptedInv
  <1>7. ASSUME NEW i \in Streams
        PROVE  Reading(i)' => \E p : Carries(i, p)'
    <2>1. Reading(i)' => Reading(i)
      BY <1>3, <1>4 DEF Reading
    <2>2. Data(i)' = Data(i)
      BY <1>1, <1>3 DEF Data
    <2>3. Base(i)' = Base(i)
      <3>1. Start(i) = Src!SStart(i)
        BY <1>4, SameRanges DEF SInv, SourceInv
      <3>2. Src!SStart(i)' = Src!SStart(i)
        BY <1>1 DEF SourceSame, Src!SStart
      <3> QED BY <1>3, <3>1, <3>2 DEF Base
    <2> QED BY <1>1, <2>1, <2>2, <2>3, StreamKept DEF SourceSame
  <1> QED BY <1>2, <1>6, <1>7 DEF LinkInv, StreamInv

\* A receiver takes the frame that is the file's at its offset, or fails.
LEMMA ReceiverLinks ==
    ASSUME SInv, NEW i \in Streams, SinkReceiver(i)
    PROVE  Fed /\ SourceInv' /\ LinkInv'
  <1>1. /\ SourceSame
        /\ \/ (RecvDone(i) \/ RecvAborted(i) \/ RecvCheck(i) \/ RecvFails(i)) /\ UNCHANGED chan
           \/ Receive(i)
    BY DEF SinkReceiver, SourceSame, net, SameSource
  <1>2. th[i] \in {"check", "read"}
    BY <1>1 DEF RecvDone, RecvAborted, RecvCheck, RecvFails, Receive, AtThread
  <1>3. hdr # NoHeader /\ hdr = shdr /\ Sent /\ main # "control"
    BY <1>2 DEF SInv, LinkInv, AcceptedInv, IInv, RangeInv, Starting
  <1>4. main' = main /\ hdr' = hdr
    BY <1>1 DEF RecvDone, RecvAborted, RecvCheck, RecvFails, ThreadGoto, Receive, RecvFrame,
                RecvShortWrite
  <1>5. AcceptedInv' /\ Sent'
    BY <1>1, <1>3, <1>4 DEF SourceSame, AcceptedInv, Sent
  <1>6. SourceInv'
    BY <1>1, SourceConsumed DEF Receive
  <1>7. th \in [Streams -> ThreadStates] /\ off \in [Streams -> Nat] /\ off[i] \in Nat
        /\ chan \in Traffic
    BY DEF SInv, IInv, SinkType, SourceInv, SourceType
  <1>8. ASSUME NEW j \in Streams, th'[j] = th[j] \/ (th[j] # "idle" /\ th'[j] # "idle" /\ th[j] # "err"),
               off'[j] = off[j], chan'[j] = chan[j]
        PROVE  Reading(j)' => \E p : Carries(j, p)'
    <2>1. Reading(j)' => Reading(j)
      BY <1>3, <1>8 DEF Reading
    <2>2. Data(j)' = Data(j)
      BY <1>3, <1>4, <1>8 DEF Data
    <2>3. Base(j)' = Base(j)
      <3>1. Src!SStart(j)' = Src!SStart(j)
        BY <1>1 DEF SourceSame, Src!SStart
      <3> QED BY <1>8, <3>1 DEF Base
    <2> QED BY <1>1, <2>1, <2>2, <2>3, StreamKept DEF SourceSame
  <1>9. CASE (RecvDone(i) \/ RecvAborted(i) \/ RecvCheck(i) \/ RecvFails(i)) /\ UNCHANGED chan
    <2>1. PICK pc \in {"ok", "err", "read"} : th' = [th EXCEPT ![i] = pc] /\ off' = off
      BY <1>9 DEF RecvDone, RecvAborted, RecvCheck, RecvFails, ThreadGoto
    <2>2. \A j \in Streams : th'[j] = th[j] \/ (th[j] # "idle" /\ th'[j] # "idle" /\ th[j] # "err")
      BY <1>2, <1>7, <2>1
    <2>3. StreamInv'
      BY <1>8, <1>9, <2>1, <2>2 DEF StreamInv
    <2>4. Fed
      BY <1>9 DEF Fed, RecvAny
    <2> QED BY <1>5, <1>6, <2>3, <2>4 DEF LinkInv
  <1>10. CASE Receive(i)
    <2> DEFINE d == Head(chan[i])
    <2>1. /\ th[i] = "read" /\ chan[i] # <<>> /\ chan' = [chan EXCEPT ![i] = Tail(chan[i])]
          /\ RecvFrame(i, d) \/ \E k \in 0..(Len(d) - 1) : RecvShortWrite(i, d, k)
      BY <1>10 DEF Receive, Consume
    <2>2. /\ d \in Seq(Byte)
          /\ \E q : /\ Path(edits, src, Tail(chan[i]), off[i] + Len(d), soff[i], q)
                    /\ i \in wire => Reaches(Tail(chan[i]), q, soff[i])
      BY <2>1, FrameAtHead
    <2> HIDE DEF d
    <2>3. Fed
      BY <2>1, <2>2 DEF Fed, RecvAny
    <2>4. chan'[i] = Tail(chan[i]) /\ \A j \in Streams : j # i => chan'[j] = chan[j]
      BY <1>7, <2>1 DEF Traffic
    <2>5. CASE RecvFrame(i, d)
      <3>1. th' = [th EXCEPT ![i] = "check"] /\ off' = [off EXCEPT ![i] = off[i] + Len(d)]
        BY <2>5 DEF RecvFrame
      <3>2. /\ th'[i] = "check" /\ off'[i] = off[i] + Len(d)
            /\ \A j \in Streams : j # i => th'[j] = th[j] /\ off'[j] = off[j]
        BY <1>7, <3>1
      <3>3. Data(i)' = Tail(chan[i]) /\ Base(i)' = off[i] + Len(d)
        BY <1>3, <1>4, <2>4, <3>2 DEF Data, Base
      <3>4. PICK q : /\ Path(edits, src, Tail(chan[i]), off[i] + Len(d), soff[i], q)
                     /\ i \in wire => Reaches(Tail(chan[i]), q, soff[i])
        BY <2>2
      <3>5. Carries(i, q)'
        BY <1>1, <3>3, <3>4 DEF SourceSame, Carries, Path, Copy
      <3>6. \A j \in Streams : Reading(j)' => \E p : Carries(j, p)'
        BY <1>8, <2>4, <3>2, <3>5
      <3> QED BY <1>5, <1>6, <2>3, <3>6 DEF LinkInv, StreamInv
    <2>6. CASE \E k \in 0..(Len(d) - 1) : RecvShortWrite(i, d, k)
      <3>1. th' = [th EXCEPT ![i] = "err"] /\ off' = off
        BY <2>6 DEF RecvShortWrite
      <3>2. th'[i] = "err" /\ \A j \in Streams : j # i => th'[j] = th[j]
        BY <1>7, <3>1
      <3>3. ~Reading(i)'
        BY <3>2 DEF Reading
      <3>4. \A j \in Streams : Reading(j)' => \E p : Carries(j, p)'
        BY <1>8, <2>4, <3>1, <3>2, <3>3
      <3> QED BY <1>5, <1>6, <2>3, <3>4 DEF LinkInv, StreamInv
    <2> QED BY <2>1, <2>5, <2>6
  <1> QED BY <1>1, <1>9, <1>10

\* Steps that change nothing the links speak of.
LEMMA LinksKept ==
    ASSUME SInv, UNCHANGED <<main, hdr, th, off, from, shdr, sth, soff, chan, src, edits>>, wire' \subseteq wire
    PROVE  LinkInv'
  <1>1. AcceptedInv'
    BY DEF SInv, LinkInv, AcceptedInv, Sent
  <1>2. ASSUME NEW i \in Streams
        PROVE  Reading(i)' => \E p : Carries(i, p)'
    <2>1. (Reading(i)' => Reading(i)) /\ Data(i)' = Data(i) /\ Base(i)' = Base(i)
      BY DEF Reading, Data, Base, Sent, Src!SStart
    <2> QED BY <2>1, StreamKept
  <1> QED BY <1>1, <1>2 DEF LinkInv, StreamInv

LEMMA EndLinks ==
    ASSUME SInv, SinkEnds
    PROVE  Fed /\ SourceInv' /\ LinkInv'
  <1>1. /\ Exit \/ Crash
        /\ SourceSame /\ UNCHANGED chan
        /\ UNCHANGED <<main, hdr, th, off>>
    BY DEF SinkEnds, Exit, Crash, threads, SourceSame, svars, net
  <1> QED BY <1>1, SourceConsumed, LinksKept DEF Fed, SourceSame

----------------------------------------------------------------------------
\* The source's steps in a session.

LEMMA SinkSameKeeps == ASSUME IInv, UNCHANGED vars PROVE [Fed]_vars /\ IInv'
  BY IInvStep

\* The header leaves, and each sender is where its receiver will start.
LEMMA HeaderLinks ==
    ASSUME SInv, SourceMain, Src!SendControl
    PROVE  LinkInv'
  <1>1. /\ UNCHANGED <<main, hdr, th, off, from, shdr, src, wire, edits>>
        /\ chan' = [chan EXCEPT ![0] = Append(chan[0], shdr)]
        /\ soff' = [i \in Streams |-> Src!SStart(i)]
    BY DEF SourceMain, vars, Src!SendControl, Streams
  <1>2. ~Sent /\ Sent' /\ SourceInv'
    BY HeaderGoes DEF SInv
  <1>3. hdr = NoHeader /\ \A i \in Streams : th[i] = "idle" /\ chan[i] = <<>>
    BY <1>2 DEF SInv, LinkInv, AcceptedInv, SourceInv, SentInv
  <1>4. chan'[0] = Append(<<>>, shdr) /\ \A i \in Streams : i # 0 => chan'[i] = <<>>
    BY <1>1, <1>3, FirstStream DEF SInv, SourceInv, SourceType, Traffic
  <1>5. chan'[0] # <<>> /\ Head(chan'[0]) = shdr /\ Tail(chan'[0]) = <<>>
    BY <1>4
  <1>6. AcceptedInv'
    BY <1>1, <1>3, <1>5 DEF SInv, LinkInv, AcceptedInv
  <1>7. ASSUME NEW i \in Streams, Reading(i)'
        PROVE  \E p : Carries(i, p)'
    <2>1. main = "control"
      BY <1>1, <1>3, <1>7 DEF Reading
    <2>2. Data(i)' = <<>>
      BY <1>1, <1>4, <1>5, <2>1 DEF Data
    <2>3. Base(i)' = Src!SStart(i) /\ soff'[i] = Src!SStart(i) /\ Src!SStart(i) \in Nat
      <3>1. Src!SStart(i)' = Src!SStart(i)
        BY <1>1 DEF Src!SStart
      <3>2. soff'[i] \in Nat
        BY <1>2 DEF SourceInv, SourceType
      <3> QED BY <1>1, <1>3, <3>1, <3>2 DEF Base
    <2>4. PICK p : Path(edits, src, <<>>, Src!SStart(i), Src!SStart(i), p)
                   /\ p[Len(<<>>)] = Src!SStart(i)
      <3> DEFINE r == [k \in 0..0 |-> Src!SStart(i)]
      <3>1. Path(edits, src, <<>>, Src!SStart(i), Src!SStart(i), r) /\ r[Len(<<>>)] = Src!SStart(i)
        BY <2>3, PathEmpty
      <3> HIDE DEF r
      <3> QED BY <3>1
    <2>5. Carries(i, p)'
      BY <1>1, <2>2, <2>3, <2>4 DEF Carries, Path, Copy, Reaches
    <2> QED BY <2>5
  <1> QED BY <1>6, <1>7 DEF LinkInv, StreamInv

\* Before the header nothing is in flight and nothing is expected.
LEMMA SilentLinks ==
    ASSUME SInv, ~Sent, UNCHANGED <<main, hdr, th, sth, chan>>
    PROVE  LinkInv'
  <1>1. hdr = NoHeader /\ \A i \in Streams : th[i] = "idle" /\ chan[i] = <<>>
    BY DEF SInv, LinkInv, AcceptedInv, SourceInv, SentInv
  <1>2. ~Sent'
    BY DEF Sent
  <1>3. AcceptedInv'
    BY <1>1, <1>2, FirstStream DEF SInv, LinkInv, AcceptedInv
  <1>4. \A i \in Streams : ~Reading(i)'
    BY <1>2 DEF Reading
  <1> QED BY <1>3, <1>4 DEF LinkInv, StreamInv

LEMMA SourceMainLinks ==
    ASSUME SInv, SourceMain
    PROVE  SourceInv' /\ LinkInv'
  <1>1. UNCHANGED <<main, hdr, th, off, wire, edits>>
    BY DEF SourceMain, vars
  <1>2. CASE Src!OpenSource \/ Src!HashSource \/ Src!ControlFails \/ Src!InputFails
    <2>1. smain \in {"open", "hash", "header"} /\ UNCHANGED <<sth, chan>>
      BY <1>2 DEF Src!OpenSource, Src!HashSource, Src!ControlFails, Src!InputFails, Src!SAtMain
    <2>2. ~Sent
      BY <2>1 DEF SInv, SourceInv, SentInv
    <2> QED BY <1>1, <1>2, <2>1, <2>2, BeforeHeader, SilentLinks DEF SInv
  <1>3. CASE Src!SJoinOk \/ Src!SJoinErr \/ Src!SJoinedAll
    <2>1. UNCHANGED <<from, shdr, sth, soff, chan, src>>
      BY <1>3 DEF Src!SJoinOk, Src!SJoinErr, Src!SJoinedAll
    <2> QED BY <1>1, <1>3, <2>1, SendersJoined, LinksKept DEF SInv
  <1>4. CASE Src!SendControl
    BY <1>4, HeaderGoes, HeaderLinks DEF SInv
  <1> QED BY <1>2, <1>3, <1>4 DEF SourceMain, Src!SMain

\* A frame goes behind those in flight.
LEMMA SenderLinks ==
    ASSUME SInv, NEW i \in Streams, SourceSender(i)
    PROVE  SourceInv' /\ LinkInv'
  <1>1. UNCHANGED <<main, hdr, th, off, wire, edits, src, from, shdr>> /\ SourceInv' /\ Sent
    <2>1. UNCHANGED <<main, hdr, th, off, wire, edits, src, from, shdr>>
      BY DEF SourceSender, vars, net, Src!SendDone, Src!SendAborted, Src!SendNext,
             Src!SendFrame, Src!SendFails
    <2> QED BY <2>1, SenderStep DEF SInv
  <1>2. Sent'
    BY <1>1 DEF SInv, SourceInv, SentInv, Sent, SourceSender, Src!SendDone, Src!SendAborted,
                Src!SendNext, Src!SendFrame, Src!SendFails, SourceType
  <1>3. ASSUME NEW j \in Streams, soff'[j] = soff[j], Data(j)' = Data(j)
        PROVE  Reading(j)' => \E p : Carries(j, p)'
    <2>1. (Reading(j)' => Reading(j)) /\ Base(j)' = Base(j)
      BY <1>1 DEF Reading, Base, Src!SStart
    <2> QED BY <1>1, <1>3, <2>1, StreamKept
  <1>4. CASE Src!SendDone(i) \/ Src!SendAborted(i) \/ Src!SendNext(i) \/ Src!SendFails(i)
    <2>1. UNCHANGED <<soff, chan>>
      BY <1>4 DEF Src!SendDone, Src!SendAborted, Src!SendNext, Src!SendFails
    <2>2. AcceptedInv'
      BY <1>1, <1>2, <2>1 DEF SInv, LinkInv, AcceptedInv
    <2>3. StreamInv'
      BY <1>1, <1>3, <2>1 DEF StreamInv, Data
    <2> QED BY <1>1, <2>2, <2>3 DEF LinkInv
  <1>5. CASE Src!SendFrame(i) /\ i \in wire
    <2> DEFINE d == SubSeq(src, soff[i] + 1, soff[i] + Src!Want(i))
    <2>1. /\ chan' = [chan EXCEPT ![i] = Append(chan[i], d)]
          /\ d \in Seq(Byte) /\ Len(d) \in Nat /\ Copy(src, soff[i], d)
          /\ soff'[i] = soff[i] + Len(d)
      BY <1>5, FrameRead DEF SInv
    <2> HIDE DEF d
    <2>2. /\ chan'[i] = Append(chan[i], d) /\ \A j \in Streams : j # i => chan'[j] = chan[j]
          /\ \A j \in Streams : j # i => soff'[j] = soff[j]
      BY <1>5, <2>1 DEF SInv, SourceInv, SourceType, Traffic, Src!SendFrame
    <2>3. /\ chan[i] \in Seq(Seq(Byte) \cup {shdr}) /\ d \in Seq(Byte) \cup {shdr}
          /\ Data(i) \in Seq(Seq(Byte) \cup {shdr}) /\ soff[i] \in Nat
      BY <2>1, Shapes
    <2>4. i = 0 /\ main = "control" => chan[i] # <<>>
      BY <1>1, <1>5 DEF SInv, LinkInv, AcceptedInv
    <2>5. /\ Append(chan[i], d) # <<>>
          /\ Head(Append(chan[i], d)) = IF chan[i] = <<>> THEN d ELSE Head(chan[i])
          /\ Tail(Append(chan[i], d)) = IF chan[i] = <<>> THEN <<>> ELSE Append(Tail(chan[i]), d)
      <3> DEFINE S == Seq(Byte) \cup {shdr}
      <3>1. chan[i] \in Seq(S) /\ d \in S
        BY <2>3
      <3> HIDE DEF S
      <3>2. Append(chan[i], d) # <<>>
        BY <3>1, AppendProperties
      <3> QED BY <3>1, <3>2, HeadTailAppend, Zenon
    <2>6. Data(i)' = Append(Data(i), d)
      BY <1>1, <2>2, <2>4, <2>5 DEF Data
    <2>7. AcceptedInv'
      <3>1. main = "control" => chan'[0] = chan[0] \/ (chan'[0] # <<>> /\ Head(chan'[0]) = Head(chan[0]) /\ chan[0] # <<>>)
        BY <2>2, <2>4, <2>5, FirstStream
      <3> QED BY <1>1, <1>2, <3>1 DEF SInv, LinkInv, AcceptedInv
    <2>8. ASSUME Reading(i)'
          PROVE  \E p : Carries(i, p)'
      <3>1. Reading(i) /\ Base(i)' = Base(i)
        BY <1>1, <2>8 DEF Reading, Base, Src!SStart
      <3>2. PICK p : Carries(i, p)
        BY <3>1 DEF SInv, LinkInv, StreamInv
      <3>3. PICK q : /\ Path(edits, src, Append(Data(i), d), Base(i), soff[i] + Len(d), q)
                     /\ Reaches(Append(Data(i), d), q, soff[i] + Len(d))
        <4> DEFINE S == Seq(Byte) \cup {shdr}
        <4>1. Path(edits, src, Data(i), Base(i), soff[i], p) /\ Reaches(Data(i), p, soff[i])
          BY <1>5, <3>2 DEF Carries
        <4>2. Data(i) \in Seq(S) /\ d \in S /\ soff[i] \in Nat
          BY <2>3
        <4>3. d \in Seq(Byte) /\ (edits = 0 => Copy(src, soff[i], d))
          BY <2>1
        <4> HIDE DEF S
        <4> QED BY <4>1, <4>2, <4>3, PathAppend
      <3>4. Carries(i, q)'
        BY <1>1, <2>1, <2>6, <3>1, <3>3 DEF Carries, Path, Copy, Reaches
      <3> QED BY <3>4
    <2>9. ASSUME NEW j \in Streams, j # i
          PROVE  Reading(j)' => \E p : Carries(j, p)'
      <3>1. Data(j)' = Data(j)
        BY <1>1, <2>2, <2>9 DEF Data
      <3> QED BY <1>3, <2>2, <2>9, <3>1
    <2> QED BY <1>1, <2>7, <2>8, <2>9 DEF LinkInv, StreamInv
  <1> QED BY <1>4, <1>5 DEF SourceSender

LEMMA SourceEndLinks ==
    ASSUME SInv, SourceEnds
    PROVE  SourceInv' /\ LinkInv'
  <1>1. /\ UNCHANGED <<main, hdr, th, off, from, shdr, sth, soff, chan, src, edits, wire, smain,
                       sjoined, hashed>>
        /\ salive' = FALSE
    BY DEF SourceEnds, Src!SExit, vars, net
  <1>2. SourceInv'
    BY <1>1, SourceKept DEF SInv, SourceInv, SourceType, SentInv
  <1> QED BY <1>1, <1>2, LinksKept

----------------------------------------------------------------------------
\* The world's steps.

LEMMA TailOfFront ==
    ASSUME NEW S, NEW c \in Seq(S), c # <<>>, NEW m \in 1..Len(c)
    PROVE  /\ SubSeq(c, 1, m) # <<>> /\ Head(SubSeq(c, 1, m)) = Head(c)
           /\ Tail(SubSeq(c, 1, m)) = SubSeq(Tail(c), 1, m - 1)
           /\ m - 1 \in 0..Len(Tail(c))
  <1> DEFINE f == SubSeq(c, 1, m)
             t == Tail(c)
             g == SubSeq(t, 1, m - 1)
  <1>1. Len(c) \in Nat \ {0} /\ m \in Nat \ {0} /\ m <= Len(c) /\ \A k \in 1..Len(c) : c[k] \in S
    BY EmptySeq, ElementOfSeq
  <1>2. t \in Seq(S) /\ Len(t) = Len(c) - 1 /\ \A k \in 1..Len(t) : t[k] = c[k + 1]
    BY HeadTailProperties
  <1>3. f \in Seq(S) /\ Len(f) = m /\ \A k \in 1..m : f[k] = c[k]
    <2>1. \A k \in 1..m : c[k] \in S
      BY <1>1
    <2>2. /\ f \in Seq(S) /\ Len(f) = IF 1 <= m THEN m - 1 + 1 ELSE 0
          /\ \A k \in 1..(m - 1 + 1) : f[k] = c[1 + k - 1]
      BY <1>1, <2>1, SubSeqProperties
    <2> HIDE DEF f
    <2>3. m - 1 + 1 = m /\ \A k \in 1..m : 1 + k - 1 = k
      BY <1>1
    <2> QED BY <1>1, <2>2, <2>3
  <1> HIDE DEF f, t
  <1>4. f # <<>> /\ Head(f) = Head(c)
    BY <1>1, <1>3
  <1>5. Tail(f) \in Seq(S) /\ Len(Tail(f)) = m - 1 /\ \A k \in 1..(m - 1) : Tail(f)[k] = c[k + 1]
    <2>1. /\ Tail(f) \in Seq(S) /\ Len(Tail(f)) = Len(f) - 1
          /\ \A k \in 1..Len(Tail(f)) : Tail(f)[k] = f[k + 1]
      BY <1>3, <1>4, HeadTailProperties
    <2>2. \A k \in 1..(m - 1) : k + 1 \in 1..m
      BY <1>1
    <2> QED BY <1>3, <2>1, <2>2
  <1>6. g \in Seq(S) /\ Len(g) = m - 1 /\ \A k \in 1..(m - 1) : g[k] = c[k + 1]
    <2>1. m - 1 \in Nat /\ m - 1 <= Len(t) /\ 1..(m - 1) \subseteq 1..Len(t)
      BY <1>1, <1>2
    <2>2. \A k \in 1..(m - 1) : t[k] \in S
      BY <1>2, <2>1, ElementOfSeq
    <2>3. /\ g \in Seq(S) /\ Len(g) = IF 1 <= m - 1 THEN (m - 1) - 1 + 1 ELSE 0
          /\ \A k \in 1..((m - 1) - 1 + 1) : g[k] = t[1 + k - 1]
      BY <2>1, <2>2, SubSeqProperties
    <2> HIDE DEF g
    <2>4. (m - 1) - 1 + 1 = m - 1 /\ \A k \in 1..(m - 1) : 1 + k - 1 = k
      BY <1>1
    <2>5. Len(g) = m - 1
      BY <1>1, <2>3, <2>4
    <2> QED BY <1>2, <2>1, <2>3, <2>4, <2>5
  <1> HIDE DEF g
  <1>7. Tail(f) = g
    BY <1>5, <1>6, SeqEqual
  <1>8. m - 1 \in 0..Len(t)
    BY <1>1, <1>2
  <1> QED BY <1>4, <1>7, <1>8 DEF f, g, t

LEMMA CutLinks ==
    ASSUME SInv, NEW i \in Streams, Cut(i)
    PROVE  SourceInv' /\ LinkInv'
  <1>1. PICK m \in 0..Len(chan[i]) : chan' = [chan EXCEPT ![i] = SubSeq(chan[i], 1, m)]
    BY DEF Cut
  <1>2. /\ UNCHANGED <<main, hdr, th, off, from, shdr, sth, soff, src, edits, smain, sjoined, hashed,
                       salive>>
        /\ wire' = wire \ {i}
    BY DEF Cut, SameSource, vars
  <1> DEFINE S == Seq(Byte) \cup {shdr}
             c == chan[i]
             f == SubSeq(c, 1, m)
  <1>3. c \in Seq(S) /\ Data(i) \in Seq(S)
    BY Shapes
  <1>4. f \in Seq(S) /\ (m = 0 => f = <<>>)
    <2> HIDE DEF S, c
    <2>1. Len(c) \in Nat /\ \A k \in 1..m : c[k] \in S
      <3>1. Len(c) \in Nat /\ m \in Nat /\ m <= Len(c)
        BY <1>3 DEF c
      <3>2. 1..m \subseteq 1..Len(c)
        BY <3>1
      <3> QED BY <1>3, <3>1, <3>2, ElementOfSeq
    <2> QED BY <2>1, SubSeqProperties, SubSeqEmpty DEF c
  <1>5. c = <<>> => m = 0
    BY EmptySeq
  <1>6. chan'[i] = f /\ (\A j \in Streams : j # i => chan'[j] = chan[j]) /\ chan' \in Traffic
    BY <1>1, <1>4 DEF SInv, SourceInv, SourceType, Traffic
  <1> HIDE DEF S, f
  <1>7. SourceInv'
    <2>1. ~Sent => \A j \in Streams : chan'[j] = <<>>
      BY <1>4, <1>5, <1>6 DEF SInv, SourceInv, SentInv
    <2> QED BY <1>2, <1>6, <2>1, SourceKept DEF SInv, SourceInv, SourceType
  <1>8. m # 0 => /\ f # <<>> /\ Head(f) = Head(c) /\ Tail(f) = SubSeq(Tail(c), 1, m - 1)
                 /\ m - 1 \in 0..Len(Tail(c))
    <2>1. m # 0 => c # <<>> /\ m \in 1..Len(c)
      <3>1. Len(c) \in Nat
        BY <1>3
      <3> QED BY <1>5, <3>1
    <2> QED BY <1>3, <2>1, TailOfFront DEF f
  <1>9. AcceptedInv'
    <2>1. chan'[0] # <<>> => chan[0] # <<>> /\ Head(chan'[0]) = Head(chan[0])
      BY <1>4, <1>5, <1>6, <1>8, FirstStream
    <2>2. 0 \in wire' => 0 \in wire /\ chan'[0] = chan[0]
      BY <1>2, <1>6, FirstStream
    <2> QED BY <1>2, <2>1, <2>2 DEF SInv, LinkInv, AcceptedInv, Sent
  <1>10. ASSUME Reading(i)'
         PROVE  \E p : Carries(i, p)'
    <2>1. Reading(i) /\ Base(i)' = Base(i) /\ i \notin wire'
      BY <1>2, <1>10 DEF Reading, Base, Sent, Src!SStart
    <2>2. PICK p : Path(edits, src, Data(i), Base(i), soff[i], p)
      BY <2>1 DEF SInv, LinkInv, StreamInv, Carries
    <2>3. \E n \in 0..Len(Data(i)) : Data(i)' = SubSeq(Data(i), 1, n)
      <3>1. CASE i = 0 /\ main = "control"
        <4>1. CASE m = 0
          <5>1. Data(i)' = <<>>
            BY <1>2, <1>4, <1>6, <3>1, <4>1 DEF Data
          <5>2. SubSeq(Data(i), 1, 0) = <<>> /\ 0 \in 0..Len(Data(i))
            BY <1>3, SubSeqEmpty
          <5> QED BY <5>1, <5>2
        <4>2. CASE m # 0
          <5>1. Data(i)' = Tail(f) /\ Data(i) = Tail(c)
            BY <1>2, <1>5, <1>6, <1>8, <3>1, <4>2 DEF Data
          <5> QED BY <1>8, <4>2, <5>1
        <4> QED BY <4>1, <4>2
      <3>2. CASE ~(i = 0 /\ main = "control")
        BY <1>2, <1>6, <3>2 DEF Data, f
      <3> QED BY <3>1, <3>2
    <2>4. PICK n \in 0..Len(Data(i)) : Data(i)' = SubSeq(Data(i), 1, n)
      BY <2>3
    <2>5. PICK q : Path(edits, src, SubSeq(Data(i), 1, n), Base(i), soff[i], q)
      BY <1>3, <2>2, PathPrefix
    <2>6. Carries(i, q)'
      BY <1>2, <2>1, <2>4, <2>5 DEF Carries, Path, Copy
    <2> QED BY <2>6
  <1>11. ASSUME NEW j \in Streams, j # i
         PROVE  Reading(j)' => \E p : Carries(j, p)'
    <2>1. (Reading(j)' => Reading(j)) /\ Data(j)' = Data(j) /\ Base(j)' = Base(j)
      BY <1>2, <1>6, <1>11 DEF Reading, Data, Base, Sent, Src!SStart
    <2> QED BY <1>2, <2>1, StreamKept
  <1> QED BY <1>7, <1>9, <1>10, <1>11 DEF LinkInv, StreamInv

\* Once the owner has written the file nothing is claimed of its bytes.
LEMMA EditLinks ==
    ASSUME SInv, NEW content \in Contents, Edit(content)
    PROVE  SourceInv' /\ LinkInv'
  <1>1. /\ UNCHANGED <<main, hdr, th, off, wire, hashed, from, salive, smain, shdr, sth, soff, sjoined,
                       chan>>
        /\ src' \in Seq(Byte) /\ edits' = edits + 1
    BY SessionAssumption DEF Edit, vars, Src!EditSource
  <1>2. edits' \in Nat /\ edits' # 0
    BY <1>1 DEF SInv, SourceInv, SourceType
  <1>3. SourceType' /\ SentInv'
    BY <1>1, <1>2 DEF SInv, SourceInv, SourceType, SentInv, Sent, Traffic, Announce
  <1>4. AnnouncedInv' /\ SenderInv'
    BY <1>1, <1>2 DEF SInv, SourceInv, AnnouncedInv, SenderInv, Sent, Src!SStart, Src!SEnd
  <1>5. AcceptedInv'
    BY <1>1 DEF SInv, LinkInv, AcceptedInv, Sent
  <1>6. ASSUME NEW j \in Streams
        PROVE  Reading(j)' => \E p : Carries(j, p)'
    <2>1. (Reading(j)' => Reading(j)) /\ Data(j)' = Data(j) /\ Base(j)' = Base(j)
      BY <1>1 DEF Reading, Data, Base, Sent, Src!SStart
    <2> QED BY <1>1, <1>2, <2>1, StreamKept
  <1> QED BY <1>3, <1>4, <1>5, <1>6 DEF SourceInv, LinkInv, StreamInv

\* The commands are run again, over new streams.
LEMMA AgainLinks ==
    ASSUME SInv, Again
    PROVE  Fed /\ SourceInv' /\ LinkInv'
  <1>1. /\ Rerun /\ wire' = Streams /\ UNCHANGED <<edits, hashed, src>>
        /\ from' = Offset(dest) /\ salive' = TRUE /\ smain' = "open"
        /\ shdr' = Src!BlankHeader(Offset(dest))
        /\ sth' = [i \in Streams |-> "idle"] /\ soff' = [i \in Streams |-> 0]
        /\ sjoined' = 0 /\ chan' = [i \in Streams |-> <<>>]
    BY DEF Again, Src!SRerun, Streams
  <1>2. /\ main' = "control" /\ hdr' = NoHeader /\ \A i \in Streams : th'[i] = "idle"
    BY <1>1 DEF Rerun
  <1>3. Offset(dest) \in Nat
    BY FileBytes DEF SInv, IInv, SinkType, Offset
  <1>4. shdr' = Announce(0, <<>>)' /\ shdr'.size = 0 /\ shdr'.sum = <<>>
    BY <1>1 DEF Src!BlankHeader, Announce
  <1>5. ~Sent' /\ chan'[0] = <<>>
    BY <1>1, FirstStream DEF Sent
  <1>6. SourceType'
    <2>1. chan' \in Traffic'
      BY <1>1, EmptySeq DEF Traffic
    <2>2. sjoined' \in 0..N
      BY <1>1, FirstStream
    <2>3. shdr' = Announce(shdr.size, shdr.sum)'
      BY <1>4 DEF Announce
    <2> QED BY <1>1, <1>3, <1>4, <2>1, <2>2, <2>3 DEF SInv, SourceInv, SourceType
  <1>7. SentInv'
    BY <1>1, <1>5 DEF SentInv
  <1>8. AnnouncedInv' /\ SenderInv'
    BY <1>1, <1>5 DEF SInv, SourceInv, AnnouncedInv, SenderInv
  <1>9. AcceptedInv' /\ StreamInv'
    BY <1>2, <1>5 DEF AcceptedInv, StreamInv, Reading
  <1> QED BY <1>1, <1>6, <1>7, <1>8, <1>9 DEF Fed, SourceInv, LinkInv

----------------------------------------------------------------------------
\* The invariant of the session.

LEMMA SInvInit == SessionInit => SInv
  <1> SUFFICES ASSUME SessionInit PROVE SInv
    OBVIOUS
  <1>1. IInv /\ hdr = NoHeader /\ main = "control" /\ \A i \in Streams : th[i] = "idle"
    BY IInvInit DEF SessionInit, Init
  <1>2. /\ src \in Seq(Byte) /\ hashed = src /\ edits = 0 /\ wire = Streams
        /\ from = Offset(dest) /\ salive = TRUE /\ smain = "open"
        /\ shdr = Src!BlankHeader(Offset(dest))
        /\ sth = [i \in Streams |-> "idle"] /\ soff = [i \in Streams |-> 0]
        /\ sjoined = 0 /\ chan = [i \in Streams |-> <<>>]
    BY SessionAssumption DEF SessionInit, Src!SInit, Streams
  <1>3. Offset(dest) \in Nat
    BY <1>1, FileBytes DEF IInv, SinkType, Offset
  <1>4. ~Sent /\ chan[0] = <<>>
    BY <1>2, FirstStream DEF Sent
  <1>5. SourceType
    <2>1. chan \in Traffic
      BY <1>2, EmptySeq DEF Traffic
    <2>2. sjoined \in 0..N
      BY <1>2, FirstStream
    <2>3. shdr = Announce(shdr.size, shdr.sum) /\ shdr.size = 0
      BY <1>2 DEF Src!BlankHeader, Announce
    <2> QED BY <1>2, <1>3, <2>1, <2>2, <2>3 DEF SourceType
  <1>6. SentInv /\ AnnouncedInv /\ SenderInv
    BY <1>2, <1>4 DEF SentInv, AnnouncedInv, SenderInv
  <1>7. AcceptedInv /\ StreamInv
    BY <1>1, <1>4 DEF AcceptedInv, StreamInv, Reading
  <1> QED BY <1>1, <1>5, <1>6, <1>7 DEF SInv, SourceInv, LinkInv

\* Every step of a session is one of the sink or leaves it alone.
LEMMA SInvStep == SInv /\ [SessionNext]_allvars => SInv' /\ [Fed]_vars
  <1> SUFFICES ASSUME SInv, [SessionNext]_allvars PROVE SInv' /\ [Fed]_vars
    OBVIOUS
  <1>1. CASE SinkProcess
    BY <1>1, ControlLinks, LocalLinks, IInvStep DEF SinkProcess, SInv
  <1>2. ASSUME NEW i \in Streams, SinkReceiver(i) PROVE SInv' /\ [Fed]_vars
    BY <1>2, ReceiverLinks, IInvStep DEF SInv
  <1>3. CASE SinkEnds
    BY <1>3, EndLinks, IInvStep DEF SInv
  <1>4. CASE SourceMain
    <2>1. UNCHANGED vars
      BY <1>4 DEF SourceMain
    <2> QED BY <1>4, <2>1, SourceMainLinks, IInvStep DEF SInv
  <1>5. ASSUME NEW i \in Streams, SourceSender(i) PROVE SInv' /\ [Fed]_vars
    <2>1. UNCHANGED vars
      BY <1>5 DEF SourceSender
    <2> QED BY <1>5, <2>1, SenderLinks, IInvStep DEF SInv
  <1>6. CASE SourceEnds
    <2>1. UNCHANGED vars
      BY <1>6 DEF SourceEnds
    <2> QED BY <1>6, <2>1, SourceEndLinks, IInvStep DEF SInv
  <1>7. CASE World
    <2>1. ASSUME NEW i \in Streams, Cut(i) PROVE SInv' /\ [Fed]_vars
      <3>1. UNCHANGED vars
        BY <2>1 DEF Cut
      <3> QED BY <2>1, <3>1, CutLinks, IInvStep DEF SInv
    <2>2. ASSUME NEW c \in Contents, Edit(c) PROVE SInv' /\ [Fed]_vars
      <3>1. UNCHANGED vars
        BY <2>2 DEF Edit
      <3> QED BY <2>2, <3>1, EditLinks, IInvStep DEF SInv
    <2>3. CASE Again
      BY <2>3, AgainLinks, IInvStep DEF SInv
    <2> QED BY <1>7, <2>1, <2>2, <2>3 DEF World
  <1>8. CASE UNCHANGED allvars
    <2>1. /\ UNCHANGED vars
          /\ UNCHANGED <<main, hdr, th, off, from, shdr, sth, soff, chan, src, edits, wire, smain,
                         sjoined, hashed, salive>>
      BY <1>8 DEF allvars, vars, svars, net
    <2>2. SourceInv'
      BY <2>1, SourceKept DEF SInv, SourceInv, SourceType, SentInv
    <2> QED BY <2>1, <2>2, LinksKept, IInvStep DEF SInv
  <1> QED BY <1>1, <1>2, <1>3, <1>4, <1>5, <1>6, <1>7, <1>8 DEF SessionNext

LEMMA SInvAlways == SessionSpec => [](SInv /\ Settled)
  <1>1. SessionInit => Settled
    BY DEF SessionInit, Init, Settled
  <1>2. SInv /\ Settled /\ [SessionNext]_allvars => Settled'
    BY SInvStep, SettledStep DEF SInv
  <1> QED BY <1>1, <1>2, SInvInit, SInvStep, PTL DEF SessionSpec

----------------------------------------------------------------------------
\* What a transfer delivers.

\* No two contents share a hash: what BLAKE3 is trusted for.
HashInjective == \A c, d \in Seq(Byte) : Hash(c) = Hash(d) => c = d

\* The accepted header is the source's, and so is every range.
LEMMA OkHeader ==
    ASSUME SInv, main = "ok"
    PROVE  /\ Sent /\ hdr = shdr /\ hdr.check = SendCheck /\ hdr.resume = from
           /\ \A i \in Streams : th[i] = "ok" /\ off[i] = Src!SEnd(i)
  <1>1. hdr # NoHeader /\ Sent /\ hdr = shdr
    BY DEF SInv, LinkInv, AcceptedInv
  <1>2. \A i \in Streams : th[i] = "ok" /\ off[i] = End(i)
    BY DEF SInv, IInv, JoinInv, RangeInv, Joined
  <1> QED BY <1>1, <1>2, HeaderShape, SameRanges DEF SInv, SourceInv

\* With a hash, a sink that succeeds has what its source hashed: whatever the owner
\* did to the file, whatever the resumed prefix held, wherever earlier runs died.
THEOREM DeliversAsHashed ==
    ASSUME HashInjective
    PROVE  SessionSpec => []DeliveredAsHashed
  <1>1. SInv /\ Settled => DeliveredAsHashed
    <2> SUFFICES ASSUME SInv, Settled, main = "ok", hdr.check PROVE dest.bytes = hashed
      BY DEF DeliveredAsHashed
    <2>1. Hash(dest.bytes) = Hash(hashed)
      BY OkHeader DEF Settled, SInv, SourceInv, AnnouncedInv
    <2>2. dest.bytes \in Seq(Byte) /\ hashed \in Seq(Byte)
      BY FileBytes DEF SInv, IInv, SinkType, SourceInv, SourceType
    <2> QED BY <2>1, <2>2 DEF HashInjective
  <1> QED BY <1>1, SInvAlways, PTL

\* A sink succeeds only if every sender reached the end of its range, so that the
\* source cannot fail: no cut, timeout or kill splits the two verdicts that way.
THEOREM NoFalseFailures == SessionSpec => []NoFalseFailure
  <1>1. SInv => NoFalseFailure
    <2> SUFFICES ASSUME SInv, main = "ok", smain = "err" PROVE FALSE
      BY DEF NoFalseFailure
    <2>1. Sent /\ hdr # NoHeader
      BY OkHeader, HeaderShape DEF SInv, SourceInv
    <2>2. PICK i \in Streams : sth[i] = "err"
      BY <2>1 DEF SInv, SourceInv, SenderInv
    <2>3. soff[i] < Src!SEnd(i)
      BY <2>1, <2>2 DEF SInv, SourceInv, SenderInv
    <2>4. th[i] = "ok" /\ off[i] = Src!SEnd(i)
      BY OkHeader
    <2>5. PICK p : Carries(i, p)
      BY <2>1, <2>4 DEF Reading, SInv, LinkInv, StreamInv
    <2>6. off[i] <= soff[i]
      <3>1. p[0] = off[i]
        BY <2>4, <2>5 DEF Carries, Path, Base
      <3>2. Len(Data(i)) \in Nat
        BY Shapes
      <3>3. 0 \in 0..Len(Data(i))
        BY <3>2
      <3> QED BY <2>5, <3>1, <3>3 DEF Carries, Path
    <2>7. soff[i] \in Nat /\ off[i] \in Nat
      BY Shapes
    <2> QED BY <2>3, <2>4, <2>6, <2>7
  <1> QED BY <1>1, SInvAlways, PTL

----------------------------------------------------------------------------
\* Without a hash: the bytes of a fresh copy of a file nobody changed.

\* The bytes of f after offset a, up to offset z, are those of the input.
Matches(f, a, z) == \A q \in Nat : a < q /\ q <= z => f.bytes[q] = src[q]

\* What each receiver has written is right; joining adds their ranges up.
ContentInv ==
    edits = 0 /\ Fresh =>
        /\ main = "join" => /\ Matches(temp, 0, Start(joined))
                            /\ \A i \in Streams :
                                  th[i] # "idle" => Matches(temp, Start(i), off[i])
        /\ main \in {"verify", "preserve", "rename"} => Matches(temp, 0, hdr.size)
        /\ main = "ok" => dest.bytes = src

\* A write of the right bytes keeps the right ones and adds its own.
LEMMA RightWrite ==
    ASSUME NEW f \in AnyFile, NEW o \in Nat, NEW d \in Seq(Byte), Copy(src, o, d)
    PROVE  /\ \A q \in Nat \ {0} : q <= FileLen(f) /\ f.bytes[q] = src[q]
                                      => WriteAt(f, o, d).bytes[q] = src[q]
           /\ \A q \in Nat : o < q /\ q <= o + Len(d) => WriteAt(f, o, d).bytes[q] = src[q]
  <1>1. Len(d) \in Nat /\ FileLen(f) \in Nat
    BY FileBytes
  <1>2. CASE d = <<>>
    <2>1. WriteAt(f, o, d) = f /\ Len(d) = 0
      BY <1>2 DEF WriteAt
    <2> QED BY <2>1
  <1>3. CASE d # <<>>
    <2> DEFINE end == o + Len(d)
               len == IF end > FileLen(f) THEN end ELSE FileLen(f)
               b == [p \in 1..len |-> IF o < p /\ p <= end THEN d[p - o]
                                      ELSE IF p <= FileLen(f) THEN f.bytes[p] ELSE Zero]
    <2>1. WriteAt(f, o, d).bytes = b
      BY <1>3 DEF WriteAt
    <2>2. end \in Nat /\ len \in Nat /\ FileLen(f) <= len /\ end <= len
      BY <1>1
    <2>3. \A p \in 1..len : b[p] = IF o < p /\ p <= end THEN d[p - o]
                                   ELSE IF p <= FileLen(f) THEN f.bytes[p] ELSE Zero
      OBVIOUS
    <2> HIDE DEF b
    <2>4. ASSUME NEW q \in Nat, o < q, q <= end
          PROVE  b[q] = src[q]
      <3>1. q - o \in 1..Len(d) /\ o + (q - o) = q /\ q \in 1..len
        BY <1>1, <2>2, <2>4
      <3>2. d[q - o] = src[q]
        BY <3>1 DEF Copy
      <3> QED BY <2>3, <2>4, <3>1, <3>2
    <2>5. ASSUME NEW q \in Nat \ {0}, q <= FileLen(f), f.bytes[q] = src[q]
          PROVE  b[q] = src[q]
      <3>1. q \in 1..len
        BY <1>1, <2>2, <2>5
      <3>2. CASE o < q /\ q <= end
        BY <2>4, <3>2
      <3>3. CASE ~(o < q /\ q <= end)
        BY <2>3, <2>5, <3>1, <3>3
      <3> QED BY <3>2, <3>3
    <2> QED BY <2>1, <2>4, <2>5
  <1> QED BY <1>2, <1>3

LEMMA ContentPut ==
    ASSUME SInv, ContentInv, NEW i \in Streams, th[i] = "read", NEW d \in Seq(Byte),
           off[i] + Len(d) <= End(i), edits = 0 => Copy(src, off[i], d), Put(off[i], d),
           UNCHANGED <<main, hdr, joined, src, edits>>, off' \in [Streams -> Nat],
           off'[i] <= off[i] + Len(d),
           \A j \in Streams : j # i => off'[j] = off[j] /\ th'[j] = th[j]
    PROVE  ContentInv'
  <1>1. main \notin Joined
    BY DEF SInv, IInv, JoinInv
  <1>2. CASE ~(edits = 0 /\ Fresh /\ main = "join")
    BY <1>1, <1>2 DEF ContentInv, Fresh, Joined
  <1>3. CASE edits = 0 /\ Fresh /\ main = "join"
    <2>1. fd = "temp" /\ temp' = WriteAt(temp, off[i], d) /\ FileLen(temp) = hdr.size
      BY <1>3 DEF SInv, IInv, FdInv, SizeInv, Opened, Loaded, Work, Put
    <2>2. /\ temp \in AnyFile /\ off \in [Streams -> Nat] /\ hdr.size \in Nat /\ joined \in 0..N
          /\ hdr.resume \in Nat /\ hdr.resume <= hdr.size
      BY Basics DEF SInv, IInv, SinkType, HeaderInv
    <2>3. /\ \A q \in Nat \ {0} : q <= hdr.size /\ temp.bytes[q] = src[q] => temp'.bytes[q] = src[q]
          /\ \A q \in Nat : off[i] < q /\ q <= off[i] + Len(d) => temp'.bytes[q] = src[q]
      BY <1>3, <2>1, <2>2, RightWrite
    <2>4. ASSUME NEW a \in Nat, NEW z \in Nat, z <= hdr.size, Matches(temp, a, z)
          PROVE  Matches(temp', a, z)
      BY <2>2, <2>3, <2>4 DEF Matches
    <2>5. Start(joined) \in Nat /\ Start(joined) <= hdr.size
      <3>1. /\ N \in Nat \ {0} /\ joined \in Nat /\ joined <= N /\ N \in Nat
            /\ hdr.size - hdr.resume \in Nat
        BY <2>2, FirstStream
      <3>2. /\ RangeStart(hdr.size - hdr.resume, N, joined) \in Nat
            /\ RangeStart(hdr.size - hdr.resume, N, joined) <= RangeStart(hdr.size - hdr.resume, N, N)
            /\ RangeStart(hdr.size - hdr.resume, N, N) = hdr.size - hdr.resume
        BY <3>1, RangeStartNat, RangeMonotone, RangeBounds
      <3> HIDE DEF RangeStart
      <3> QED BY <2>2, <3>1, <3>2 DEF Start
    <2>6. Matches(temp', 0, Start(joined))
      BY <1>3, <2>4, <2>5 DEF ContentInv
    <2>7. ASSUME NEW j \in Streams, th'[j] # "idle"
          PROVE  Matches(temp', Start(j), off'[j])
      <3>1. /\ Start(j) \in Nat /\ End(j) \in Nat /\ End(j) <= hdr.size
            /\ th[j] # "idle" => Start(j) <= off[j] /\ off[j] <= End(j)
        BY <2>2, StreamRanges DEF SInv, IInv, RangeInv
      <3>2. th[j] # "idle" => Matches(temp, Start(j), off[j])
        BY <1>3 DEF ContentInv
      <3>3. CASE j = i
        <4>1. Len(d) \in Nat /\ off[i] \in Nat /\ off'[i] \in Nat /\ off[i] <= hdr.size
          BY <2>2, <3>1, <3>3
        <4>2. Matches(temp', Start(i), off[i])
          BY <2>4, <3>1, <3>2, <3>3, <4>1
        <4>3. ASSUME NEW q \in Nat, Start(i) < q, q <= off'[i]
              PROVE  temp'.bytes[q] = src[q]
          <5>1. CASE q <= off[i]
            BY <4>2, <4>3, <5>1 DEF Matches
          <5>2. CASE ~(q <= off[i])
            <6>1. off[i] < q /\ q <= off[i] + Len(d)
              BY <4>1, <4>3, <5>2
            <6> QED BY <2>3, <6>1
          <5> QED BY <5>1, <5>2
        <4> QED BY <3>3, <4>3 DEF Matches
      <3>4. CASE j # i
        <4>1. th[j] # "idle" /\ off[j] <= hdr.size
          BY <2>2, <2>7, <3>1, <3>4
        <4> QED BY <2>2, <2>4, <3>1, <3>2, <3>4, <4>1
      <3> QED BY <3>3, <3>4
    <2>8. Start(joined)' = Start(joined) /\ \A j \in Streams : Start(j)' = Start(j)
      BY DEF Start
    <2> QED BY <1>3, <2>6, <2>7, <2>8 DEF ContentInv, Matches
  <1> QED BY <1>2, <1>3

LEMMA ContentReceiver ==
    ASSUME SInv, ContentInv, NEW i \in Streams, SinkReceiver(i)
    PROVE  ContentInv'
  <1>1. UNCHANGED <<src, edits>>
    BY DEF SinkReceiver, net, SameSource
  <1>2. off \in [Streams -> Nat] /\ th \in [Streams -> ThreadStates] /\ off[i] \in Nat
    BY DEF SInv, IInv, SinkType
  <1>3. CASE RecvDone(i) \/ RecvAborted(i) \/ RecvCheck(i) \/ RecvFails(i)
    <2>1. /\ UNCHANGED <<dest, temp, main, hdr, off, joined>>
          /\ \A j \in Streams : th'[j] # "idle" => th[j] # "idle"
      BY <1>2, <1>3 DEF RecvDone, RecvAborted, RecvCheck, RecvFails, ThreadGoto, AtThread, files
    <2> QED BY <1>1, <2>1 DEF ContentInv, Fresh, Start, Matches
  <1>4. CASE Receive(i)
    <2> DEFINE d == Head(chan[i])
    <2>1. /\ th[i] = "read" /\ chan[i] # <<>>
          /\ RecvFrame(i, d) \/ \E k \in 0..(Len(d) - 1) : RecvShortWrite(i, d, k)
      BY <1>4 DEF Receive
    <2>2. d \in Seq(Byte) /\ (edits = 0 => Copy(src, off[i], d))
      BY <2>1, FrameAtHead
    <2> HIDE DEF d
    <2>3. Len(d) \in Nat
      BY <2>2
    <2>4. FrameLen(i, Len(d))
      BY <2>1 DEF RecvFrame, RecvShortWrite
    <2>5. off[i] + Len(d) <= End(i) /\ End(i) \in Nat
      BY <2>1, <2>2, <2>4, FrameFits DEF SInv
    <2>6. CASE RecvFrame(i, d)
      <3>1. /\ Put(off[i], d) /\ UNCHANGED <<main, hdr, joined>>
            /\ off' = [off EXCEPT ![i] = off[i] + Len(d)] /\ th' = [th EXCEPT ![i] = "check"]
        BY <2>6 DEF RecvFrame
      <3>2. /\ off' \in [Streams -> Nat] /\ off'[i] <= off[i] + Len(d)
            /\ \A j \in Streams : j # i => off'[j] = off[j] /\ th'[j] = th[j]
        BY <1>2, <2>3, <3>1
      <3> QED BY <1>1, <2>1, <2>2, <2>5, <3>1, <3>2, ContentPut
    <2>7. ASSUME NEW k \in 0..(Len(d) - 1), RecvShortWrite(i, d, k)
          PROVE  ContentInv'
      <3> DEFINE e == SubSeq(d, 1, k)
      <3>1. /\ Put(off[i], e) /\ UNCHANGED <<main, hdr, joined>>
            /\ off' = off /\ th' = [th EXCEPT ![i] = "err"]
        BY <2>7 DEF RecvShortWrite
      <3>2. e \in Seq(Byte) /\ Len(e) = k /\ \A j \in 1..k : e[j] = d[j]
        <4>1. e \in Seq(Byte) /\ Len(e) = k
          BY <2>2, FrontOfFrame
        <4>2. \A j \in 1..k : d[j] \in Byte
          BY <2>2, <2>3
        <4> QED BY <2>3, <4>1, <4>2, SubSeqProperties
      <3> HIDE DEF e
      <3>3. edits = 0 => Copy(src, off[i], e)
        BY <2>2, <2>3, <3>2 DEF Copy
      <3>4. /\ off' \in [Streams -> Nat] /\ off'[i] <= off[i] + Len(e)
            /\ off[i] + Len(e) <= End(i)
            /\ \A j \in Streams : j # i => off'[j] = off[j] /\ th'[j] = th[j]
        BY <1>2, <2>3, <2>5, <3>1, <3>2
      <3> QED BY <1>1, <2>1, <3>1, <3>2, <3>3, <3>4, ContentPut
    <2> QED BY <2>1, <2>6, <2>7
  <1> QED BY <1>3, <1>4 DEF SinkReceiver

\* The joined ranges run on to the end of the file.
LEMMA ContentLocal ==
    ASSUME SInv, ContentInv, SinkLocal
    PROVE  ContentInv'
  <1> USE DEF AtMain, Goto, threads, files
  <1>1. UNCHANGED <<src, edits>> /\ (Prepare \/ Joining \/ Finish)
    BY DEF SinkLocal, svars, net
  <1>2. /\ hdr.size \in Nat /\ hdr.resume \in Nat /\ hdr.resume <= hdr.size
        /\ off \in [Streams -> Nat] /\ joined \in 0..N /\ temp \in AnyFile
    BY Basics DEF SInv, IInv, SinkType, HeaderInv
  <1>3. hdr' = hdr
    BY <1>1, LocalForm
  <1>4. CASE ~(edits = 0 /\ Fresh)
    BY <1>1, <1>3, <1>4 DEF ContentInv, Fresh
  <1>5. CASE edits = 0 /\ Fresh
    <2>1. CASE Prepare
      <3>1. CASE Extend
        <4>1. main' = "join" /\ joined' = 0 /\ off' = [i \in Streams |-> Start(i)]
          BY <3>1 DEF Extend, SInv, IInv, JoinInv, Starting
        <4>2. \A i \in Streams : Start(i)' = Start(i) /\ off'[i] = Start(i) /\ Start(i) \in Nat
          BY <1>2, <1>3, <4>1, StreamRanges DEF Start, SInv, IInv
        <4>3. Start(joined)' = 0
          <5>1. hdr.size - hdr.resume \in Nat /\ N \in Nat \ {0}
            BY <1>2, FirstStream
          <5> QED BY <1>3, <1>5, <4>1, <5>1, RangeBounds DEF Start, Fresh
        <4>4. Matches(temp, 0, Start(joined))'
          BY <4>3 DEF Matches
        <4>5. \A i \in Streams : Matches(temp, Start(i), off[i])'
          BY <4>2 DEF Matches
        <4> QED BY <4>1, <4>4, <4>5 DEF ContentInv
      <3>2. CASE OpenWork \/ DropTail \/ SetupFails
        BY <3>2 DEF OpenWork, DropTail, SetupFails, ContentInv
      <3> QED BY <2>1, <3>1, <3>2 DEF Prepare
    <2>2. CASE Joining
      <3>1. UNCHANGED <<dest, temp, th, off>> /\ main = "join"
        BY <2>2 DEF Joining, JoinOk, JoinErr, JoinedAll
      <3>2. CASE JoinOk
        <4>1. joined \in Streams /\ th[joined] = "ok" /\ joined' = joined + 1 /\ main' = "join"
          BY <1>2, <3>2, FirstStream DEF JoinOk, Streams
        <4>2. off[joined] = End(joined) /\ Start(joined)' = End(joined)
          BY <1>3, <4>1 DEF SInv, IInv, RangeInv, Start, End, RangeEnd
        <4>3. Matches(temp, 0, Start(joined)) /\ Matches(temp, Start(joined), End(joined))
          BY <1>5, <3>1, <4>1, <4>2 DEF ContentInv
        <4>4. Start(joined) \in Nat /\ End(joined) \in Nat
          BY <1>2, <4>1, StreamRanges DEF SInv, IInv
        <4>5. Matches(temp, 0, End(joined))
          BY <4>3, <4>4 DEF Matches
        <4>6. Matches(temp, 0, Start(joined))'
          BY <1>1, <3>1, <4>2, <4>5 DEF Matches
        <4>7. \A i \in Streams : th'[i] # "idle" => Matches(temp, Start(i), off[i])'
          BY <1>1, <1>3, <1>5, <3>1 DEF ContentInv, Matches, Start
        <4> QED BY <4>1, <4>6, <4>7 DEF ContentInv
      <3>3. CASE JoinedAll
        <4>1. joined = N /\ main' = "verify"
          BY <3>3 DEF JoinedAll
        <4>2. Start(N) = hdr.size
          <5>1. hdr.size - hdr.resume \in Nat /\ N \in Nat \ {0}
            BY <1>2, FirstStream
          <5>2. RangeStart(hdr.size - hdr.resume, N, N) = hdr.size - hdr.resume
            BY <5>1, RangeBounds
          <5> QED BY <1>2, <5>2 DEF Start
        <4>3. Matches(temp, 0, hdr.size)
          BY <1>5, <3>1, <4>1, <4>2 DEF ContentInv
        <4> QED BY <1>1, <1>3, <3>1, <4>1, <4>3 DEF ContentInv, Matches
      <3>4. CASE JoinErr
        BY <3>4 DEF JoinErr, ContentInv
      <3> QED BY <2>2, <3>2, <3>3, <3>4 DEF Joining
    <2>3. CASE Finish
      <3>1. CASE Cleanup \/ CleanupFails \/ FinishFails
        BY <3>1 DEF Cleanup, CleanupFails, FinishFails, ContentInv
      <3>2. CASE Verify \/ ApplyPreserve
        <4>1. /\ main \in {"verify", "preserve"} /\ main' \in {"cleanup", "preserve", "rename"}
              /\ temp' = temp \/ temp' = [temp EXCEPT !.meta = "sent"]
          BY <3>2 DEF Verify, ApplyPreserve
        <4>2. [temp EXCEPT !.meta = "sent"].bytes = temp.bytes
          BY <1>2 DEF AnyFile, Files, NoFile
        <4>3. temp'.bytes = temp.bytes
          BY <4>1, <4>2
        <4>4. Matches(temp, 0, hdr.size)
          BY <1>5, <4>1 DEF ContentInv
        <4>5. Matches(temp, 0, hdr.size)'
          BY <1>1, <1>3, <4>3, <4>4 DEF Matches
        <4> QED BY <4>1, <4>5 DEF ContentInv
      <3>3. CASE Rename
        <4>1. main = "rename" /\ main' = "ok" /\ dest' = temp
          BY <1>5, <3>3 DEF Rename
        <4>2. Matches(temp, 0, hdr.size) /\ FileLen(temp) = hdr.size
          BY <1>5, <4>1 DEF ContentInv, SInv, IInv, SizeInv, Loaded, Work
        <4>3. hdr.size = Len(src)
          <5>1. hdr # NoHeader
            BY <4>1 DEF SInv, LinkInv, AcceptedInv
          <5> QED BY <1>5, <5>1 DEF SInv, LinkInv, AcceptedInv, SourceInv, AnnouncedInv
        <4>4. temp.bytes \in Seq(Byte) /\ src \in Seq(Byte) /\ Len(temp.bytes) = Len(src)
          BY <1>2, <4>2, <4>3, FileBytes DEF SInv, SourceInv, SourceType, FileLen
        <4>5. \A q \in 1..Len(src) : temp.bytes[q] = src[q]
          BY <4>2, <4>3, <4>4 DEF Matches
        <4>6. temp.bytes = src
          BY <4>4, <4>5, SeqEqual
        <4> QED BY <1>1, <4>1, <4>6 DEF ContentInv
      <3> QED BY <2>3, <3>1, <3>2, <3>3 DEF Finish
    <2> QED BY <1>1, <2>1, <2>2, <2>3
  <1> QED BY <1>4, <1>5

LEMMA ContentStep == SInv /\ ContentInv /\ [SessionNext]_allvars => ContentInv'
  <1> SUFFICES ASSUME SInv, ContentInv, [SessionNext]_allvars PROVE ContentInv'
    OBVIOUS
  <1>1. ASSUME UNCHANGED <<dest, temp, main, hdr, th, off, joined, src, edits>> PROVE ContentInv'
    BY <1>1 DEF ContentInv, Fresh, Matches, Start
  <1>2. ASSUME main' \in {"control", "open", "err"} PROVE ContentInv'
    BY <1>2 DEF ContentInv
  <1>3. CASE SinkProcess
    <2>1. CASE SinkControl
      BY <1>2, <2>1 DEF SinkControl, ReadControl, Refuse, ControlLost, Goto
    <2> QED BY <1>3, <2>1, ContentLocal DEF SinkProcess
  <1>4. ASSUME NEW i \in Streams, SinkReceiver(i) PROVE ContentInv'
    BY <1>4, ContentReceiver
  <1>5. CASE SinkEnds
    BY <1>1, <1>5 DEF SinkEnds, Exit, Crash, threads, files, svars, net
  <1>6. CASE SourceMain
    BY <1>1, <1>6 DEF SourceMain, vars, Src!SMain, Src!OpenSource, Src!HashSource, Src!SJoinOk,
                      Src!SJoinErr, Src!SJoinedAll, Src!SendControl, Src!ControlFails, Src!InputFails
  <1>7. ASSUME NEW i \in Streams, SourceSender(i) PROVE ContentInv'
    BY <1>1, <1>7 DEF SourceSender, vars, net, Src!SendDone, Src!SendAborted, Src!SendNext,
                      Src!SendFrame, Src!SendFails
  <1>8. CASE SourceEnds
    BY <1>1, <1>8 DEF SourceEnds, vars, net, Src!SExit
  <1>9. CASE World
    <2>1. ASSUME NEW i \in Streams, Cut(i) PROVE ContentInv'
      BY <1>1, <2>1 DEF Cut, vars, SameSource
    <2>2. ASSUME NEW c \in Contents, Edit(c) PROVE ContentInv'
      <3>1. edits' # 0
        BY <2>2 DEF Edit, SInv, SourceInv, SourceType
      <3> QED BY <3>1 DEF ContentInv
    <2>3. CASE Again
      BY <1>2, <2>3 DEF Again, Rerun
    <2> QED BY <1>9, <2>1, <2>2, <2>3 DEF World
  <1>10. CASE UNCHANGED allvars
    BY <1>1, <1>10 DEF allvars, vars, svars, net
  <1> QED BY <1>3, <1>4, <1>5, <1>6, <1>7, <1>8, <1>9, <1>10 DEF SessionNext

LEMMA ContentAlways == SessionSpec => []ContentInv
  <1>1. SessionInit => ContentInv
    BY DEF SessionInit, Init, ContentInv
  <1> QED BY <1>1, ContentStep, SInvAlways, PTL DEF SessionSpec

\* A fresh copy of a file left alone has exactly its bytes, with no help of a hash: no
\* frame is lost, repeated or put at another's offset, however the streams interleave.
THEOREM FreshDelivers == SessionSpec => [](Fresh => Delivered)
  <1>1. ContentInv => (Fresh => Delivered)
    BY DEF ContentInv, Delivered
  <1> QED BY <1>1, ContentAlways, PTL

\* So has a resumed one, whose trusted prefix the mandatory hash vouches for.
THEOREM Delivers ==
    ASSUME HashInjective
    PROVE  SessionSpec => []Delivered
  <1>1. SInv /\ ContentInv /\ DeliveredAsHashed => Delivered
    <2> SUFFICES ASSUME SInv, ContentInv, DeliveredAsHashed, main = "ok", edits = 0
                 PROVE  dest.bytes = src
      BY DEF Delivered
    <2>1. CASE Fresh
      BY <2>1 DEF ContentInv
    <2>2. CASE ~Fresh
      <3>1. Sent /\ hdr.check = SendCheck /\ from > 0
        <4>1. hdr.resume = from /\ Sent /\ hdr.check = SendCheck
          BY OkHeader
        <4> QED BY <2>2, <4>1 DEF Fresh, SInv, SourceInv, SourceType
      <3>2. hdr.check
        BY <3>1 DEF SInv, SourceInv, AnnouncedInv
      <3>3. dest.bytes = hashed
        BY <3>2 DEF DeliveredAsHashed
      <3> QED BY <3>3 DEF SInv, SourceInv, AnnouncedInv
    <2> QED BY <2>1, <2>2
  <1> QED BY <1>1, SInvAlways, ContentAlways, DeliversAsHashed, PTL

\* In a session too every return of finish_sink has renamed or removed its temporary.
THEOREM SessionLeavesNoTemp ==
    ASSUME "setlen" \notin Faults, "remove" \notin Faults
    PROVE  SessionSpec => []NoTempLeft
  <1>1. SessionInit => TempInv
    BY DEF SessionInit, Init, TempInv, Fresh, NoHeader
  <1>2. SInv /\ TempInv /\ [SessionNext]_allvars => TempInv'
    BY SInvStep, TempInvStep DEF SInv
  <1>3. TempInv => NoTempLeft
    BY DEF TempInv, NoTempLeft
  <1> QED BY <1>1, <1>2, <1>3, SInvAlways, PTL DEF SessionSpec

============================================================================
