----------------------------- MODULE SealingProofs -------------------------
(***************************************************************************)
(* Handshake and Sealing for every number of streams, every file size and  *)
(* every number of strangers at the port: every stream gets the connection *)
(* its dialer made, no nonce is used twice under a key, and what a sink    *)
(* opens is one source's.                                                  *)
(***************************************************************************)
EXTENDS Sealing, RangesProofs, TLAPS

USE DEF Streams, Strays, Conns, None, Silent, Keyed

----------------------------------------------------------------------------
\* What the handshake keeps: a stream not dialed yet has said nothing, only who holds the
\* key makes a MAC, and a filed connection names its stream.
HandshakeInv ==
    /\ TypeOK
    /\ dialer \in {"connect", "announce"} => dialed < Dialed
    /\ \A c \in dialed..(Dialed - 1) : said[c] = Silent
    /\ \A c \in Conns : said[c].mac =>
          /\ Keyed /\ (c < Dialed \/ key = "shared")
          /\ said[c].id = StreamOf(c)
    /\ accepter = "id" => cur # None
    /\ \A i \in Streams : slots[i] # None =>
          said[slots[i]].id = i /\ (Keyed => said[slots[i]].mac)
    /\ accepter = "ok" => \A i \in Streams : slots[i] # None

LEMMA HandshakeInit == Init => HandshakeInv
  BY HandshakeAssumption, SealingAssumption, SMT DEF Init, HandshakeInv, TypeOK

LEMMA HandshakeStep == HandshakeInv /\ [Next]_vars => HandshakeInv'
  <1> SUFFICES ASSUME HandshakeInv, [Next]_vars PROVE HandshakeInv'
    OBVIOUS
  <1> USE HandshakeAssumption, SealingAssumption DEF HandshakeInv, TypeOK, StreamOf, SourceOf
  <1>1. CASE Connect
    BY <1>1 DEF Connect
  <1>2. CASE Announce
    <2>0. dialed \in 0..Dialed /\ dialed < Dialed
      BY <1>2 DEF Announce
    <2>01. said' = [said EXCEPT ![dialed] = [id |-> dialed, mac |-> Keyed]]
      BY <1>2, Zenon DEF Announce
    <2>1. /\ said[dialed] = Silent /\ dialed \in Conns /\ dialed < Dialed
          /\ said' = [said EXCEPT ![dialed] = [id |-> dialed, mac |-> Keyed]]
      BY <2>0, <2>01
    <2>2. \A i \in Streams : slots[i] # None => slots[i] # dialed
      BY <2>1
    <2>3. \A c \in Conns : c # dialed => said'[c] = said[c]
      BY <2>1
    <2>4. said'[dialed] = [id |-> dialed, mac |-> Keyed]
      BY <2>1
    <2>5. StreamOf(dialed) = dialed
      BY <2>1
    <2>6. /\ dialed' = dialed + 1 /\ dialer' = IF dialed + 1 = Dialed THEN "ok" ELSE "connect"
          /\ UNCHANGED <<key, backlog, accepter, cur, slots>>
      BY <1>2 DEF Announce
    <2>7. TypeOK'
      <3>1. said' \in [Conns -> [id : -1..(IF N > Dialed THEN N ELSE Dialed), mac : BOOLEAN]]
        BY <2>1
      <3> QED BY <2>1, <2>6, <3>1
    <2>8. /\ dialer' \in {"connect", "announce"} => dialed' < Dialed
          /\ \A c \in dialed'..(Dialed - 1) : said'[c] = Silent
      BY <2>1, <2>3, <2>6
    <2>9. \A c \in Conns : said'[c].mac =>
             /\ Keyed /\ (c < Dialed \/ key = "shared")
             /\ said'[c].id = StreamOf(c)
      BY <2>1, <2>3, <2>4, <2>5
    <2>10. \A i \in Streams : slots[i] # None =>
             said'[slots[i]].id = i /\ (Keyed => said'[slots[i]].mac)
      BY <2>2, <2>3
    <2> QED BY <2>6, <2>7, <2>8, <2>9, <2>10
  <1>3. CASE DialFails
    BY <1>3 DEF DialFails
  <1>4. ASSUME NEW c \in Strays, Stray(c) PROVE HandshakeInv'
    <2>1. PICK id \in -1..N, mac \in BOOLEAN :
             /\ mac => key = "shared" /\ id = c - Dialed
             /\ said' = [said EXCEPT ![c] = [id |-> id, mac |-> mac]]
      BY <1>4 DEF Stray
    <2>2. /\ \A i \in Streams : slots[i] # c
          /\ UNCHANGED <<key, dialer, dialed, accepter, cur, slots>>
          /\ backlog' = backlog \cup {c}
      BY <1>4 DEF Stray
    <2>3. c \in Conns /\ c >= Dialed
      OBVIOUS
    <2>4. /\ \A d \in Conns : d # c => said'[d] = said[d]
          /\ said'[c] = [id |-> id, mac |-> mac]
      BY <2>1, <2>3
    <2> QED BY <2>1, <2>2, <2>3, <2>4
  <1>5. ASSUME NEW c \in Conns, Accept(c) PROVE HandshakeInv'
    <2>1. c \in Conns /\ c # None /\ backlog' \subseteq Conns
      BY <1>5 DEF Accept
    <2>2. /\ UNCHANGED <<key, dialer, dialed, said, slots>>
          /\ (accepter' = "err" /\ cur' = cur) \/ (accepter' = "id" /\ cur' = c)
      BY <1>5 DEF Accept
    <2>3. TypeOK'
      BY <2>1, <2>2
    <2> QED BY <2>1, <2>2, <2>3
  <1>6. CASE ReadId
    <2>1. /\ cur \in Conns /\ said[cur].id \in Streams /\ (Keyed => said[cur].mac)
          /\ slots' = [slots EXCEPT ![said[cur].id] = cur]
          /\ UNCHANGED <<key, dialer, dialed, backlog, said>>
      BY <1>6 DEF ReadId, Admits
    <2>2. accepter' = "ok" => \A i \in Streams : slots'[i] # None
      <3>1. accepter' = "ok" => Streams = Taken \cup {said[cur].id}
        BY <1>6 DEF ReadId
      <3> QED BY <2>1, <3>1 DEF Taken
    <2>3. accepter' \in {"ok", "accept"} /\ cur' = None
      BY <1>6 DEF ReadId
    <2> QED BY <2>1, <2>2, <2>3
  <1>7. CASE Reject
    BY <1>7 DEF Reject
  <1>8. CASE AcceptTimeout
    BY <1>8 DEF AcceptTimeout
  <1>9. CASE UNCHANGED vars
    BY <1>9 DEF vars
  <1> QED BY <1>1, <1>2, <1>3, <1>4, <1>5, <1>6, <1>7, <1>8, <1>9 DEF Next, Dial, Serve

\* A complete handshake stays as it is.
LEMMA SlotsStable ==
    HandshakeInv /\ [Next]_vars /\ accepter = "ok" => accepter' = "ok" /\ slots' = slots /\ key' = key
  BY DEF Next, Dial, Serve, Connect, Announce, DialFails, Stray, Accept, ReadId, Reject,
         AcceptTimeout, vars

LEMMA KeyStable == [Next]_vars => key' = key
  BY DEF Next, Dial, Serve, Connect, Announce, DialFails, Stray, Accept, ReadId, Reject,
         AcceptTimeout, vars

\* Every step of Sealing is a step of the handshake or leaves it alone.
LEMMA SealingOpens == [SealingNext]_allVars => [Next]_vars
  BY DEF SealingNext, allVars, Open, SendControl, SealFrame, ReadHeader, OpenFrame, Lost, Received

LEMMA HandshakeAlways == SealingSpec => []HandshakeInv
  <1>1. SealingInit => HandshakeInv
    BY HandshakeInit DEF SealingInit
  <1>2. HandshakeInv /\ [SealingNext]_allVars => HandshakeInv'
    BY HandshakeStep, SealingOpens
  <1> QED BY <1>1, <1>2, PTL DEF SealingSpec

\* With a key of its own, every stream of a complete handshake has the connection the
\* dialer made for it (net.rs accept_streams, crypto.rs stream_id_tag).
THEOREM SealingSlotsAreThePeers == SealingSpec => []SlotsAreThePeers
  <1>1. HandshakeInv => SlotsAreThePeers
    BY HandshakeAssumption, SealingAssumption
       DEF HandshakeInv, SlotsAreThePeers, TypeOK, StreamOf, SourceOf
  <1> QED BY <1>1, HandshakeAlways, PTL

\* Even without one every stream has a connection of its own (net.rs accept_streams).
THEOREM SealingSlotsDistinct == SealingSpec => []SlotsDistinct
  <1>1. HandshakeInv => SlotsDistinct
    BY DEF HandshakeInv, SlotsDistinct, TypeOK
  <1> QED BY <1>1, HandshakeAlways, PTL

\* A connection filed under a stream is not displaced (net.rs accept_streams).
THEOREM SealingSlotsKept == SealingSpec => SlotsKept
  <1>1. HandshakeInv /\ [SealingNext]_allVars =>
          [\A i \in Streams : slots[i] # None => slots'[i] = slots[i]]_vars
    <2> SUFFICES ASSUME HandshakeInv, [SealingNext]_allVars, NEW i \in Streams, slots[i] # None
                 PROVE  slots'[i] = slots[i]
      OBVIOUS
    <2>1. CASE ReadId
      BY <2>1 DEF HandshakeInv, TypeOK, ReadId, Admits
    <2>2. CASE UNCHANGED slots
      BY <2>2
    <2>3. ReadId \/ UNCHANGED slots
      BY SealingOpens DEF Next, Dial, Serve, Connect, Announce, DialFails, Stray, Accept,
                          Reject, AcceptTimeout, vars
    <2> QED BY <2>1, <2>2, <2>3
  <1> QED BY <1>1, HandshakeAlways, PTL DEF SealingSpec, SlotsKept

----------------------------------------------------------------------------
\* What sealing keeps: no stream has more frames than its range, and once the header
\* is opened it is the header the source of stream 0 sent, on which every frame opened hangs.
SealingInv ==
    /\ HandshakeInv
    /\ size \in [Sources -> Sizes] /\ control \subseteq Sources
    /\ counter \in [Conns -> Nat]
    /\ \A c \in Conns : counter[c] > 0 =>
          StreamOf(c) \in Streams /\ counter[c] <= Frames(size[SourceOf(c)], StreamOf(c))
    /\ sink \in {"header", "recv", "ok", "err"}
    /\ header \in [salt : Sources, size : Sizes \cup {0}]
    /\ opened \in [Streams -> Seq(Sources \X Streams \X {"frame"} \X (0..CtrMax))]
    /\ sink # "header" => Keyed /\ accepter = "ok"
    /\ sink = "header" => \A i \in Streams : opened[i] = <<>>
    /\ sink \in {"recv", "ok"} => header.salt = SourceOf(slots[0]) /\ header.size = size[header.salt]
    /\ \A i \in Streams :
          /\ \A k \in 1..Len(opened[i]) : opened[i][k] = <<SourceOf(slots[0]), i, "frame", k - 1>>
          /\ sink \in {"recv", "ok"} => Len(opened[i]) <= Frames(header.size, i)
          /\ sink = "ok" => Len(opened[i]) = Frames(header.size, i)

\* A stream's share of a file is at most the file.
LEMMA FramesBound ==
    ASSUME NEW n \in Sizes \cup {0}, NEW i \in Streams
    PROVE  Frames(n, i) \in 0..CtrMax
  <1>1. n \in Nat /\ n <= CtrMax /\ N \in Nat \ {0} /\ i \in Nat /\ i + 1 \in Nat /\ i + 1 <= N
    BY HandshakeAssumption, SealingAssumption
  <1>2. /\ RangeStart(n, N, i) \in Nat /\ RangeStart(n, N, i + 1) \in Nat
        /\ RangeStart(n, N, i) <= RangeStart(n, N, i + 1)
    <2>1. i <= i + 1
      BY <1>1
    <2> QED BY <1>1, <2>1, RangeStartNat, RangeMonotone
  <1>3. RangeStart(n, N, i + 1) <= RangeStart(n, N, N) /\ RangeStart(n, N, N) = n
    <2>1. N \in Nat
      BY <1>1
    <2> QED BY <1>1, <2>1, RangeMonotone, RangeBounds
  <1> QED BY <1>1, <1>2, <1>3, SealingAssumption DEF Frames, RangeEnd

LEMMA SealingInitInv == SealingInit => SealingInv
  <1> SUFFICES ASSUME SealingInit PROVE SealingInv
    OBVIOUS
  <1>1. HandshakeInv
    BY HandshakeInit DEF SealingInit
  <1>2. header \in [salt : Sources, size : Sizes \cup {0}]
    BY DEF SealingInit, Sources
  <1>3. /\ opened \in [Streams -> Seq(Sources \X Streams \X {"frame"} \X (0..CtrMax))]
        /\ \A i \in Streams : opened[i] = <<>> /\ Len(opened[i]) = 0
    BY DEF SealingInit
  <1> QED BY <1>1, <1>2, <1>3 DEF SealingInit, SealingInv

LEMMA SealingStep == SealingInv /\ [SealingNext]_allVars => SealingInv'
  <1> SUFFICES ASSUME SealingInv, [SealingNext]_allVars PROVE SealingInv'
    OBVIOUS
  <1> USE DEF SealingInv
  <1>0. HandshakeInv' /\ key' = key /\ (accepter = "ok" => accepter' = "ok" /\ slots' = slots)
    BY HandshakeStep, SealingOpens, SlotsStable, KeyStable
  <1>1. CASE UNCHANGED sealVars
    BY <1>0, <1>1 DEF sealVars
  <1>2. ASSUME NEW q \in Sources, SendControl(q) PROVE SealingInv'
    BY <1>0, <1>2 DEF SendControl, vars
  <1>3. ASSUME NEW c \in Conns, SealFrame(c) PROVE SealingInv'
    <2>1. /\ StreamOf(c) \in Streams /\ counter[c] < Frames(size[SourceOf(c)], StreamOf(c))
          /\ counter' = [counter EXCEPT ![c] = @ + 1]
          /\ UNCHANGED <<vars, size, control, sink, header, opened>>
      BY <1>3 DEF SealFrame
    <2>2. Frames(size[SourceOf(c)], StreamOf(c)) \in Nat
      BY <2>1, FramesBound DEF SourceOf, Sources
    <2>3. counter' \in [Conns -> Nat] /\ \A d \in Conns : counter'[d] > 0 =>
             StreamOf(d) \in Streams /\ counter'[d] <= Frames(size[SourceOf(d)], StreamOf(d))
      <3>1. /\ counter \in [Conns -> Nat] /\ counter[c] \in Nat
            /\ \A d \in Conns : counter[d] > 0 =>
                  StreamOf(d) \in Streams /\ counter[d] <= Frames(size[SourceOf(d)], StreamOf(d))
        OBVIOUS
      <3> HIDE DEF SealingInv, Conns, Streams
      <3>2. /\ counter' \in [Conns -> Nat] /\ counter'[c] = counter[c] + 1
            /\ \A d \in Conns \ {c} : counter'[d] = counter[d]
        BY <2>1, <3>1
      <3>3. counter'[c] <= Frames(size[SourceOf(c)], StreamOf(c))
        BY <2>1, <2>2, <3>1, <3>2
      <3> QED BY <2>1, <3>1, <3>2, <3>3
    <2> QED BY <1>0, <2>1, <2>3 DEF vars
  <1>4. CASE ReadHeader
    <2>1. /\ sink = "header" /\ Keyed /\ accepter = "ok"
          /\ header' \in [salt : Sources, size : Sizes]
          /\ UNCHANGED <<vars, size, control, counter, opened>>
      BY <1>4 DEF ReadHeader
    <2>2. sink' \in {"recv", "err"}
      BY <1>4 DEF ReadHeader
    <2>3. sink' = "recv" => header'.salt = SourceOf(slots[0]) /\ header'.size = size[header'.salt]
      BY <1>4 DEF ReadHeader, Opens, Box, DeriveAeadKey, FrameAad
    <2>4. \A i \in Streams : opened'[i] = <<>> /\ Len(opened'[i]) = 0 /\ 0 <= Frames(header'.size, i)
      BY <2>1, FramesBound
    <2>5. header' \in [salt : Sources, size : Sizes \cup {0}]
      BY <2>1
    <2> QED BY <1>0, <2>1, <2>2, <2>3, <2>4, <2>5 DEF vars
  <1>5. ASSUME NEW i \in Streams, OpenFrame(i) PROVE SealingInv'
    <2> DEFINE k == Len(opened[i])
               box == Box(slots[i], "frame", k)
    <2>1. /\ sink = "recv" /\ k < Frames(header.size, i) /\ accepter = "ok"
          /\ UNCHANGED <<vars, size, control, counter, header>>
      BY <1>5 DEF OpenFrame, Awaits
    <2>2. CASE Opens(box, header, i, k)
      <3>1. box.plain = <<SourceOf(slots[0]), i, "frame", k>>
        BY <2>1, <2>2 DEF Opens, Box, DeriveAeadKey, MakeNonce
      <3>2. opened' = [opened EXCEPT ![i] = Append(@, box.plain)] /\ sink' = sink
        BY <1>5, <2>2 DEF OpenFrame
      <3>3. k \in 0..CtrMax /\ k + 1 <= Frames(header.size, i)
        <4>1. k \in Nat /\ Frames(header.size, i) \in 0..CtrMax
          BY FramesBound
        <4> QED BY <2>1, <4>1, SealingAssumption
      <3>4. <<SourceOf(slots[0]), i, "frame", k>> \in Sources \X Streams \X {"frame"} \X (0..CtrMax)
        BY <3>3 DEF SourceOf, Sources
      <3> DEFINE T == Sources \X Streams \X {"frame"} \X (0..CtrMax)
      <3>40. /\ opened[i] \in Seq(T) /\ <<SourceOf(slots[0]), i, "frame", k>> \in T
             /\ \A j \in 1..k : opened[i][j] = <<SourceOf(slots[0]), i, "frame", j - 1>>
        BY <3>4
      <3> HIDE DEF box, T
      <3> DEFINE new == Append(opened[i], <<SourceOf(slots[0]), i, "frame", k>>)
      <3>50. /\ new \in Seq(T) /\ Len(new) = k + 1 /\ k \in Nat
             /\ \A j \in 1..k : new[j] = opened[i][j]
             /\ new[k + 1] = <<SourceOf(slots[0]), i, "frame", k>>
        BY <3>40
      <3>5. /\ new \in Seq(Sources \X Streams \X {"frame"} \X (0..CtrMax))
            /\ Len(new) = k + 1
            /\ \A j \in 1..Len(new) : new[j] = <<SourceOf(slots[0]), i, "frame", j - 1>>
        <4>1. \A j \in 1..(k + 1) : j = k + 1 \/ j \in 1..k
          BY <3>50
        <4>2. (k + 1) - 1 = k
          BY <3>50
        <4> QED BY <3>40, <3>50, <4>1, <4>2 DEF T
      <3>6. opened' = [opened EXCEPT ![i] = new]
        BY <3>1, <3>2
      <3> HIDE DEF new, k
      <3>7. /\ opened' \in [Streams -> Seq(Sources \X Streams \X {"frame"} \X (0..CtrMax))]
            /\ opened'[i] = new /\ \A j \in Streams \ {i} : opened'[j] = opened[j]
        BY <3>5, <3>6
      <3> QED BY <1>0, <2>1, <3>2, <3>3, <3>5, <3>7 DEF vars
    <2>3. CASE ~Opens(box, header, i, k)
      <3>1. sink' = "err" /\ opened' = opened
        BY <1>5, <2>3 DEF OpenFrame
      <3> QED BY <1>0, <2>1, <3>1 DEF vars
    <2> QED BY <2>2, <2>3
  <1>6. CASE Lost
    BY <1>0, <1>6 DEF Lost, Awaits, vars
  <1>7. CASE Received
    <2>1. \A i \in Streams : Len(opened[i]) = Frames(header.size, i)
      <3> TAKE i \in Streams
      <3>1. Frames(header.size, i) \in Nat /\ Len(opened[i]) \in Nat
        BY FramesBound
      <3> QED BY <1>7, <3>1 DEF Received, Awaits
    <2> QED BY <1>0, <1>7, <2>1 DEF Received, vars
  <1> QED BY <1>1, <1>2, <1>3, <1>4, <1>5, <1>6, <1>7 DEF SealingNext, Open, allVars, sealVars

LEMMA SealingAlways == SealingSpec => []SealingInv
  BY SealingInitInv, SealingStep, PTL DEF SealingSpec

\* Every variable of the handshake and of sealing keeps its type.
THEOREM SealingTypeCorrect == SealingSpec => []SealingTypeOK
  <1>1. SealingInv => SealingTypeOK
    <2> SUFFICES ASSUME SealingInv PROVE SealingTypeOK
      OBVIOUS
    <2>1. \A c \in Conns : counter[c] \in 0..CtrMax
      <3> TAKE c \in Conns
      <3>1. StreamOf(c) \in Streams => Frames(size[SourceOf(c)], StreamOf(c)) \in 0..CtrMax
        BY FramesBound DEF SealingInv, SourceOf, Sources
      <3> QED BY <3>1, SealingAssumption DEF SealingInv
    <2> QED BY <2>1 DEF SealingInv, SealingTypeOK, HandshakeInv
  <1> QED BY <1>1, SealingAlways, PTL

\* No nonce is used twice under a key, however many transfers share -k
\* (crypto.rs derive_aead_key, make_nonce; frames.rs send_range).
THEOREM SealingNonceOnce == SealingSpec => []NonceOnce
  <1>1. SealingInv => NonceOnce
    <2> SUFFICES ASSUME SealingInv, NEW c \in Conns, NEW d \in Conns,
                        NEW a \in Boxes(c), NEW b \in Boxes(d), a.key = b.key, a.nonce = b.nonce
                 PROVE  a = b
      BY DEF NonceOnce
    <2>1. ASSUME NEW e \in Conns, NEW box \in Boxes(e)
          PROVE  \/ \E k \in 0..(CtrMax - 1) : box = Box(e, "frame", k)
                 \/ box = Box(e, "control", CtrMax)
      <3>1. counter[e] \in Nat /\ counter[e] <= CtrMax
        <4>1. StreamOf(e) \in Streams => Frames(size[SourceOf(e)], StreamOf(e)) \in 0..CtrMax
          BY FramesBound DEF SealingInv, SourceOf, Sources
        <4> QED BY <4>1, SealingAssumption DEF SealingInv
      <3> QED BY <2>1, <3>1, SealingAssumption DEF Boxes
    <2>2. PICK wa \in {"frame", "control"}, ka \in 0..CtrMax :
             a = Box(c, wa, ka) /\ (wa = "control" <=> ka = CtrMax)
      BY <2>1, SealingAssumption
    <2>3. PICK wb \in {"frame", "control"}, kb \in 0..CtrMax :
             b = Box(d, wb, kb) /\ (wb = "control" <=> kb = CtrMax)
      BY <2>1, SealingAssumption
    <2>30. /\ DeriveAeadKey(SourceOf(c)) = DeriveAeadKey(SourceOf(d))
           /\ MakeNonce(StreamOf(c), ka) = MakeNonce(StreamOf(d), kb)
      BY <2>2, <2>3 DEF Box
    <2>4. SourceOf(c) = SourceOf(d) /\ StreamOf(c) = StreamOf(d) /\ ka = kb
      BY <2>30 DEF DeriveAeadKey, MakeNonce
    <2>5. wa = wb
      BY <2>2, <2>3, <2>4, SealingAssumption
    <2> HIDE DEF StreamOf, SourceOf
    <2> QED BY <2>2, <2>3, <2>4, <2>5 DEF Box
  <1> QED BY <1>1, SealingAlways, PTL

\* What a sink opens is one source's, in place, in order and in the end all of it
\* (engine.rs finish_sink, frames.rs recv_range).
THEOREM SealingOneSource == SealingSpec => []OneSource
  <1>1. SealingInv => OneSource
    <2>1. SealingInv => \A i \in Streams : DOMAIN opened[i] = 1..Len(opened[i])
      BY DEF SealingInv
    <2> QED BY <2>1 DEF SealingInv, OneSource
  <1> QED BY <1>1, SealingAlways, PTL
============================================================================
