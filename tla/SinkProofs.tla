----------------------------- MODULE SinkProofs ----------------------------
(***************************************************************************)
(* Proofs about Sink, for every number of streams, chunk, header set and   *)
(* destination, whichever file operations fail and whenever the process    *)
(* is killed and run again; and that the sink keeps its promise.           *)
(***************************************************************************)
EXTENDS SinkPromise, RangesProofs, SequenceTheorems

----------------------------------------------------------------------------
\* What set_len and a positional write do to a file's length and to the bytes in
\* front of them.

AnyFile == Files \cup {NoFile}

\* A file's bytes are a sequence; its length is a number.
LEMMA FileBytes ==
    ASSUME NEW f \in AnyFile
    PROVE  /\ f.bytes \in Seq(Byte) /\ FileLen(f) \in Nat
           /\ \A p \in 1..FileLen(f) : f.bytes[p] \in Byte
  <1>1. f.bytes \in Seq(Byte)
    <2>1. CASE f = NoFile
      BY <2>1, EmptySeq DEF NoFile
    <2>2. CASE f \in Files
      BY <2>2 DEF Files
    <2> QED BY <2>1, <2>2 DEF AnyFile
  <1> QED BY <1>1 DEF FileLen

\* A function on 1..n is a sequence of length n.
LEMMA OfLength ==
    ASSUME NEW n \in Nat, NEW S, NEW s \in [1..n -> S]
    PROVE  s \in Seq(S) /\ Len(s) = n
  BY SeqDef

\* set_len gives the length asked for and keeps every byte before it.
LEMMA SetLenFacts ==
    ASSUME NEW f \in AnyFile, NEW n \in Nat
    PROVE  /\ SetLen(f, n) \in Files
           /\ FileLen(SetLen(f, n)) = n
           /\ \A k \in Nat : k <= n /\ k <= FileLen(f)
                               => Prefix(SetLen(f, n), k) = Prefix(f, k)
  <1> DEFINE e(p) == IF p <= FileLen(f) THEN f.bytes[p] ELSE Zero
             b == [p \in 1..n |-> e(p)]
  <1>1. \A p \in 1..n : e(p) \in Byte
    BY FileBytes, ByteAssumption
  <1>2. b \in [1..n -> Byte]
    BY <1>1
  <1> HIDE DEF e
  <1>3. b \in Seq(Byte) /\ Len(b) = n
    BY <1>2, OfLength
  <1>4. SetLen(f, n) = [bytes |-> b, meta |-> "own"]
    BY DEF SetLen, e
  <1>5. SetLen(f, n) \in Files /\ FileLen(SetLen(f, n)) = n
    BY <1>3, <1>4 DEF Files, FileLen
  <1>6. ASSUME NEW k \in Nat, k <= n, k <= FileLen(f)
        PROVE  Prefix(SetLen(f, n), k) = Prefix(f, k)
    <2>1. \A p \in 1..k : b[p] = f.bytes[p]
      BY <1>6, FileBytes DEF e
    <2> QED BY <1>4, <1>5, <1>6, <2>1 DEF Prefix
  <1> QED BY <1>5, <1>6

\* A write keeps every byte in front of it, and the length when it ends inside.
LEMMA WriteAtFacts ==
    ASSUME NEW f \in AnyFile, NEW o \in Nat, NEW d \in Seq(Byte)
    PROVE  /\ WriteAt(f, o, d) \in AnyFile
           /\ FileLen(WriteAt(f, o, d)) >= FileLen(f)
           /\ o + Len(d) <= FileLen(f) => FileLen(WriteAt(f, o, d)) = FileLen(f)
           /\ \A k \in Nat : k <= o /\ k <= FileLen(f)
                               => Prefix(WriteAt(f, o, d), k) = Prefix(f, k)
  <1>1. CASE d = <<>>
    <2>1. WriteAt(f, o, d) = f /\ Len(d) = 0
      BY <1>1 DEF WriteAt
    <2> QED BY <2>1, FileBytes
  <1>2. CASE d # <<>>
    <2> DEFINE end == o + Len(d)
               len == IF end > FileLen(f) THEN end ELSE FileLen(f)
               e(p) == IF o < p /\ p <= end THEN d[p - o]
                       ELSE IF p <= FileLen(f) THEN f.bytes[p] ELSE Zero
               b == [p \in 1..len |-> e(p)]
    <2>1. Len(d) \in Nat /\ end \in Nat /\ len \in Nat /\ FileLen(f) \in Nat
      BY FileBytes
    <2>2. \A p \in 1..len : e(p) \in Byte
      <3> SUFFICES ASSUME NEW p \in 1..len PROVE e(p) \in Byte
        OBVIOUS
      <3>1. CASE o < p /\ p <= end
        <4>1. p - o \in 1..Len(d)
          BY <2>1, <3>1
        <4> QED BY <3>1, <4>1
      <3>2. CASE ~(o < p /\ p <= end)
        BY <3>2, FileBytes, ByteAssumption
      <3> QED BY <3>1, <3>2
    <2>3. WriteAt(f, o, d) = [bytes |-> b, meta |-> "own"]
      BY <1>2 DEF WriteAt
    <2>4. b \in [1..len -> Byte]
      BY <2>2
    <2>5. \A p \in 1..len : b[p] = e(p)
      OBVIOUS
    <2> HIDE DEF b, e
    <2>6. b \in Seq(Byte) /\ Len(b) = len
      BY <2>1, <2>4, OfLength
    <2>7. WriteAt(f, o, d) \in AnyFile /\ FileLen(WriteAt(f, o, d)) = len
      BY <2>3, <2>6 DEF AnyFile, Files, FileLen
    <2>8. ASSUME NEW k \in Nat, k <= o, k <= FileLen(f)
          PROVE  Prefix(WriteAt(f, o, d), k) = Prefix(f, k)
      <3>1. \A p \in 1..k : b[p] = f.bytes[p]
        BY <2>1, <2>5, <2>8 DEF e
      <3>2. k <= len
        BY <2>1, <2>8
      <3> QED BY <2>3, <2>7, <2>8, <3>1, <3>2 DEF Prefix
    <2> QED BY <2>1, <2>7, <2>8
  <1> QED BY <1>1, <1>2

----------------------------------------------------------------------------

Starting == {"control", "open", "droptail", "extend"}
Opened == {"droptail", "extend", "join", "verify", "preserve", "rename"}
Loaded == {"join", "verify", "preserve", "rename"}
Joined == {"verify", "preserve", "rename", "ok"}

\* The types, of a header that any source may have sent.
SinkType ==
    /\ dest \in AnyFile /\ temp \in AnyFile
    /\ fd \in {"none", "temp", "dest", "gone"}
    /\ alive \in BOOLEAN
    /\ main \in MainStates
    /\ HeaderType(hdr)
    /\ th \in [Streams -> ThreadStates]
    /\ off \in [Streams -> Nat]
    /\ abort \in BOOLEAN
    /\ joined \in 0..N
    /\ got \in Nat
    /\ attempt \in Nat

\* The accepted header's prefix fits the payload, and the destination has it.
HeaderInv ==
    /\ hdr.resume <= hdr.size
    /\ main = "control" => hdr = NoHeader
    /\ ~Fresh => FileLen(dest) >= hdr.resume

\* The open file is the temporary of a fresh transfer until it is renamed.
FdInv ==
    /\ fd = "dest" => ~Fresh \/ main = "ok"
    /\ fd = "temp" => Fresh
    /\ main \in {"control", "open"} => fd = "none"
    /\ main \in Opened => fd = (IF Fresh THEN "temp" ELSE "dest")
    /\ main = "droptail" => ~Fresh

\* A receiver stays in its range, and ends well only at its end.
RangeInv ==
    /\ main \in Starting => \A i \in Streams : th[i] = "idle"
    /\ \A i \in Streams : th[i] # "idle" => Start(i) <= off[i] /\ off[i] <= End(i)
    /\ \A i \in Streams : th[i] = "ok" => off[i] = End(i)

\* Past the join every receiver has ended well.
JoinInv ==
    /\ main \in Starting => joined = 0
    /\ main = "join" => \A i \in Streams : i < joined => th[i] = "ok"
    /\ main \in Joined => \A i \in Streams : th[i] = "ok"

\* The work file has its full length as long as finish_sink has not failed, and
\* keeps what was verified and applied.
SizeInv == main \in Loaded => FileLen(Work) = hdr.size
SumInv == main \in {"preserve", "rename"} /\ hdr.check => Hash(Work.bytes) = hdr.sum
MetaInv == main = "rename" /\ hdr.preserve => Work.meta = "sent"

\* None of it speaks of the destination of a fresh transfer: another process may
\* change that.
IInv ==
    /\ SinkType
    /\ HeaderInv /\ FdInv /\ RangeInv /\ JoinInv /\ SizeInv /\ SumInv /\ MetaInv

----------------------------------------------------------------------------
\* The fields of the accepted header and the shape of the thread state.
LEMMA Basics ==
    ASSUME SinkType
    PROVE  /\ hdr.size \in Nat /\ hdr.resume \in Nat
           /\ hdr.check \in BOOLEAN /\ hdr.preserve \in BOOLEAN /\ hdr.crypt \in BOOLEAN
           /\ N \in Nat \ {0} /\ dest \in AnyFile /\ temp \in AnyFile
           /\ \A i \in Streams : off[i] \in Nat /\ th[i] \in ThreadStates
  BY SinkAssumption DEF SinkType, HeaderType

\* Every receiver's range lies between the prefix and the size.
LEMMA StreamRanges ==
    ASSUME SinkType, hdr.resume <= hdr.size, NEW i \in Streams
    PROVE  /\ Start(i) \in Nat /\ End(i) \in Nat
           /\ hdr.resume <= Start(i) /\ Start(i) <= End(i) /\ End(i) <= hdr.size
  <1> DEFINE s == hdr.size - hdr.resume
  <1>1. /\ s \in Nat /\ N \in Nat \ {0} /\ i \in Nat /\ i + 1 \in Nat /\ i + 1 <= N
        /\ i <= i + 1 /\ hdr.size \in Nat /\ hdr.resume \in Nat /\ N \in Nat
    BY Basics DEF Streams
  <1> HIDE DEF s
  <1>2. RangeStart(s, N, i) \in Nat /\ RangeStart(s, N, i + 1) \in Nat
    BY <1>1, RangeStartNat
  <1>3. RangeStart(s, N, i) <= RangeStart(s, N, i + 1)
    BY <1>1, RangeMonotone
  <1>4. RangeStart(s, N, i + 1) <= RangeStart(s, N, N) /\ RangeStart(s, N, N) = s
    BY <1>1, RangeMonotone, RangeBounds
  <1> QED BY <1>1, <1>2, <1>3, <1>4 DEF Start, End, RangeEnd, s

LEMMA IInvInit == Init => IInv
  <1> SUFFICES ASSUME Init PROVE IInv
    OBVIOUS
  <1>1. SinkType
    <2>1. dest \in AnyFile /\ temp \in AnyFile
      BY SinkAssumption DEF Init, AnyFile
    <2>2. fd \in {"none", "temp", "dest", "gone"} /\ main \in MainStates /\ alive \in BOOLEAN
          /\ HeaderType(hdr) /\ abort \in BOOLEAN /\ got \in Nat /\ attempt \in Nat
      BY DEF Init, MainStates, HeaderType, NoHeader
    <2>3. th \in [Streams -> ThreadStates] /\ off \in [Streams -> Nat] /\ joined \in 0..N
      BY SinkAssumption DEF Init, ThreadStates
    <2> QED BY <2>1, <2>2, <2>3 DEF SinkType
  <1>2. hdr = NoHeader /\ hdr.resume = 0 /\ hdr.size = 0 /\ main = "control" /\ fd = "none"
    BY DEF Init, NoHeader
  <1>3. HeaderInv /\ FdInv
    BY <1>2 DEF HeaderInv, FdInv, Fresh, Opened
  <1>4. \A i \in Streams : th[i] = "idle"
    BY DEF Init
  <1>5. RangeInv
    BY <1>4 DEF RangeInv
  <1>6. JoinInv /\ SizeInv /\ SumInv /\ MetaInv
    BY <1>2 DEF Init, JoinInv, SizeInv, SumInv, MetaInv, Loaded, Joined
  <1> QED BY <1>1, <1>3, <1>5, <1>6 DEF IInv

\* A failing main thread changes nothing but where it is.
LEMMA FailureStep ==
    ASSUME IInv, main # "ok", Goto("err") \/ Goto("cleanup")
    PROVE  IInv'
  <1>1. UNCHANGED <<dest, temp, fd, alive, hdr, th, off, abort, got, joined, attempt>>
    BY DEF Goto, files, threads
  <1>2. main' \in {"err", "cleanup"}
    BY DEF Goto
  <1>3. SinkType'
    BY <1>1, <1>2 DEF IInv, SinkType, MainStates
  <1>4. HeaderInv' /\ FdInv'
    BY <1>1, <1>2 DEF IInv, HeaderInv, FdInv, Fresh, Opened
  <1>5. RangeInv'
    BY <1>1, <1>2 DEF IInv, RangeInv, Starting, Start, End
  <1>6. JoinInv' /\ SizeInv' /\ SumInv' /\ MetaInv'
    BY <1>1, <1>2 DEF IInv, JoinInv, SizeInv, SumInv, MetaInv, Starting, Loaded, Joined
  <1> QED BY <1>3, <1>4, <1>5, <1>6 DEF IInv

LEMMA ControlStep ==
    ASSUME IInv, NEW h, HeaderType(h), ControlLost \/ ReadControl(h) \/ Refuse(h)
    PROVE  IInv'
  <1>1. CASE ControlLost
    BY <1>1, FailureStep DEF ControlLost, AtMain
  <1>2. CASE Refuse(h)
    BY <1>2, FailureStep DEF Refuse, AtMain
  <1>3. CASE ReadControl(h)
    <2>1. UNCHANGED <<dest, temp, fd, alive, th, off, abort, got, joined, attempt>>
      BY <1>3 DEF ReadControl, files, threads
    <2>2. /\ main = "control" /\ main' = "open" /\ hdr' = h /\ h.resume <= h.size
          /\ FileLen(dest) >= h.resume /\ hdr.resume = 0
      BY <1>3 DEF ReadControl, Accepts, HavePrefix, AtMain, IInv, HeaderInv, NoHeader
    <2>3. SinkType'
      BY <2>1, <2>2 DEF IInv, SinkType, MainStates, HeaderType
    <2>4. HeaderInv'
      BY <2>1, <2>2 DEF HeaderInv, FileLen
    <2>5. FdInv'
      BY <2>1, <2>2 DEF IInv, FdInv, Fresh, Opened
    <2>6. RangeInv' /\ JoinInv' /\ SizeInv' /\ SumInv' /\ MetaInv'
      BY <2>1, <2>2 DEF IInv, RangeInv, JoinInv, SizeInv, SumInv, MetaInv,
                        Starting, Loaded, Joined
    <2> QED BY <2>3, <2>4, <2>5, <2>6 DEF IInv
  <1> QED BY <1>1, <1>2, <1>3

\* Before the receivers start, the open file is the temporary or the destination
\* as the transfer is fresh or not.
LEMMA ResizeForm ==
    ASSUME IInv, main \in {"droptail", "extend"}, NEW n, Resize(n)
    PROVE  /\ fd' = fd
           /\ Fresh => dest' = dest /\ temp' = SetLen(temp, n)
           /\ ~Fresh => temp' = temp /\ dest' = SetLen(dest, n)
  BY DEF IInv, FdInv, Opened, Resize

LEMMA PrepareStep ==
    ASSUME IInv, Prepare
    PROVE  IInv'
  <1> USE DEF files, threads
  <1>1. CASE SetupFails
    BY <1>1, FailureStep DEF SetupFails, AtMain
  <1>2. CASE OpenWork
    <2>1. /\ UNCHANGED <<dest, alive, hdr, th, off, abort, got, joined, attempt>>
          /\ main = "open" /\ main' \in {"droptail", "extend"}
          /\ main' = "droptail" => ~Fresh
          /\ fd' = (IF Fresh THEN "temp" ELSE "dest")
          /\ temp' = (IF Fresh THEN EmptyFile ELSE temp)
      BY <1>2 DEF OpenWork, AtMain
    <2>2. temp' \in AnyFile
      BY <2>1, EmptySeq, Basics DEF IInv, AnyFile, EmptyFile, Files
    <2>3. SinkType'
      BY <2>1, <2>2 DEF IInv, SinkType, MainStates, AnyFile
    <2>4. HeaderInv' /\ FdInv'
      BY <2>1 DEF IInv, HeaderInv, FdInv, Fresh, Opened, FileLen
    <2>5. RangeInv'
      BY <2>1 DEF IInv, RangeInv, Starting
    <2>6. JoinInv' /\ SizeInv' /\ SumInv' /\ MetaInv'
      BY <2>1 DEF IInv, JoinInv, SizeInv, SumInv, MetaInv, Starting, Loaded, Joined
    <2> QED BY <2>3, <2>4, <2>5, <2>6 DEF IInv
  <1>3. CASE DropTail
    <2>1. /\ UNCHANGED <<temp, fd, alive, hdr, th, off, abort, got, joined, attempt>>
          /\ main = "droptail" /\ main' = "extend"
          /\ dest' = SetLen(dest, hdr.resume)
      BY <1>3, ResizeForm DEF DropTail, AtMain, IInv, FdInv
    <2>2. dest' \in Files /\ FileLen(dest') = hdr.resume /\ hdr.resume \in Nat
      BY <2>1, Basics, SetLenFacts DEF IInv
    <2>3. SinkType'
      BY <2>1, <2>2 DEF IInv, SinkType, MainStates, AnyFile
    <2>4. HeaderInv' /\ FdInv'
      BY <2>1, <2>2 DEF IInv, HeaderInv, FdInv, Fresh, Opened, FileLen
    <2>5. RangeInv'
      BY <2>1 DEF IInv, RangeInv, Starting
    <2>6. JoinInv' /\ SizeInv' /\ SumInv' /\ MetaInv'
      BY <2>1 DEF IInv, JoinInv, SizeInv, SumInv, MetaInv, Starting, Loaded, Joined
    <2> QED BY <2>3, <2>4, <2>5, <2>6 DEF IInv
  <1>4. CASE Extend
    <2>1. /\ UNCHANGED <<fd, alive, hdr, abort, joined, attempt>>
          /\ main = "extend" /\ main' = "join"
          /\ th' = [i \in Streams |-> "check"]
          /\ off' = [i \in Streams |-> Start(i)]
          /\ got' = hdr.resume
      BY <1>4, ResizeForm DEF Extend, AtMain
    <2>2. /\ Fresh => dest' = dest /\ temp' = SetLen(temp, hdr.size)
          /\ ~Fresh => temp' = temp /\ dest' = SetLen(dest, hdr.size)
      BY <1>4, ResizeForm DEF Extend, AtMain
    <2>3. hdr.size \in Nat /\ hdr.resume \in Nat /\ hdr.resume <= hdr.size
      BY Basics DEF IInv, HeaderInv
    <2>4. /\ SetLen(temp, hdr.size) \in Files /\ FileLen(SetLen(temp, hdr.size)) = hdr.size
          /\ SetLen(dest, hdr.size) \in Files /\ FileLen(SetLen(dest, hdr.size)) = hdr.size
      BY <2>3, Basics, SetLenFacts DEF IInv
    <2>5. \A i \in Streams : Start(i) \in Nat /\ Start(i) <= End(i) /\ End(i) \in Nat
      BY <2>3, StreamRanges DEF IInv
    <2>6. SinkType'
      <3>1. dest' \in AnyFile /\ temp' \in AnyFile
        BY <2>2, <2>4 DEF IInv, SinkType, AnyFile
      <3>2. th' \in [Streams -> ThreadStates] /\ off' \in [Streams -> Nat] /\ got' \in Nat
        BY <2>1, <2>3, <2>5 DEF ThreadStates
      <3> QED BY <2>1, <3>1, <3>2 DEF IInv, SinkType, MainStates
    <2>7. HeaderInv' /\ FdInv'
      BY <2>1, <2>2, <2>3, <2>4 DEF IInv, HeaderInv, FdInv, Fresh, Opened, FileLen
    <2>8. RangeInv'
      <3>1. \A i \in Streams : Start(i)' = Start(i) /\ End(i)' = End(i) /\ off'[i] = Start(i)
        BY <2>1 DEF Start, End
      <3> QED BY <2>1, <2>5, <3>1 DEF RangeInv, Starting
    <2>9. JoinInv'
      BY <2>1, SinkAssumption DEF IInv, JoinInv, Starting, Joined, Streams
    <2>10. SizeInv' /\ SumInv' /\ MetaInv'
      BY <2>1, <2>2, <2>4 DEF SizeInv, SumInv, MetaInv, Loaded, Work, Fresh, FileLen
    <2> QED BY <2>6, <2>7, <2>8, <2>9, <2>10 DEF IInv
  <1> QED BY <1>1, <1>2, <1>3, <1>4 DEF Prepare

\* Steps of one receiver that move it only.
LEMMA ReceiverMoves ==
    ASSUME IInv, NEW i \in Streams, th[i] \in {"check", "read"},
           NEW pc \in {"ok", "err", "read", "check"}, th' = [th EXCEPT ![i] = pc],
           UNCHANGED <<main, hdr, joined>>
    PROVE  /\ th' \in [Streams -> ThreadStates]
           /\ main \notin Joined /\ main \notin Starting
           /\ JoinInv'
  <1>1. th \in [Streams -> ThreadStates] /\ th[i] # "ok" /\ th[i] # "idle"
    BY DEF IInv, SinkType
  <1>2. main \notin Joined /\ main \notin Starting
    BY <1>1 DEF IInv, JoinInv, RangeInv
  <1>3. th' \in [Streams -> ThreadStates]
    BY <1>1 DEF ThreadStates
  <1>4. ASSUME main = "join", NEW j \in Streams, j < joined
        PROVE  th'[j] = "ok"
    BY <1>1, <1>4 DEF IInv, JoinInv
  <1> QED BY <1>2, <1>3, <1>4 DEF JoinInv

\* A write inside a receiver's range keeps the invariant.
LEMMA PutStep ==
    ASSUME IInv, NEW i \in Streams, th[i] = "read", NEW d \in Seq(Byte),
           off[i] + Len(d) <= End(i), Put(off[i], d), UNCHANGED <<main, hdr>>
    PROVE  /\ dest' \in AnyFile /\ temp' \in AnyFile
           /\ HeaderInv' /\ FdInv' /\ SizeInv' /\ SumInv' /\ MetaInv'
  <1>1. /\ hdr.size \in Nat /\ hdr.resume \in Nat /\ hdr.resume <= hdr.size
        /\ dest \in AnyFile /\ temp \in AnyFile /\ off[i] \in Nat /\ Len(d) \in Nat
    BY Basics DEF IInv, HeaderInv
  <1>2. off[i] + Len(d) <= hdr.size
    BY <1>1, StreamRanges DEF IInv
  <1>3. main \notin Joined /\ main \notin Starting
    BY DEF IInv, JoinInv, RangeInv
  <1>4. /\ fd' = fd
        /\ dest' = (IF fd = "dest" THEN WriteAt(dest, off[i], d) ELSE dest)
        /\ temp' = (IF fd = "temp" THEN WriteAt(temp, off[i], d) ELSE temp)
    BY DEF Put
  <1>5. /\ WriteAt(dest, off[i], d) \in AnyFile /\ WriteAt(temp, off[i], d) \in AnyFile
        /\ FileLen(WriteAt(dest, off[i], d)) >= FileLen(dest)
        /\ off[i] + Len(d) <= FileLen(dest) => FileLen(WriteAt(dest, off[i], d)) = FileLen(dest)
        /\ off[i] + Len(d) <= FileLen(temp) => FileLen(WriteAt(temp, off[i], d)) = FileLen(temp)
    BY <1>1, WriteAtFacts
  <1>6. FileLen(dest) \in Nat /\ FileLen(temp) \in Nat
    BY <1>1, FileBytes
  <1>7. dest' \in AnyFile /\ temp' \in AnyFile
    BY <1>1, <1>4, <1>5
  <1>8. FileLen(dest') \in Nat /\ FileLen(dest') >= FileLen(dest)
    BY <1>4, <1>5, <1>6, <1>7, FileBytes
  <1>9. HeaderInv' /\ FdInv'
    <2>1. FileLen(dest)' = FileLen(dest')
      BY DEF FileLen
    <2> QED BY <1>1, <1>3, <1>4, <1>6, <1>8, <2>1
            DEF IInv, HeaderInv, FdInv, Fresh, Opened, Joined, Starting
  <1>10. SizeInv'
    <2>1. CASE main \in Loaded /\ Fresh
      <3>1. FileLen(temp) = hdr.size /\ fd = "temp"
        BY <2>1 DEF IInv, SizeInv, FdInv, Work, Loaded, Opened
      <3>2. FileLen(temp') = hdr.size
        BY <1>2, <1>4, <1>5, <3>1
      <3> QED BY <1>3, <2>1, <3>2 DEF SizeInv, Work, Fresh, FileLen, Joined
    <2>2. CASE main \in Loaded /\ ~Fresh
      <3>1. FileLen(dest) = hdr.size /\ fd = "dest"
        BY <2>2 DEF IInv, SizeInv, FdInv, Work, Loaded, Opened
      <3>2. FileLen(dest') = hdr.size
        BY <1>2, <1>4, <1>5, <3>1
      <3> QED BY <1>3, <2>2, <3>2 DEF SizeInv, Work, Fresh, FileLen, Joined
    <2>3. CASE main \notin Loaded
      BY <1>3, <2>3 DEF SizeInv, Joined
    <2> QED BY <2>1, <2>2, <2>3
  <1>11. SumInv' /\ MetaInv'
    BY <1>3 DEF SumInv, MetaInv, Joined
  <1> QED BY <1>7, <1>9, <1>10, <1>11

\* A frame that fits what is left of a receiver's range.
LEMMA FrameFits ==
    ASSUME IInv, NEW i \in Streams, th[i] # "idle", NEW d \in Seq(Byte), FrameLen(i, Len(d))
    PROVE  off[i] + Len(d) <= End(i) /\ End(i) \in Nat /\ Start(i) \in Nat /\ off[i] \in Nat
           /\ Start(i) <= off[i]
  <1>1. off[i] \in Nat /\ Len(d) \in Nat
    BY Basics DEF IInv
  <1>2. End(i) \in Nat /\ Start(i) \in Nat
    BY StreamRanges DEF IInv, HeaderInv
  <1>3. Start(i) <= off[i] /\ off[i] <= End(i)
    BY DEF IInv, RangeInv
  <1>4. Len(d) <= Left(i)
    <2>1. CASE hdr.crypt
      BY <2>1 DEF FrameLen
    <2>2. CASE ~hdr.crypt
      BY <1>1, <1>2, <2>2, SinkAssumption DEF FrameLen, Left
    <2> QED BY <2>1, <2>2
  <1> QED BY <1>1, <1>2, <1>3, <1>4 DEF Left

LEMMA ThreadGotoStep ==
    ASSUME IInv, NEW i \in Streams, th[i] = "check",
           NEW pc \in {"ok", "err", "read"}, ThreadGoto(i, pc),
           pc = "ok" => off[i] = End(i)
    PROVE  IInv'
  <1>1. /\ UNCHANGED <<dest, temp, fd, alive, main, hdr, off, abort, joined, got, attempt>>
        /\ th' = [th EXCEPT ![i] = pc]
    BY DEF ThreadGoto, files
  <1>2. /\ th' \in [Streams -> ThreadStates] /\ main \notin Joined
        /\ main \notin Starting /\ JoinInv'
    BY <1>1, ReceiverMoves
  <1>3. SinkType'
    BY <1>1, <1>2 DEF IInv, SinkType
  <1>4. HeaderInv' /\ FdInv'
    BY <1>1 DEF IInv, HeaderInv, FdInv, Fresh, FileLen
  <1>5. RangeInv'
    <2>1. \A j \in Streams : /\ th'[j] # "idle" => th[j] # "idle"
                             /\ th'[j] = "ok" => off[j] = End(j)
      BY <1>1 DEF IInv, SinkType, RangeInv
    <2>2. \A j \in Streams : Start(j)' = Start(j) /\ End(j)' = End(j)
      BY <1>1 DEF Start, End
    <2> QED BY <1>1, <1>2, <2>1, <2>2 DEF IInv, RangeInv
  <1>6. SizeInv' /\ SumInv' /\ MetaInv'
    BY <1>1 DEF IInv, SizeInv, SumInv, MetaInv, Work, Fresh, FileLen
  <1> QED BY <1>2, <1>3, <1>4, <1>5, <1>6 DEF IInv

LEMMA FrameStep ==
    ASSUME IInv, NEW i \in Streams, NEW d \in Seq(Byte), RecvFrame(i, d)
    PROVE  IInv'
  <1>1. /\ UNCHANGED <<alive, main, hdr, abort, joined, attempt>>
        /\ th[i] = "read" /\ FrameLen(i, Len(d)) /\ Put(off[i], d)
        /\ off' = [off EXCEPT ![i] = off[i] + Len(d)] /\ got' = got + Len(d)
        /\ th' = [th EXCEPT ![i] = "check"]
    BY DEF RecvFrame, AtThread
  <1>2. /\ off[i] + Len(d) <= End(i) /\ End(i) \in Nat /\ Start(i) \in Nat
        /\ off[i] \in Nat /\ Start(i) <= off[i] /\ Len(d) \in Nat
    BY <1>1, FrameFits
  <1>3. /\ th' \in [Streams -> ThreadStates] /\ main \notin Joined
        /\ main \notin Starting /\ JoinInv'
    BY <1>1, ReceiverMoves
  <1>4. /\ dest' \in AnyFile /\ temp' \in AnyFile
        /\ HeaderInv' /\ FdInv' /\ SizeInv' /\ SumInv' /\ MetaInv'
    BY <1>1, <1>2, PutStep
  <1>5. SinkType'
    <2>1. off' \in [Streams -> Nat] /\ got' \in Nat
      BY <1>1, <1>2 DEF IInv, SinkType
    <2>2. fd' = fd
      BY <1>1 DEF Put
    <2> QED BY <1>1, <1>3, <1>4, <2>1, <2>2 DEF IInv, SinkType, AnyFile
  <1>6. RangeInv'
    <2>1. \A j \in Streams : Start(j)' = Start(j) /\ End(j)' = End(j)
      BY <1>1 DEF Start, End
    <2>2. ASSUME NEW j \in Streams, th'[j] # "idle"
          PROVE  /\ Start(j) <= off'[j] /\ off'[j] <= End(j)
                 /\ th'[j] = "ok" => off'[j] = End(j)
      <3>1. CASE j = i
        BY <1>1, <1>2, <3>1 DEF IInv, SinkType
      <3>2. CASE j # i
        BY <1>1, <2>2, <3>2 DEF IInv, SinkType, RangeInv
      <3> QED BY <3>1, <3>2
    <2>3. \A j \in Streams : th'[j] = "ok" => th'[j] # "idle"
      OBVIOUS
    <2> QED BY <1>1, <1>3, <2>1, <2>2, <2>3 DEF RangeInv
  <1> QED BY <1>3, <1>4, <1>5, <1>6 DEF IInv

\* A receiver fails, having written a part of its frame or nothing.
LEMMA FailedReceiverStep ==
    ASSUME IInv, NEW i \in Streams, th[i] = "read",
           NEW d \in Seq(Byte), off[i] + Len(d) <= End(i), Put(off[i], d),
           th' = [th EXCEPT ![i] = "err"], abort' = TRUE,
           UNCHANGED <<alive, main, hdr, off, joined, got, attempt>>
    PROVE  IInv'
  <1>1. /\ th' \in [Streams -> ThreadStates] /\ main \notin Joined
        /\ main \notin Starting /\ JoinInv'
    BY ReceiverMoves
  <1>2. /\ dest' \in AnyFile /\ temp' \in AnyFile
        /\ HeaderInv' /\ FdInv' /\ SizeInv' /\ SumInv' /\ MetaInv'
    BY PutStep
  <1>3. fd' = fd
    BY DEF Put
  <1>4. SinkType'
    BY <1>1, <1>2, <1>3 DEF IInv, SinkType, AnyFile
  <1>5. RangeInv'
    <2>1. \A j \in Streams : /\ th'[j] # "idle" => th[j] # "idle"
                             /\ th'[j] = "ok" => th[j] = "ok"
      BY DEF IInv, SinkType
    <2> QED BY <1>1, <2>1 DEF IInv, RangeInv, Start, End
  <1> QED BY <1>1, <1>2, <1>4, <1>5 DEF IInv

\* A part of a frame is a part of its bytes.
LEMMA FrontOfFrame ==
    ASSUME NEW d \in Seq(Byte), NEW m \in 0..(Len(d) - 1)
    PROVE  SubSeq(d, 1, m) \in Seq(Byte) /\ Len(SubSeq(d, 1, m)) = m
  <1>1. Len(d) \in Nat /\ m \in Nat /\ m < Len(d)
    OBVIOUS
  <1>2. \A p \in 1..m : d[p] \in Byte
    BY <1>1
  <1> QED BY <1>1, <1>2, SubSeqProperties

\* What a receiver may do, given any bytes.
RecvAny(i) ==
    \/ RecvDone(i) \/ RecvAborted(i) \/ RecvCheck(i) \/ RecvFails(i)
    \/ \E d \in Seq(Byte) :
          RecvFrame(i, d) \/ \E k \in 0..(Len(d) - 1) : RecvShortWrite(i, d, k)

LEMMA ReceiverStep ==
    ASSUME IInv, NEW i \in Streams, RecvAny(i)
    PROVE  IInv'
  <1>1. CASE RecvDone(i) \/ RecvAborted(i) \/ RecvCheck(i)
    <2>1. off[i] \in Nat
      BY Basics DEF IInv
    <2>2. End(i) \in Nat
      BY StreamRanges DEF IInv, HeaderInv
    <2>3. RecvDone(i) => off[i] = End(i)
      BY <2>1, <2>2 DEF RecvDone, Left
    <2> QED BY <1>1, <2>3, ThreadGotoStep DEF RecvDone, RecvAborted, RecvCheck, AtThread
  <1>2. CASE RecvFails(i)
    <2>1. /\ th[i] = "read" /\ th' = [th EXCEPT ![i] = "err"] /\ abort' = TRUE
          /\ UNCHANGED <<dest, temp, fd, alive, main, hdr, off, joined, got, attempt>>
      BY <1>2 DEF RecvFails, AtThread, files
    <2>2. <<>> \in Seq(Byte) /\ Len(<<>>) = 0
      BY EmptySeq
    <2>3. Put(off[i], <<>>)
      BY <2>1 DEF Put, WriteAt
    <2>4. off[i] + Len(<<>>) <= End(i)
      <3>1. off[i] \in Nat
        BY Basics DEF IInv
      <3>2. off[i] <= End(i)
        BY <2>1 DEF IInv, RangeInv
      <3> QED BY <2>2, <3>1, <3>2
    <2> QED BY <2>1, <2>2, <2>3, <2>4, FailedReceiverStep
  <1>3. ASSUME NEW d \in Seq(Byte), RecvFrame(i, d) PROVE IInv'
    BY <1>3, FrameStep
  <1>4. ASSUME NEW d \in Seq(Byte), NEW m \in 0..(Len(d) - 1), RecvShortWrite(i, d, m)
        PROVE  IInv'
    <2>1. /\ th[i] = "read" /\ FrameLen(i, Len(d)) /\ Put(off[i], SubSeq(d, 1, m))
          /\ th' = [th EXCEPT ![i] = "err"] /\ abort' = TRUE
          /\ UNCHANGED <<alive, main, hdr, off, joined, got, attempt>>
      BY <1>4 DEF RecvShortWrite, AtThread
    <2>2. /\ off[i] + Len(d) <= End(i) /\ End(i) \in Nat /\ off[i] \in Nat
          /\ Len(d) \in Nat /\ m \in Nat /\ m < Len(d)
      BY <2>1, FrameFits
    <2>3. SubSeq(d, 1, m) \in Seq(Byte) /\ Len(SubSeq(d, 1, m)) = m
      BY FrontOfFrame
    <2>4. off[i] + Len(SubSeq(d, 1, m)) <= End(i)
      BY <2>2, <2>3
    <2> QED BY <2>1, <2>3, <2>4, FailedReceiverStep
  <1> QED BY <1>1, <1>2, <1>3, <1>4 DEF RecvAny

LEMMA JoiningStep ==
    ASSUME IInv, Joining
    PROVE  IInv'
  <1>1. CASE JoinOk
    <2>1. /\ UNCHANGED <<dest, temp, fd, alive, main, hdr, th, off, abort, got, attempt>>
          /\ main = "join" /\ joined < N /\ th[joined] = "ok" /\ joined' = joined + 1
      BY <1>1 DEF JoinOk, AtMain, files, threads
    <2>2. joined \in Nat /\ joined' \in 0..N
      BY <2>1, SinkAssumption DEF IInv, SinkType
    <2>3. SinkType'
      BY <2>1, <2>2 DEF IInv, SinkType
    <2>4. HeaderInv' /\ FdInv'
      BY <2>1 DEF IInv, HeaderInv, FdInv, Fresh, FileLen
    <2>5. RangeInv'
      BY <2>1 DEF IInv, RangeInv, Start, End
    <2>6. JoinInv'
      <3>1. ASSUME NEW i \in Streams, i < joined'
            PROVE  th[i] = "ok"
        <4>1. i < joined \/ i = joined
          BY <2>1, <2>2, <3>1 DEF Streams
        <4> QED BY <2>1, <4>1 DEF IInv, JoinInv
      <3> QED BY <2>1, <3>1 DEF JoinInv, Starting, Joined
    <2>7. SizeInv' /\ SumInv' /\ MetaInv'
      BY <2>1 DEF IInv, SizeInv, SumInv, MetaInv, Work, Fresh, FileLen
    <2> QED BY <2>3, <2>4, <2>5, <2>6, <2>7 DEF IInv
  <1>2. CASE JoinErr
    BY <1>2, FailureStep DEF JoinErr, AtMain
  <1>3. CASE JoinedAll
    <2>1. /\ UNCHANGED <<dest, temp, fd, alive, hdr, th, off, abort, got, joined, attempt>>
          /\ main = "join" /\ joined = N /\ main' = "verify"
      BY <1>3 DEF JoinedAll, AtMain, Goto, files, threads
    <2>2. SinkType'
      BY <2>1 DEF IInv, SinkType, MainStates
    <2>3. HeaderInv' /\ FdInv'
      BY <2>1 DEF IInv, HeaderInv, FdInv, Fresh, Opened, FileLen
    <2>4. RangeInv'
      BY <2>1 DEF IInv, RangeInv, Starting, Start, End
    <2>5. JoinInv'
      <3>1. \A i \in Streams : i < joined
        BY <2>1, SinkAssumption DEF Streams
      <3> QED BY <2>1, <3>1 DEF IInv, JoinInv, Starting, Joined
    <2>6. SizeInv' /\ SumInv' /\ MetaInv'
      BY <2>1 DEF IInv, SizeInv, SumInv, MetaInv, Work, Fresh, FileLen, Loaded
    <2> QED BY <2>2, <2>3, <2>4, <2>5, <2>6 DEF IInv
  <1> QED BY <1>1, <1>2, <1>3 DEF Joining

\* The steps after the join leave the receivers alone, all of them done.
LEMMA AfterJoin ==
    ASSUME IInv, main \in {"verify", "preserve", "rename"},
           main' \in {"preserve", "rename", "ok"},
           UNCHANGED <<alive, hdr, th, off, abort, got, joined, attempt>>
    PROVE  RangeInv' /\ JoinInv'
  <1>1. RangeInv'
    BY DEF IInv, RangeInv, Starting, Start, End
  <1>2. JoinInv'
    BY DEF IInv, JoinInv, Starting, Joined
  <1> QED BY <1>1, <1>2

LEMMA FinishStep ==
    ASSUME IInv, Finish
    PROVE  IInv'
  <1>1. CASE FinishFails \/ CleanupFails
    BY <1>1, FailureStep DEF FinishFails, CleanupFails, AtMain
  <1>2. CASE Verify
    <2>1. CASE Goto("cleanup")
      BY <1>2, <2>1, FailureStep DEF Verify, AtMain
    <2>2. CASE ~(hdr.check /\ Hash(Work.bytes) # hdr.sum)
      <3>1. /\ UNCHANGED <<dest, temp, fd, alive, hdr, th, off, abort, got, joined, attempt>>
            /\ main = "verify" /\ main' = "preserve"
        BY <1>2, <2>2 DEF Verify, AtMain, Goto, files, threads
      <3>2. SinkType'
        BY <3>1 DEF IInv, SinkType, MainStates
      <3>3. HeaderInv' /\ FdInv'
        BY <3>1 DEF IInv, HeaderInv, FdInv, Fresh, Opened, FileLen
      <3>4. RangeInv' /\ JoinInv'
        BY <3>1, AfterJoin
      <3>5. SizeInv' /\ MetaInv'
        BY <3>1 DEF IInv, SizeInv, MetaInv, Work, Fresh, FileLen, Loaded
      <3>6. SumInv'
        BY <2>2, <3>1 DEF SumInv, Work, Fresh
      <3> QED BY <3>2, <3>3, <3>4, <3>5, <3>6 DEF IInv
    <2> QED BY <1>2, <2>1, <2>2 DEF Verify
  <1>3. CASE ApplyPreserve
    <2>1. /\ UNCHANGED <<fd, alive, hdr, th, off, abort, got, joined, attempt>>
          /\ main = "preserve" /\ main' = "rename"
      BY <1>3 DEF ApplyPreserve, AtMain, threads
    <2>2. /\ dest' = (IF hdr.preserve /\ ~Fresh THEN [dest EXCEPT !.meta = "sent"] ELSE dest)
          /\ temp' = (IF hdr.preserve /\ Fresh THEN [temp EXCEPT !.meta = "sent"] ELSE temp)
      BY <1>3 DEF ApplyPreserve
    <2>3. ASSUME NEW f \in AnyFile
          PROVE  LET g == [f EXCEPT !.meta = "sent"]
                 IN  g \in Files /\ g.bytes = f.bytes /\ g.meta = "sent"
      <3>1. f.bytes \in Seq(Byte)
        BY FileBytes
      <3>2. f = [bytes |-> f.bytes, meta |-> f.meta]
        BY DEF AnyFile, Files, NoFile
      <3>3. [f EXCEPT !.meta = "sent"] = [bytes |-> f.bytes, meta |-> "sent"]
        BY <3>2
      <3> QED BY <3>1, <3>3 DEF Files
    <2>4. dest \in AnyFile /\ temp \in AnyFile
      BY Basics DEF IInv
    <2>5. /\ dest' \in AnyFile /\ temp' \in AnyFile
          /\ dest'.bytes = dest.bytes /\ temp'.bytes = temp.bytes
          /\ hdr.preserve => (IF Fresh THEN temp' ELSE dest').meta = "sent"
      BY <2>2, <2>3, <2>4 DEF AnyFile
    <2>6. SinkType'
      BY <2>1, <2>5 DEF IInv, SinkType, MainStates, AnyFile
    <2>7. HeaderInv' /\ FdInv'
      BY <2>1, <2>5 DEF IInv, HeaderInv, FdInv, Fresh, Opened, FileLen
    <2>8. RangeInv' /\ JoinInv'
      BY <2>1, AfterJoin
    <2>9. SizeInv' /\ SumInv' /\ MetaInv'
      BY <2>1, <2>5 DEF IInv, SizeInv, SumInv, MetaInv, Work, Fresh, FileLen, Loaded
    <2> QED BY <2>6, <2>7, <2>8, <2>9 DEF IInv
  <1>4. CASE Rename
    <2>1. /\ UNCHANGED <<alive, hdr, th, off, abort, got, joined, attempt>>
          /\ main = "rename" /\ main' = "ok"
      BY <1>4 DEF Rename, AtMain, threads
    <2>2. /\ dest' = Work
          /\ temp' \in {temp, NoFile} /\ fd' = "dest"
      BY <1>4, <2>1 DEF Rename, files, Work, IInv, FdInv, Opened
    <2>3. SinkType'
      BY <2>1, <2>2 DEF IInv, SinkType, MainStates, Work, AnyFile
    <2>4. HeaderInv'
      BY <2>1, <2>2 DEF IInv, HeaderInv, Fresh, FileLen, Work
    <2>5. FdInv'
      BY <2>1, <2>2 DEF FdInv, Opened
    <2>6. RangeInv' /\ JoinInv'
      BY <2>1, AfterJoin
    <2>7. SizeInv' /\ SumInv' /\ MetaInv'
      BY <2>1, <2>2 DEF IInv, SizeInv, SumInv, MetaInv, FileLen, Loaded
    <2> QED BY <2>3, <2>4, <2>5, <2>6, <2>7 DEF IInv
  <1>5. CASE Cleanup
    <2>1. /\ UNCHANGED <<alive, hdr, th, off, abort, got, joined, attempt>>
          /\ main = "cleanup" /\ main' = "err"
      BY <1>5 DEF Cleanup, AtMain, threads
    <2>2. /\ Fresh => temp' = NoFile /\ fd' = "gone" /\ dest' = dest
          /\ ~Fresh => dest' = SetLen(dest, hdr.resume) /\ temp' = temp /\ fd' = fd
      BY <1>5 DEF Cleanup
    <2>3. /\ SetLen(dest, hdr.resume) \in Files /\ FileLen(SetLen(dest, hdr.resume)) = hdr.resume
          /\ hdr.resume \in Nat
      BY Basics, SetLenFacts DEF IInv
    <2>4. SinkType'
      BY <2>1, <2>2, <2>3 DEF IInv, SinkType, MainStates, AnyFile
    <2>5. HeaderInv'
      BY <2>1, <2>2, <2>3 DEF IInv, HeaderInv, Fresh, FileLen
    <2>6. FdInv'
      BY <2>1, <2>2 DEF IInv, FdInv, Fresh, Opened
    <2>7. RangeInv'
      BY <2>1 DEF IInv, RangeInv, Starting, Start, End
    <2>8. JoinInv' /\ SizeInv' /\ SumInv' /\ MetaInv'
      BY <2>1 DEF JoinInv, SizeInv, SumInv, MetaInv, Starting, Loaded, Joined
    <2> QED BY <2>4, <2>5, <2>6, <2>7, <2>8 DEF IInv
  <1> QED BY <1>1, <1>2, <1>3, <1>4, <1>5 DEF Finish

\* Ending, being killed and being run again.
LEMMA ProcessStep ==
    ASSUME IInv, Exit \/ Crash \/ Rerun
    PROVE  IInv'
  <1>1. CASE Exit \/ Crash
    <2>1. /\ UNCHANGED <<dest, temp, fd, main, hdr, th, off, abort, got, joined, attempt>>
          /\ alive' = FALSE
      BY <1>1 DEF Exit, Crash, files, threads
    <2>2. SinkType'
      BY <2>1 DEF IInv, SinkType
    <2>3. HeaderInv' /\ FdInv' /\ JoinInv'
      BY <2>1 DEF IInv, HeaderInv, FdInv, JoinInv, Fresh, FileLen
    <2>4. RangeInv'
      BY <2>1 DEF IInv, RangeInv, Start, End
    <2>5. SizeInv' /\ SumInv' /\ MetaInv'
      BY <2>1 DEF IInv, SizeInv, SumInv, MetaInv, Work, Fresh, FileLen
    <2> QED BY <2>2, <2>3, <2>4, <2>5 DEF IInv
  <1>2. CASE Rerun
    <2>1. /\ main' = "control" /\ hdr' = NoHeader /\ temp' = NoFile /\ fd' = "none"
          /\ th' = [i \in Streams |-> "idle"] /\ off' = [i \in Streams |-> 0]
          /\ abort' = FALSE /\ joined' = 0 /\ got' = 0 /\ dest' = dest
          /\ alive' = TRUE /\ attempt' = attempt + 1
      BY <1>2 DEF Rerun
    <2>2. hdr'.resume = 0 /\ hdr'.size = 0
      BY <2>1 DEF NoHeader
    <2>3. SinkType'
      <3>1. th' \in [Streams -> ThreadStates] /\ off' \in [Streams -> Nat]
        BY <2>1 DEF ThreadStates
      <3>2. joined' \in 0..N /\ attempt' \in Nat
        BY <2>1, SinkAssumption DEF IInv, SinkType
      <3>3. HeaderType(NoHeader)
        BY DEF HeaderType, NoHeader
      <3> QED BY <2>1, <3>1, <3>2, <3>3 DEF IInv, SinkType, MainStates, AnyFile, HeaderType
    <2>4. HeaderInv' /\ FdInv'
      BY <2>1, <2>2 DEF HeaderInv, FdInv, Fresh, Opened
    <2>5. RangeInv'
      BY <2>1 DEF RangeInv
    <2>6. JoinInv' /\ SizeInv' /\ SumInv' /\ MetaInv'
      BY <2>1 DEF JoinInv, SizeInv, SumInv, MetaInv, Loaded, Joined
    <2> QED BY <2>3, <2>4, <2>5, <2>6 DEF IInv
  <1> QED BY <1>1, <1>2

\* Every step, whatever header and bytes the streams deliver: Next feeds it what
\* Headers and Frames hold, Session what its source sends.
Fed ==
    \/ ControlLost \/ (\E h : HeaderType(h) /\ (ReadControl(h) \/ Refuse(h)))
    \/ Prepare \/ Joining \/ Finish
    \/ \E i \in Streams : RecvAny(i)
    \/ Exit \/ Crash \/ Rerun

LEMMA NextIsFed == [Next]_vars => [Fed]_vars
  <1>1. Control => Fed
    BY SinkAssumption DEF Control, Fed
  <1>2. ASSUME NEW i \in Streams, Arrives(i)
        PROVE  RecvAny(i)
    <2>1. PICK d \in Frames(i) :
             RecvFrame(i, d) \/ \E k \in 0..(Len(d) - 1) : RecvShortWrite(i, d, k)
      BY <1>2 DEF Arrives
    <2>2. PICK k \in 0..Chunk : d \in [1..k -> Byte]
      BY <2>1 DEF Frames
    <2>3. d \in Seq(Byte)
      BY <2>2, SeqDef, SinkAssumption
    <2> QED BY <2>1, <2>3 DEF RecvAny
  <1>3. ASSUME NEW i \in Streams, Receiver(i)
        PROVE  RecvAny(i)
    BY <1>2, <1>3 DEF Receiver, RecvAny
  <1> QED BY <1>1, <1>3 DEF Next, Main, Fed

LEMMA IInvStep == IInv /\ [Fed]_vars => IInv'
  <1> SUFFICES ASSUME IInv, [Fed]_vars PROVE IInv'
    OBVIOUS
  <1>1. CASE ControlLost
    <2>1. HeaderType(NoHeader)
      BY DEF HeaderType, NoHeader
    <2> QED BY <1>1, <2>1, ControlStep
  <1>2. ASSUME NEW h, HeaderType(h), ReadControl(h) \/ Refuse(h) PROVE IInv'
    BY <1>2, ControlStep
  <1>3. CASE Prepare \/ Joining \/ Finish
    BY <1>3, PrepareStep, JoiningStep, FinishStep
  <1>4. ASSUME NEW i \in Streams, RecvAny(i) PROVE IInv'
    BY <1>4, ReceiverStep
  <1>5. CASE Exit \/ Crash \/ Rerun
    BY <1>5, ProcessStep
  <1>6. CASE UNCHANGED vars
    <2>1. UNCHANGED <<dest, temp, fd, alive, main, hdr, th, off, abort, got, joined, attempt>>
      BY <1>6 DEF vars
    <2>2. SinkType' /\ HeaderInv' /\ FdInv' /\ JoinInv'
      BY <2>1 DEF IInv, SinkType, HeaderInv, FdInv, JoinInv, Fresh, FileLen
    <2>3. RangeInv'
      BY <2>1 DEF IInv, RangeInv, Start, End
    <2>4. SizeInv' /\ SumInv' /\ MetaInv'
      BY <2>1 DEF IInv, SizeInv, SumInv, MetaInv, Work, Fresh, FileLen
    <2> QED BY <2>2, <2>3, <2>4 DEF IInv
  <1> QED BY <1>1, <1>2, <1>3, <1>4, <1>5, <1>6 DEF Fed

LEMMA IInvAlways == Spec => []IInv
  BY IInvInit, IInvStep, NextIsFed, PTL DEF Spec

----------------------------------------------------------------------------
\* The accepted header is one a source sends.
HeaderKnown == hdr \in Headers \/ (hdr = NoHeader /\ main \in {"control", "err"})

LEMMA HeaderKnownStep == HeaderKnown /\ [Next]_vars => HeaderKnown'
  <1> SUFFICES ASSUME HeaderKnown, [Next]_vars PROVE HeaderKnown'
    OBVIOUS
  <1> USE DEF HeaderKnown, Goto, ThreadGoto, AtMain
  <1>1. CASE Control
    BY <1>1 DEF Control, ControlLost, ReadControl, Refuse
  <1>2. CASE Prepare \/ Joining
    BY <1>2 DEF Prepare, OpenWork, DropTail, Extend, SetupFails, Joining, JoinOk, JoinErr,
                JoinedAll
  <1>3. CASE Finish
    BY <1>3 DEF Finish, Verify, ApplyPreserve, Rename, FinishFails, Cleanup, CleanupFails
  <1>4. ASSUME NEW i \in Streams, Receiver(i) PROVE UNCHANGED <<main, hdr>>
    BY <1>4 DEF Receiver, RecvDone, RecvAborted, RecvCheck, Arrives, RecvFrame,
                RecvShortWrite, RecvFails
  <1>5. CASE Exit \/ Crash \/ Rerun \/ UNCHANGED vars
    BY <1>5 DEF Exit, Crash, Rerun, vars
  <1> QED BY <1>1, <1>2, <1>3, <1>4, <1>5 DEF Next, Main

\* Every variable keeps its type, in every run of the sink.
THEOREM SinkTypes == Spec => []TypeOK
  <1>1. Init => HeaderKnown
    BY DEF Init, HeaderKnown
  <1>2. IInv /\ HeaderKnown => TypeOK
    BY DEF IInv, SinkType, HeaderKnown, TypeOK, AnyFile
  <1> QED BY <1>1, <1>2, HeaderKnownStep, IInvAlways, PTL DEF Spec

\* The only steps that change the destination, and what they make of it.
LEMMA DestSteps ==
    ASSUME IInv, [Fed]_vars
    PROVE  \/ dest' = dest
           \/ /\ ~Fresh /\ main # "ok"
              /\ Prefix(dest', hdr.resume) = Prefix(dest, hdr.resume)
           \/ Fresh /\ main = "rename" /\ main' = "ok" /\ dest' = temp
  <1> DEFINE Goal == \/ dest' = dest
                     \/ /\ ~Fresh /\ main # "ok"
                        /\ Prefix(dest', hdr.resume) = Prefix(dest, hdr.resume)
                     \/ Fresh /\ main = "rename" /\ main' = "ok" /\ dest' = temp
  <1>1. /\ dest \in AnyFile /\ hdr.resume \in Nat /\ hdr.size \in Nat
        /\ hdr.resume <= hdr.size /\ FileLen(dest) \in Nat
        /\ ~Fresh => hdr.resume <= FileLen(dest)
    BY Basics, FileBytes DEF IInv, HeaderInv
  <1>2. ASSUME NEW n \in Nat, ~Fresh, hdr.resume <= n, dest' = SetLen(dest, n), main # "ok"
        PROVE  Goal
    BY <1>1, <1>2, SetLenFacts
  <1>3. ASSUME NEW h, ControlLost \/ ReadControl(h) \/ Refuse(h) PROVE Goal
    BY <1>3 DEF ControlLost, ReadControl, Refuse, Goto, files
  <1>4. CASE Prepare
    <2>1. CASE OpenWork \/ SetupFails
      BY <2>1 DEF OpenWork, SetupFails, Goto, files
    <2>2. CASE DropTail
      <3>1. ~Fresh /\ main = "droptail" /\ dest' = SetLen(dest, hdr.resume)
        BY <2>2, ResizeForm DEF DropTail, AtMain, IInv, FdInv
      <3> QED BY <1>1, <1>2, <3>1
    <2>3. CASE Extend
      <3>1. main = "extend" /\ (dest' = dest \/ (~Fresh /\ dest' = SetLen(dest, hdr.size)))
        BY <2>3, ResizeForm DEF Extend, AtMain
      <3> QED BY <1>1, <1>2, <3>1
    <2> QED BY <1>4, <2>1, <2>2, <2>3 DEF Prepare
  <1>5. CASE Joining
    BY <1>5 DEF Joining, JoinOk, JoinErr, JoinedAll, Goto, files
  <1>6. CASE Finish
    <2>1. CASE Verify \/ FinishFails \/ CleanupFails
      BY <2>1 DEF Verify, FinishFails, CleanupFails, Goto, files
    <2>2. CASE ApplyPreserve
      <3>1. main = "preserve"
        BY <2>2 DEF ApplyPreserve, AtMain
      <3>2. dest' = dest \/ (~Fresh /\ dest' = [dest EXCEPT !.meta = "sent"])
        BY <2>2 DEF ApplyPreserve
      <3>3. dest = [bytes |-> dest.bytes, meta |-> dest.meta]
        BY <1>1 DEF AnyFile, Files, NoFile
      <3>4. [dest EXCEPT !.meta = "sent"].bytes = dest.bytes
        BY <3>3
      <3> QED BY <3>1, <3>2, <3>4 DEF Prefix, FileLen
    <2>3. CASE Rename
      BY <2>3 DEF Rename, AtMain, files
    <2>4. CASE Cleanup
      <3>1. main = "cleanup" /\ (dest' = dest \/ (~Fresh /\ dest' = SetLen(dest, hdr.resume)))
        BY <2>4 DEF Cleanup, AtMain
      <3> QED BY <1>1, <1>2, <3>1
    <2> QED BY <1>6, <2>1, <2>2, <2>3, <2>4 DEF Finish
  <1>7. ASSUME NEW i \in Streams, RecvAny(i)
        PROVE  Goal
    <2>1. CASE RecvDone(i) \/ RecvAborted(i) \/ RecvCheck(i) \/ RecvFails(i)
      BY <2>1 DEF RecvDone, RecvAborted, RecvCheck, RecvFails, ThreadGoto, files
    <2>2. ASSUME th[i] = "read", NEW d \in Seq(Byte), Put(off[i], d)
          PROVE  Goal
      <3>1. main \notin Joined
        BY <2>2 DEF IInv, JoinInv
      <3>2. dest' = dest \/ (~Fresh /\ dest' = WriteAt(dest, off[i], d))
        BY <2>2, <3>1 DEF Put, IInv, FdInv, Joined
      <3>3. off[i] \in Nat /\ hdr.resume <= off[i]
        <4>1. Start(i) <= off[i] /\ off[i] \in Nat
          BY <2>2, Basics DEF IInv, RangeInv
        <4>2. Start(i) \in Nat /\ hdr.resume <= Start(i)
          BY <1>1, StreamRanges DEF IInv
        <4> QED BY <1>1, <4>1, <4>2
      <3> QED BY <1>1, <2>2, <3>1, <3>2, <3>3, WriteAtFacts DEF Joined
    <2>3. ASSUME NEW d \in Seq(Byte), RecvFrame(i, d) PROVE Goal
      BY <2>2, <2>3 DEF RecvFrame, AtThread
    <2>4. ASSUME NEW d \in Seq(Byte), NEW k \in 0..(Len(d) - 1), RecvShortWrite(i, d, k)
          PROVE  Goal
      <3>1. th[i] = "read" /\ Put(off[i], SubSeq(d, 1, k))
        BY <2>4 DEF RecvShortWrite, AtThread
      <3> QED BY <2>2, <3>1, FrontOfFrame
    <2> QED BY <1>7, <2>1, <2>3, <2>4 DEF RecvAny
  <1>8. CASE Exit \/ Crash \/ Rerun
    BY <1>8 DEF Exit, Crash, Rerun, files
  <1>9. CASE UNCHANGED vars
    BY <1>9 DEF vars
  <1> QED BY <1>3, <1>4, <1>5, <1>6, <1>7, <1>8, <1>9 DEF Fed

\* A sink comes to success only by its rename, and stays there until it is run again.
LEMMA OkSteps ==
    ASSUME [Fed]_vars, main' = "ok"
    PROVE  Rename \/ (main = "ok" /\ hdr' = hdr)
  <1> USE DEF Goto, ThreadGoto
  <1>1. ASSUME NEW h, ControlLost \/ ReadControl(h) \/ Refuse(h) PROVE FALSE
    BY <1>1 DEF ControlLost, ReadControl, Refuse
  <1>2. CASE Prepare \/ Joining
    BY <1>2 DEF Prepare, OpenWork, DropTail, Extend, SetupFails, Joining, JoinOk, JoinErr,
                JoinedAll, AtMain
  <1>3. CASE Finish
    BY <1>3 DEF Finish, Verify, ApplyPreserve, FinishFails, Cleanup, CleanupFails
  <1>4. ASSUME NEW i \in Streams, RecvAny(i) PROVE main' = main /\ hdr' = hdr
    BY <1>4 DEF RecvAny, RecvDone, RecvAborted, RecvCheck, RecvFrame, RecvShortWrite, RecvFails
  <1>5. CASE Exit \/ Crash \/ Rerun \/ UNCHANGED vars
    BY <1>5 DEF Exit, Crash, Rerun, vars
  <1> QED BY <1>1, <1>2, <1>3, <1>4, <1>5 DEF Fed

\* What success says of the destination, of a sink that has it to itself.
Settled ==
    main = "ok" => /\ FileLen(dest) = hdr.size
                   /\ hdr.check => Hash(dest.bytes) = hdr.sum
                   /\ hdr.preserve => dest.meta = "sent"

LEMMA RenameForm ==
    ASSUME IInv, Rename
    PROVE  /\ main = "rename" /\ main' = "ok" /\ hdr' = hdr /\ dest' = Work
           /\ FileLen(Work) = hdr.size
           /\ hdr.check => Hash(Work.bytes) = hdr.sum
           /\ hdr.preserve => Work.meta = "sent"
  <1>1. main = "rename" /\ main' = "ok" /\ hdr' = hdr /\ dest' = Work
    BY DEF Rename, AtMain, files, Work
  <1> QED BY <1>1 DEF IInv, SizeInv, SumInv, MetaInv, Loaded

LEMMA SettledStep == IInv /\ Settled /\ [Fed]_vars => Settled'
  <1> SUFFICES ASSUME IInv, Settled, [Fed]_vars, main' = "ok" PROVE Settled'
    BY DEF Settled
  <1>1. CASE Rename
    BY <1>1, RenameForm DEF Settled, FileLen
  <1>2. CASE main = "ok" /\ hdr' = hdr
    <2>1. dest' = dest
      BY <1>2, DestSteps
    <2> QED BY <1>2, <2>1 DEF Settled, FileLen
  <1> QED BY <1>1, <1>2, OkSteps

LEMMA SettledAlways == Spec => []Settled
  <1>1. Init => Settled
    BY DEF Init, Settled
  <1> QED BY <1>1, SettledStep, NextIsFed, IInvAlways, PTL DEF Spec

\* Success means the announced size and the announced hash, whatever an earlier
\* killed run left and whatever the trusted prefix held.
THEOREM SinkVerifies == Spec => []VerifiedDest
  <1>1. Settled => VerifiedDest
    BY DEF Settled, VerifiedDest
  <1> QED BY <1>1, SettledAlways, PTL

\* The shared counter: c[i] is the size less what the streams before i still
\* have to write.  The streams joined so far have nothing left.
Counts(c) ==
    /\ c \in [0..N -> Int]
    /\ c[joined] = hdr.size
    /\ \A i \in Streams : c[i + 1] = c[i] - Left(i)
    /\ got = c[N]

Counted ==
    /\ main \in Joined => joined = N
    /\ main \in Loaded \cup {"ok"} => \E c : Counts(c)

\* The receivers start: each has its whole range left.
LEMMA CountsStart ==
    ASSUME IInv, Extend
    PROVE  Counted'
  <1> DEFINE s == hdr.size - hdr.resume
             c == [i \in 0..N |-> hdr.size - RangeStart(s, N, i)]
  <1>1. /\ main' = "join" /\ joined' = 0 /\ hdr' = hdr /\ got' = hdr.resume
        /\ off' = [i \in Streams |-> Start(i)]
    BY DEF Extend, AtMain, IInv, JoinInv, Starting
  <1>2. /\ hdr.size \in Nat /\ hdr.resume \in Nat /\ s \in Nat /\ N \in Nat \ {0} /\ 0 \in 0..N
    BY Basics DEF IInv, HeaderInv
  <1>3. RangeStart(s, N, 0) = 0 /\ RangeStart(s, N, N) = s
    BY <1>2, RangeBounds
  <1>4. \A i \in 0..N : RangeStart(s, N, i) \in Nat
    BY <1>2, RangeStartNat
  <1> HIDE DEF s
  <1>5. c \in [0..N -> Int] /\ c[0] = hdr.size /\ c[N] = hdr.size - s
    BY <1>2, <1>3, <1>4
  <1>6. ASSUME NEW i \in Streams
        PROVE  c[i + 1] = c[i] - Left(i)'
    <2>1. /\ Left(i)' = RangeStart(s, N, i + 1) - RangeStart(s, N, i)
          /\ i \in 0..N /\ i + 1 \in 0..N
      <3>1. i \in 0..N /\ i + 1 \in 0..N
        BY <1>2 DEF Streams
      <3>2. off'[i] = hdr.resume + RangeStart(s, N, i)
        BY <1>1 DEF Start, s
      <3>3. End(i)' = hdr.resume + RangeStart(s, N, i + 1)
        BY <1>1 DEF End, RangeEnd, s
      <3> QED BY <1>2, <1>4, <3>1, <3>2, <3>3 DEF Left
    <2> QED BY <1>2, <1>4, <2>1
  <1>7. Counts(c)'
    BY <1>1, <1>2, <1>5, <1>6 DEF Counts, s
  <1> QED BY <1>1, <1>7 DEF Counted, Joined

\* One frame more is there for every stream after its own.
LEMMA CountsFrame ==
    ASSUME IInv, Counted, NEW i \in Streams, NEW d \in Seq(Byte), RecvFrame(i, d)
    PROVE  Counted'
  <1>1. /\ UNCHANGED <<main, hdr, joined>> /\ th[i] = "read"
        /\ off' = [off EXCEPT ![i] = off[i] + Len(d)] /\ got' = got + Len(d)
        /\ th' = [th EXCEPT ![i] = "check"]
    BY DEF RecvFrame, AtThread
  <1>2. main \notin Joined
    BY <1>1, ReceiverMoves
  <1>3. ASSUME main = "join"
        PROVE  \E c : Counts(c)'
    <2>1. PICK c : Counts(c)
      BY <1>3 DEF Counted, Loaded
    <2> DEFINE b == [j \in 0..N |-> IF j > i THEN c[j] + Len(d) ELSE c[j]]
    <2>2. /\ N \in Nat \ {0} /\ joined \in 0..N /\ Len(d) \in Nat /\ i \in 0..N /\ i + 1 \in 0..N
          /\ off \in [Streams -> Nat] /\ c \in [0..N -> Int] /\ got = c[N]
      BY <2>1, Basics DEF IInv, SinkType, Streams, Counts
    <2>3. ~(i < joined)
      BY <1>1, <1>3 DEF IInv, JoinInv
    <2>4. b \in [0..N -> Int] /\ b[joined] = hdr.size /\ b[N] = got + Len(d)
      <3>1. joined <= i /\ i < N /\ N \in 0..N
        BY <2>2, <2>3 DEF Streams
      <3>2. b[joined] = c[joined] /\ c[joined] = hdr.size
        BY <2>1, <2>2, <3>1 DEF Counts
      <3>3. b[N] = c[N] + Len(d)
        BY <3>1
      <3>4. b \in [0..N -> Int]
        BY <2>2
      <3> QED BY <2>2, <3>2, <3>3, <3>4
    <2>5. ASSUME NEW j \in Streams
          PROVE  b[j + 1] = b[j] - Left(j)'
      <3>1. /\ j \in 0..N /\ j + 1 \in 0..N /\ c[j + 1] = c[j] - Left(j)
            /\ Left(j) \in Int
        <4>1. End(j) \in Nat
          BY StreamRanges DEF IInv, HeaderInv
        <4> QED BY <2>1, <2>2, <4>1 DEF Streams, Left, Counts
      <3>2. Left(j)' = (IF j = i THEN Left(j) - Len(d) ELSE Left(j))
        <4>1. End(j)' = End(j) /\ End(j) \in Nat
          BY <1>1, StreamRanges DEF IInv, HeaderInv, End
        <4>2. off'[j] = (IF j = i THEN off[j] + Len(d) ELSE off[j]) /\ off[j] \in Nat
          BY <1>1, <2>2
        <4>3. Left(j)' = End(j) - off'[j] /\ Left(j) = End(j) - off[j]
          BY <4>1 DEF Left
        <4> QED BY <2>2, <4>1, <4>2, <4>3
      <3>3. i \in Int /\ j \in Int /\ Len(d) \in Nat /\ c[j] \in Int /\ c[j + 1] \in Int
        BY <2>2, <3>1 DEF Streams
      <3>4. CASE j < i
        <4>1. b[j] = c[j] /\ b[j + 1] = c[j + 1] /\ Left(j)' = Left(j)
          BY <3>1, <3>2, <3>3, <3>4
        <4> QED BY <3>1, <4>1
      <3>5. CASE j = i
        <4>1. b[j] = c[j] /\ b[j + 1] = c[j + 1] + Len(d) /\ Left(j)' = Left(j) - Len(d)
          BY <3>1, <3>2, <3>3, <3>5
        <4> HIDE DEF b
        <4> QED BY <3>1, <3>3, <4>1
      <3>6. CASE j > i
        <4>1. b[j] = c[j] + Len(d) /\ b[j + 1] = c[j + 1] + Len(d) /\ Left(j)' = Left(j)
          BY <3>1, <3>2, <3>3, <3>6
        <4> HIDE DEF b
        <4> QED BY <3>1, <3>3, <4>1
      <3> QED BY <3>3, <3>4, <3>5, <3>6
    <2> HIDE DEF b
    <2>6. Counts(b)'
      BY <1>1, <2>4, <2>5 DEF Counts
    <2> QED BY <2>6
  <1> QED BY <1>1, <1>2, <1>3 DEF Counted, Loaded, Joined

\* Steps that leave the counter and the offsets alone.
LEMMA CountsKept ==
    ASSUME UNCHANGED <<hdr, off, got>>, NEW c, Counts(c), joined' = joined
    PROVE  Counts(c)'
  BY DEF Counts, Left, End

LEMMA CountedStep == IInv /\ Counted /\ [Fed]_vars => Counted'
  <1> SUFFICES ASSUME IInv, Counted, [Fed]_vars PROVE Counted'
    OBVIOUS
  <1> USE DEF Goto, threads, AtMain
  <1>0. ASSUME UNCHANGED <<hdr, off, got, joined>>, main' \in Loaded \cup {"ok"} => main \in Loaded \cup {"ok"},
               main' \in Joined => main \in Joined \/ joined = N
        PROVE  Counted'
    BY <1>0, CountsKept DEF Counted
  <1>1. ASSUME NEW h, ControlLost \/ ReadControl(h) \/ Refuse(h) PROVE Counted'
    BY <1>1 DEF ControlLost, ReadControl, Refuse, Counted, Loaded, Joined
  <1>2. CASE Prepare
    <2>1. CASE OpenWork \/ DropTail \/ SetupFails
      BY <2>1 DEF OpenWork, DropTail, SetupFails, Counted, Loaded, Joined
    <2> QED BY <1>2, <2>1, CountsStart DEF Prepare
  <1>3. CASE Joining
    <2>1. CASE JoinOk
      <3>1. /\ UNCHANGED <<hdr, off, got, main>> /\ main = "join" /\ joined < N /\ th[joined] = "ok"
            /\ joined' = joined + 1
        BY <2>1 DEF JoinOk
      <3>2. joined \in Streams /\ hdr.size \in Nat
        BY <3>1, Basics DEF IInv, SinkType, Streams
      <3>3. Left(joined) = 0
        <4>1. off[joined] = End(joined) /\ off[joined] \in Nat
          BY <3>1, <3>2, Basics DEF IInv, RangeInv
        <4> QED BY <4>1 DEF Left
      <3>4. PICK c : Counts(c)
        BY <3>1 DEF Counted, Loaded
      <3>5. Counts(c)'
        BY <3>1, <3>2, <3>3, <3>4 DEF Counts, Left, End
      <3> QED BY <3>1, <3>5 DEF Counted, Joined
    <2>2. CASE JoinErr
      BY <2>2 DEF JoinErr, Counted, Loaded, Joined
    <2>3. CASE JoinedAll
      BY <1>0, <2>3 DEF JoinedAll, Loaded
    <2> QED BY <1>3, <2>1, <2>2, <2>3 DEF Joining
  <1>4. CASE Finish
    <2>1. CASE Cleanup \/ CleanupFails \/ FinishFails
      BY <2>1 DEF Cleanup, CleanupFails, FinishFails, Counted, Loaded, Joined
    <2>2. CASE Verify \/ ApplyPreserve \/ Rename
      <3>1. UNCHANGED <<hdr, off, got, joined>> /\ main \in {"verify", "preserve", "rename"}
        BY <2>2 DEF Verify, ApplyPreserve, Rename
      <3> QED BY <1>0, <3>1 DEF Loaded, Joined
    <2> QED BY <1>4, <2>1, <2>2 DEF Finish
  <1>5. ASSUME NEW i \in Streams, RecvAny(i) PROVE Counted'
    <2>1. ASSUME NEW d \in Seq(Byte), RecvFrame(i, d) PROVE Counted'
      BY <2>1, CountsFrame
    <2>2. CASE RecvDone(i) \/ RecvAborted(i) \/ RecvCheck(i) \/ RecvFails(i)
      BY <1>0, <2>2 DEF RecvDone, RecvAborted, RecvCheck, RecvFails, ThreadGoto
    <2>3. ASSUME NEW d \in Seq(Byte), NEW k \in 0..(Len(d) - 1), RecvShortWrite(i, d, k)
          PROVE  Counted'
      BY <1>0, <2>3 DEF RecvShortWrite
    <2> QED BY <1>5, <2>1, <2>2, <2>3 DEF RecvAny
  <1>6. CASE Exit \/ Crash \/ UNCHANGED vars
    BY <1>0, <1>6 DEF Exit, Crash, vars
  <1>7. CASE Rerun
    BY <1>7 DEF Rerun, Counted, Loaded, Joined
  <1> QED BY <1>1, <1>2, <1>3, <1>4, <1>5, <1>6, <1>7 DEF Fed

\* When the payload is complete the counter the receivers share has each byte once.
THEOREM SinkCountsOnce == Spec => []GotExact
  <1>1. Init => Counted
    BY DEF Init, Counted, Loaded, Joined
  <1>2. IInv /\ Counted => GotExact
    <2> SUFFICES ASSUME IInv, Counted, main \in Joined PROVE got = hdr.size
      BY DEF GotExact, Joined
    <2>1. joined = N /\ \E c : Counts(c)
      BY DEF Counted, Joined, Loaded
    <2> QED BY <2>1 DEF Counts
  <1> QED BY <1>1, <1>2, CountedStep, NextIsFed, IInvAlways, PTL DEF Spec

\* No failed receiver goes unreported.
THEOREM SinkReportsFailure == Spec => []FailureReported
  <1>1. IInv => FailureReported
    BY DEF IInv, JoinInv, Joined, FailureReported
  <1> QED BY <1>1, IInvAlways, PTL

\* The mode and mtime sent are those of the file at the end.
THEOREM SinkPreserves == Spec => []PreservedMeta
  <1>1. Settled => PreservedMeta
    BY DEF Settled, PreservedMeta
  <1> QED BY <1>1, SettledAlways, PTL

\* A resume keeps the bytes it trusts through every write, cleanup, crash and
\* late write of a detached receiver.
THEOREM SinkKeepsPrefix == Spec => PrefixTrusted
  <1>1. IInv /\ [Next]_vars
          => [~Fresh => Prefix(dest', hdr.resume) = Prefix(dest, hdr.resume)]_vars
    <2> SUFFICES ASSUME IInv, [Next]_vars, ~Fresh
                 PROVE  Prefix(dest', hdr.resume) = Prefix(dest, hdr.resume)
      OBVIOUS
    <2> QED BY DestSteps, NextIsFed
  <1> QED BY <1>1, IInvAlways, PTL DEF Spec, PrefixTrusted

\* The destination of a fresh transfer is changed only into the whole new file.
THEOREM SinkReplacesWhole == Spec => FreshReplacesWhole
  <1> DEFINE A == Fresh /\ dest' # dest =>
                    /\ FileLen(dest') = hdr.size
                    /\ hdr.check => Hash(dest'.bytes) = hdr.sum
                    /\ hdr.preserve => dest'.meta = "sent"
  <1>1. IInv /\ [Next]_vars => [A]_vars
    <2> SUFFICES ASSUME IInv, [Next]_vars, Fresh, dest' # dest PROVE A
      OBVIOUS
    <2>1. main = "rename" /\ dest' = temp
      BY DestSteps, NextIsFed
    <2> QED BY <2>1 DEF IInv, SizeInv, SumInv, MetaInv, Work, Loaded
  <1> QED BY <1>1, IInvAlways, PTL DEF Spec, FreshReplacesWhole

\* After success nothing of that run touches the destination again.
THEOREM SinkSettles == Spec => SettledAfterOk
  <1>1. IInv /\ [Next]_vars => [main = "ok" => dest' = dest]_vars
    <2> SUFFICES ASSUME IInv, [Next]_vars, main = "ok" PROVE dest' = dest
      OBVIOUS
    <2> QED BY DestSteps, NextIsFed
  <1> QED BY <1>1, IInvAlways, PTL DEF Spec, SettledAfterOk

\* The temporary exists only while finish_sink works on it.
TempInv ==
    /\ main \in {"control", "open", "ok", "err"} => temp = NoFile /\ fd # "temp"
    /\ ~Fresh => temp = NoFile

LEMMA TempInvStep ==
    ASSUME "setlen" \notin Faults, "remove" \notin Faults, IInv, TempInv, [Fed]_vars
    PROVE  TempInv'
  <1> USE DEF TempInv, Fresh, files, threads, AtMain
  <1>1. ASSUME NEW h, ControlLost \/ ReadControl(h) \/ Refuse(h)
        PROVE  TempInv'
    <2>1. UNCHANGED <<temp, fd>> /\ main = "control"
      BY <1>1 DEF ControlLost, Refuse, ReadControl, Goto
    <2> QED BY <1>1, <2>1 DEF ReadControl, Refuse, ControlLost, Goto
  <1>2. CASE Prepare
    <2>1. CASE OpenWork \/ Extend
      BY <2>1, ResizeForm DEF OpenWork, Extend
    <2>2. CASE DropTail
      BY <2>2, ResizeForm DEF DropTail
    <2>3. CASE SetupFails
      BY <2>3 DEF SetupFails, May, Goto
    <2> QED BY <1>2, <2>1, <2>2, <2>3 DEF Prepare
  <1>3. CASE Joining
    <2>1. UNCHANGED <<temp, fd, hdr>> /\ main' \in {"join", "cleanup", "verify"}
      BY <1>3 DEF Joining, JoinOk, JoinErr, JoinedAll, Goto
    <2> QED BY <2>1
  <1>4. CASE Finish
    <2>1. CASE Verify \/ FinishFails
      BY <2>1 DEF Verify, FinishFails, Goto
    <2>2. CASE CleanupFails
      BY <2>2 DEF CleanupFails, May
    <2>3. CASE ApplyPreserve
      BY <2>3 DEF ApplyPreserve
    <2>4. CASE Rename \/ Cleanup
      BY <2>4 DEF Rename, Cleanup, IInv, FdInv, Opened
    <2> QED BY <1>4, <2>1, <2>2, <2>3, <2>4 DEF Finish
  <1>5. ASSUME NEW i \in Streams, RecvAny(i)
        PROVE  TempInv'
    <2>1. CASE RecvDone(i) \/ RecvAborted(i) \/ RecvCheck(i) \/ RecvFails(i)
      BY <2>1 DEF RecvDone, RecvAborted, RecvCheck, RecvFails, ThreadGoto
    <2>2. ASSUME NEW d \in Seq(Byte),
                 RecvFrame(i, d) \/ \E k \in 0..(Len(d) - 1) : RecvShortWrite(i, d, k)
          PROVE  TempInv'
      <3>1. /\ UNCHANGED <<main, hdr, fd>>
            /\ fd # "temp" => temp' = temp
        BY <2>2 DEF RecvFrame, RecvShortWrite, Put
      <3> QED BY <3>1 DEF IInv, FdInv
    <2> QED BY <1>5, <2>1, <2>2 DEF RecvAny
  <1>6. CASE Exit \/ Crash \/ Rerun
    BY <1>6 DEF Exit, Crash, Rerun, NoHeader
  <1>7. CASE UNCHANGED vars
    BY <1>7 DEF vars
  <1> QED BY <1>1, <1>2, <1>3, <1>4, <1>5, <1>6, <1>7 DEF Fed

\* When set_len and the removal itself do not fail, every return of finish_sink,
\* on whichever path, has renamed or removed its temporary.
THEOREM SinkLeavesNoTemp ==
    ASSUME "setlen" \notin Faults, "remove" \notin Faults
    PROVE  Spec => []NoTempLeft
  <1>1. Init => TempInv
    BY DEF Init, TempInv, Fresh, NoHeader
  <1>2. IInv /\ TempInv /\ [Next]_vars => TempInv'
    BY TempInvStep, NextIsFed
  <1>3. TempInv => NoTempLeft
    BY DEF TempInv, NoTempLeft
  <1> QED BY <1>1, <1>2, <1>3, IInvAlways, PTL DEF Spec

----------------------------------------------------------------------------
\* The refinement of CopyPromise.

LEMMA PromiseInit == Init => Promise!Init
  BY DEF Init, Promise!Init, Status, NoHeader

\* The promise's own copies of the operators on files are the sink's.
LEMMA SameOperators ==
    /\ \A f : Promise!FileLen(f) = FileLen(f)
    /\ \A f, n : Promise!Prefix(f, n) = Prefix(f, n)
  BY DEF Promise!FileLen, FileLen, Promise!Prefix, Prefix

LEMMA PromiseStep == IInv /\ [Next]_vars => [Promise!Next]_(Promise!pvars)
  <1> SUFFICES ASSUME IInv, [Next]_vars
               PROVE  Promise!Next \/ UNCHANGED <<dest, hdr, Status>>
    BY DEF Promise!pvars
  <1> USE DEF AtMain, files, threads, Goto
  <1>0. \/ dest' = dest
        \/ /\ ~Fresh /\ main # "ok"
           /\ Prefix(dest', hdr.resume) = Prefix(dest, hdr.resume)
        \/ Fresh /\ main = "rename" /\ main' = "ok" /\ dest' = temp
    BY DestSteps, NextIsFed
  <1>1. CASE Control
    <2>1. CASE ControlLost
      BY <2>1 DEF ControlLost, Status, Promise!Next, Promise!Refuse
    <2>2. ASSUME NEW h \in Headers, Refuse(h)
          PROVE  Promise!Next
      BY <2>2 DEF Refuse, Status, Promise!Next, Promise!Refuse
    <2>3. ASSUME NEW h \in Headers, ReadControl(h)
          PROVE  Promise!Next
      <3>1. h.resume <= FileLen(dest)
        <4>1. FileLen(dest) \in Nat /\ h.resume \in Nat
          BY Basics, FileBytes, SinkAssumption DEF IInv, HeaderType
        <4> QED BY <2>3, <4>1 DEF ReadControl, HavePrefix
      <3> QED BY <2>3, <3>1, SameOperators DEF ReadControl, Status, Promise!Next, Promise!Begin
    <2> QED BY <1>1, <2>1, <2>2, <2>3 DEF Control
  \* Steps within finish_sink that do not end it.
  <1>2. ASSUME alive, alive', hdr' = hdr, main \notin {"control", "ok"}, main' \notin {"control", "ok"},
               main = "err" <=> main' = "err", main # "rename"
        PROVE  Promise!Next \/ UNCHANGED <<dest, hdr, Status>>
    <2>1. Status' = Status /\ Status \in {"busy", "failed"}
      BY <1>2 DEF Status
    <2>2. CASE dest' = dest
      BY <1>2, <2>1, <2>2
    <2>3. CASE dest' # dest
      <3>1. Prefix(dest', hdr.resume) = Prefix(dest, hdr.resume) /\ hdr.resume # 0
        BY <1>0, <1>2, <2>3 DEF Fresh
      <3> QED BY <1>2, <2>1, <3>1, SameOperators
              DEF Promise!Next, Promise!Scribble, Promise!Resuming, Promise!KeepsPrefix
    <2> QED BY <2>2, <2>3
  \* Steps that end it in failure.
  <1>3. ASSUME alive, alive', hdr' = hdr, main \notin {"control", "ok", "err", "rename"}, main' = "err"
        PROVE  Promise!Next
    <2>1. Status = "busy" /\ Status' = "failed"
      BY <1>3 DEF Status
    <2>2. IF hdr.resume # 0 THEN Prefix(dest', hdr.resume) = Prefix(dest, hdr.resume)
          ELSE dest' = dest
      BY <1>0, <1>3 DEF Fresh
    <2> QED BY <1>3, <2>1, <2>2, SameOperators
            DEF Promise!Next, Promise!Fail, Promise!Resuming, Promise!KeepsPrefix
  <1>4. CASE Prepare
    <2>1. CASE SetupFails
      BY <1>3, <2>1 DEF SetupFails
    <2>2. CASE OpenWork \/ DropTail \/ Extend
      BY <1>2, <2>2 DEF OpenWork, DropTail, Extend
    <2> QED BY <1>4, <2>1, <2>2 DEF Prepare
  <1>5. CASE Joining
    BY <1>2, <1>5 DEF Joining, JoinOk, JoinErr, JoinedAll
  <1>6. CASE Finish
    <2>1. CASE Verify \/ ApplyPreserve
      BY <1>2, <2>1 DEF Verify, ApplyPreserve
    <2>2. CASE FinishFails
      <3>1. Status' = Status /\ dest' = dest /\ hdr' = hdr
        BY <2>2 DEF FinishFails, Status
      <3> QED BY <3>1
    <2>3. CASE Cleanup \/ CleanupFails
      BY <1>3, <2>3 DEF Cleanup, CleanupFails
    <2>4. CASE Rename
      <3>1. Status = "busy" /\ Status' = "ok" /\ hdr' = hdr /\ main = "rename"
        BY <2>4 DEF Rename, Status
      <3>2. dest' = Work /\ (hdr.resume # 0 => dest' = dest)
        BY <2>4 DEF Rename, Work, Fresh
      <3>3. /\ FileLen(dest') = hdr.size
            /\ hdr.check => Hash(dest'.bytes) = hdr.sum
            /\ hdr.preserve => dest'.meta = "sent"
        BY <3>1, <3>2 DEF IInv, SizeInv, SumInv, MetaInv, Loaded
      <3> QED BY <3>1, <3>2, <3>3, SameOperators
              DEF Promise!Next, Promise!Succeed, Promise!Announced, Promise!Resuming
    <2> QED BY <1>6, <2>1, <2>2, <2>3, <2>4 DEF Finish
  <1>7. ASSUME NEW i \in Streams, Receiver(i)
        PROVE  Promise!Next \/ UNCHANGED <<dest, hdr, Status>>
    <2>1. alive /\ alive' /\ hdr' = hdr /\ main' = main /\ th[i] \in {"check", "read"}
      BY <1>7 DEF Receiver, RecvDone, RecvAborted, RecvCheck, Arrives, RecvFrame,
                  RecvShortWrite, RecvFails, ThreadGoto, AtThread
    <2>2. main \notin {"control", "ok", "rename"}
      BY <2>1 DEF IInv, RangeInv, JoinInv, Starting, Joined
    <2> QED BY <1>2, <2>1, <2>2
  <1>8. CASE Exit \/ Crash
    BY <1>8 DEF Exit, Crash, Status, Promise!Next, Promise!Die
  <1>9. CASE Rerun
    BY <1>9 DEF Rerun, Status, NoHeader, Promise!Next, Promise!Again
  <1>10. CASE UNCHANGED vars
    BY <1>10 DEF vars, Status
  <1> QED BY <1>1, <1>4, <1>5, <1>6, <1>7, <1>8, <1>9, <1>10 DEF Next, Main

\* finish_sink with its threads, temporaries, cleanups, kills and new runs does
\* no more to the destination than the promise allows.
THEOREM SinkKeepsPromise == Spec => KeepsPromise
  <1> QED BY PromiseInit, PromiseStep, IInvAlways, PTL DEF Spec, KeepsPromise, Promise!Spec
============================================================================
