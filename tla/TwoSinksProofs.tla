--------------------------- MODULE TwoSinksProofs --------------------------
(***************************************************************************)
(* Two fresh copies to one destination never mix, for every value of the   *)
(* constants.  The invariant of one sink (IInv of SinkProofs) says nothing *)
(* of the destination of a fresh transfer, so the other sink's steps keep  *)
(* it; what a sink puts at the destination is its verified temporary.      *)
(***************************************************************************)
EXTENDS TwoSinks, TLAPS

P1 == INSTANCE SinkProofs WITH
    temp <- temp1, fd <- fd1, alive <- alive1, main <- main1, hdr <- hdr1, th <- th1,
    off <- off1, abort <- abort1, joined <- joined1, got <- got1, attempt <- attempt1

P2 == INSTANCE SinkProofs WITH
    temp <- temp2, fd <- fd2, alive <- alive2, main <- main2, hdr <- hdr2, th <- th2,
    off <- off2, abort <- abort2, joined <- joined2, got <- got2, attempt <- attempt2

\* The sources of both send whole files.
FreshOnly == \A h \in Headers : h.resume = 0

\* Both with -c.
AllHashed == \A h \in Headers : h.check

\* The sinks of the model are those of the proofs: the same definitions, instantiated twice.
LEMMA SameSink1 ==
    (One!Init => P1!Init) /\ (One!Next => P1!Next) /\ (One!Fresh = P1!Fresh)
  BY DEF
    One!Control, P1!Control, One!ControlLost, P1!ControlLost, One!ReadControl, P1!ReadControl,
    One!Refuse, P1!Refuse, One!Accepts, P1!Accepts, One!HavePrefix, P1!HavePrefix, One!FileLen,
    P1!FileLen, One!Goto, P1!Goto, One!AtMain, P1!AtMain, One!files, P1!files, One!threads,
    P1!threads, One!Prepare, P1!Prepare, One!OpenWork, P1!OpenWork, One!DropTail, P1!DropTail,
    One!Extend, P1!Extend, One!SetupFails, P1!SetupFails, One!Resize, P1!Resize, One!SetLen,
    P1!SetLen, One!EmptyFile, P1!EmptyFile, One!Fresh, P1!Fresh, One!May, P1!May, One!Streams,
    P1!Streams, One!Start, P1!Start, One!RangeStart, P1!RangeStart, One!Joining, P1!Joining,
    One!JoinOk, P1!JoinOk, One!JoinErr, P1!JoinErr, One!JoinedAll, P1!JoinedAll, One!Finish,
    P1!Finish, One!Verify, P1!Verify, One!ApplyPreserve, P1!ApplyPreserve, One!Rename,
    P1!Rename, One!FinishFails, P1!FinishFails, One!Cleanup, P1!Cleanup, One!CleanupFails,
    P1!CleanupFails, One!Work, P1!Work, One!NoFile, P1!NoFile, One!Receiver, P1!Receiver,
    One!RecvDone, P1!RecvDone, One!RecvAborted, P1!RecvAborted, One!RecvCheck, P1!RecvCheck,
    One!Arrives, P1!Arrives, One!RecvFrame, P1!RecvFrame, One!RecvShortWrite,
    P1!RecvShortWrite, One!RecvFails, P1!RecvFails, One!Frames, P1!Frames, One!FrameLen,
    P1!FrameLen, One!Put, P1!Put, One!WriteAt, P1!WriteAt, One!Left, P1!Left, One!End, P1!End,
    One!RangeEnd, P1!RangeEnd, One!ThreadGoto, P1!ThreadGoto, One!AtThread, P1!AtThread,
    One!Next, P1!Next, One!Main, P1!Main, One!Exit, P1!Exit, One!Crash, P1!Crash, One!Rerun,
    P1!Rerun, One!NoHeader, P1!NoHeader, One!vars, P1!vars, One!Init, P1!Init

LEMMA Assumed1 == P1!SinkAssumption
  BY TwoSinksAssumption
  DEF One!SinkAssumption, One!HeaderType, One!FaultKinds, One!NoFile, One!Files,
      P1!SinkAssumption, P1!HeaderType, P1!FaultKinds, P1!NoFile, P1!Files

LEMMA SameSink2 ==
    (Two!Init => P2!Init) /\ (Two!Next => P2!Next) /\ (Two!Fresh = P2!Fresh)
  BY DEF
    Two!Control, P2!Control, Two!ControlLost, P2!ControlLost, Two!ReadControl, P2!ReadControl,
    Two!Refuse, P2!Refuse, Two!Accepts, P2!Accepts, Two!HavePrefix, P2!HavePrefix, Two!FileLen,
    P2!FileLen, Two!Goto, P2!Goto, Two!AtMain, P2!AtMain, Two!files, P2!files, Two!threads,
    P2!threads, Two!Prepare, P2!Prepare, Two!OpenWork, P2!OpenWork, Two!DropTail, P2!DropTail,
    Two!Extend, P2!Extend, Two!SetupFails, P2!SetupFails, Two!Resize, P2!Resize, Two!SetLen,
    P2!SetLen, Two!EmptyFile, P2!EmptyFile, Two!Fresh, P2!Fresh, Two!May, P2!May, Two!Streams,
    P2!Streams, Two!Start, P2!Start, Two!RangeStart, P2!RangeStart, Two!Joining, P2!Joining,
    Two!JoinOk, P2!JoinOk, Two!JoinErr, P2!JoinErr, Two!JoinedAll, P2!JoinedAll, Two!Finish,
    P2!Finish, Two!Verify, P2!Verify, Two!ApplyPreserve, P2!ApplyPreserve, Two!Rename,
    P2!Rename, Two!FinishFails, P2!FinishFails, Two!Cleanup, P2!Cleanup, Two!CleanupFails,
    P2!CleanupFails, Two!Work, P2!Work, Two!NoFile, P2!NoFile, Two!Receiver, P2!Receiver,
    Two!RecvDone, P2!RecvDone, Two!RecvAborted, P2!RecvAborted, Two!RecvCheck, P2!RecvCheck,
    Two!Arrives, P2!Arrives, Two!RecvFrame, P2!RecvFrame, Two!RecvShortWrite,
    P2!RecvShortWrite, Two!RecvFails, P2!RecvFails, Two!Frames, P2!Frames, Two!FrameLen,
    P2!FrameLen, Two!Put, P2!Put, Two!WriteAt, P2!WriteAt, Two!Left, P2!Left, Two!End, P2!End,
    Two!RangeEnd, P2!RangeEnd, Two!ThreadGoto, P2!ThreadGoto, Two!AtThread, P2!AtThread,
    Two!Next, P2!Next, Two!Main, P2!Main, Two!Exit, P2!Exit, Two!Crash, P2!Crash, Two!Rerun,
    P2!Rerun, Two!NoHeader, P2!NoHeader, Two!vars, P2!vars, Two!Init, P2!Init

LEMMA Assumed2 == P2!SinkAssumption
  BY TwoSinksAssumption
  DEF One!SinkAssumption, One!HeaderType, One!FaultKinds, One!NoFile, One!Files,
      P2!SinkAssumption, P2!HeaderType, P2!FaultKinds, P2!NoFile, P2!Files

----------------------------------------------------------------------------
\* Sink 1: its invariant, with a header its sources send.
Inv1 == P1!IInv /\ P1!HeaderKnown

LEMMA Inv1Init == One!Init => Inv1
  BY SameSink1, P1!IInvInit, Assumed1, ByteAssumption
  DEF P1!SinkAssumption, Inv1, P1!HeaderKnown, P1!Init

LEMMA Inv1Fresh == FreshOnly /\ Inv1 => P1!Fresh
  BY DEF FreshOnly, Inv1, P1!HeaderKnown, P1!NoHeader, P1!Fresh

\* Its own step keeps the invariant, and changes the destination by a rename only.
LEMMA Own1 ==
    ASSUME FreshOnly, Inv1, One!Next
    PROVE  /\ Inv1'
           /\ \/ dest' = dest
              \/ main1 = "rename" /\ main1' = "ok" /\ dest' = temp1
  <1>1. [P1!Next]_(P1!vars) /\ P1!IInv /\ P1!HeaderKnown
    BY SameSink1 DEF Inv1
  <1>2. [P1!Fed]_(P1!vars)
    BY <1>1, P1!NextIsFed, Assumed1, ByteAssumption DEF P1!SinkAssumption
  <1>3. P1!IInv'
    BY <1>1, <1>2, P1!IInvStep, Assumed1, ByteAssumption DEF P1!SinkAssumption
  <1>4. P1!HeaderKnown'
    BY <1>1, P1!HeaderKnownStep, Assumed1, ByteAssumption DEF P1!SinkAssumption
  <1>5. \/ dest' = dest
        \/ main1 = "rename" /\ main1' = "ok" /\ dest' = temp1
    BY <1>1, <1>2, Inv1Fresh, P1!DestSteps, Assumed1, ByteAssumption
    DEF P1!SinkAssumption, Inv1
  <1> QED BY <1>3, <1>4, <1>5 DEF Inv1

\* A step of the other changes only the destination and, when that is replaced, what a
\* descriptor of it names.
LEMMA Others1 ==
    ASSUME FreshOnly, Inv1, dest' \in P1!AnyFile, UNCHANGED state1,
           fd1' = fd1 \/ (fd1 = "dest" /\ fd1' = "gone")
    PROVE  Inv1'
  <1>1. UNCHANGED <<temp1, alive1, main1, hdr1, th1, off1, abort1, joined1, got1, attempt1>>
    BY DEF state1
  <1>2. P1!Fresh /\ P1!IInv /\ P1!HeaderKnown
    BY Inv1Fresh DEF Inv1
  <1>3. P1!SinkType'
    BY <1>1, <1>2 DEF P1!IInv, P1!SinkType, P1!HeaderType
  <1>4. P1!HeaderInv' /\ P1!FdInv'
    BY <1>1, <1>2 DEF P1!IInv, P1!HeaderInv, P1!FdInv, P1!Fresh, P1!Opened
  <1>5. P1!RangeInv' /\ P1!JoinInv'
    BY <1>1, <1>2 DEF P1!IInv, P1!RangeInv, P1!JoinInv, P1!Start, P1!End
  <1>6. P1!SizeInv' /\ P1!SumInv' /\ P1!MetaInv'
    BY <1>1, <1>2 DEF P1!IInv, P1!SizeInv, P1!SumInv, P1!MetaInv, P1!Work, P1!Fresh, P1!FileLen
  <1>7. P1!HeaderKnown'
    BY <1>1, <1>2 DEF P1!HeaderKnown
  <1> QED BY <1>3, <1>4, <1>5, <1>6, <1>7 DEF Inv1, P1!IInv

\* The temporary it renames is one of the announced files.
LEMMA Renamed1 ==
    ASSUME FreshOnly, AllHashed, Inv1, main1 = "rename"
    PROVE  Whole(temp1)
  <1>1. P1!Fresh /\ P1!Work = temp1 /\ hdr1 \in Headers /\ hdr1.check
    BY Inv1Fresh DEF Inv1, P1!Work, P1!HeaderKnown, AllHashed
  <1>2. P1!FileLen(temp1) = hdr1.size /\ Hash(temp1.bytes) = hdr1.sum
    BY <1>1 DEF Inv1, P1!IInv, P1!SizeInv, P1!SumInv, P1!Loaded
  <1> QED BY <1>1, <1>2 DEF Whole, FileLen, P1!FileLen

----------------------------------------------------------------------------
\* Sink 2: its invariant, with a header its sources send.
Inv2 == P2!IInv /\ P2!HeaderKnown

LEMMA Inv2Init == Two!Init => Inv2
  BY SameSink2, P2!IInvInit, Assumed2, ByteAssumption
  DEF P2!SinkAssumption, Inv2, P2!HeaderKnown, P2!Init

LEMMA Inv2Fresh == FreshOnly /\ Inv2 => P2!Fresh
  BY DEF FreshOnly, Inv2, P2!HeaderKnown, P2!NoHeader, P2!Fresh

\* Its own step keeps the invariant, and changes the destination by a rename only.
LEMMA Own2 ==
    ASSUME FreshOnly, Inv2, Two!Next
    PROVE  /\ Inv2'
           /\ \/ dest' = dest
              \/ main2 = "rename" /\ main2' = "ok" /\ dest' = temp2
  <1>1. [P2!Next]_(P2!vars) /\ P2!IInv /\ P2!HeaderKnown
    BY SameSink2 DEF Inv2
  <1>2. [P2!Fed]_(P2!vars)
    BY <1>1, P2!NextIsFed, Assumed2, ByteAssumption DEF P2!SinkAssumption
  <1>3. P2!IInv'
    BY <1>1, <1>2, P2!IInvStep, Assumed2, ByteAssumption DEF P2!SinkAssumption
  <1>4. P2!HeaderKnown'
    BY <1>1, P2!HeaderKnownStep, Assumed2, ByteAssumption DEF P2!SinkAssumption
  <1>5. \/ dest' = dest
        \/ main2 = "rename" /\ main2' = "ok" /\ dest' = temp2
    BY <1>1, <1>2, Inv2Fresh, P2!DestSteps, Assumed2, ByteAssumption
    DEF P2!SinkAssumption, Inv2
  <1> QED BY <1>3, <1>4, <1>5 DEF Inv2

\* A step of the other changes only the destination and, when that is replaced, what a
\* descriptor of it names.
LEMMA Others2 ==
    ASSUME FreshOnly, Inv2, dest' \in P2!AnyFile, UNCHANGED state2,
           fd2' = fd2 \/ (fd2 = "dest" /\ fd2' = "gone")
    PROVE  Inv2'
  <1>1. UNCHANGED <<temp2, alive2, main2, hdr2, th2, off2, abort2, joined2, got2, attempt2>>
    BY DEF state2
  <1>2. P2!Fresh /\ P2!IInv /\ P2!HeaderKnown
    BY Inv2Fresh DEF Inv2
  <1>3. P2!SinkType'
    BY <1>1, <1>2 DEF P2!IInv, P2!SinkType, P2!HeaderType
  <1>4. P2!HeaderInv' /\ P2!FdInv'
    BY <1>1, <1>2 DEF P2!IInv, P2!HeaderInv, P2!FdInv, P2!Fresh, P2!Opened
  <1>5. P2!RangeInv' /\ P2!JoinInv'
    BY <1>1, <1>2 DEF P2!IInv, P2!RangeInv, P2!JoinInv, P2!Start, P2!End
  <1>6. P2!SizeInv' /\ P2!SumInv' /\ P2!MetaInv'
    BY <1>1, <1>2 DEF P2!IInv, P2!SizeInv, P2!SumInv, P2!MetaInv, P2!Work, P2!Fresh, P2!FileLen
  <1>7. P2!HeaderKnown'
    BY <1>1, <1>2 DEF P2!HeaderKnown
  <1> QED BY <1>3, <1>4, <1>5, <1>6, <1>7 DEF Inv2, P2!IInv

\* The temporary it renames is one of the announced files.
LEMMA Renamed2 ==
    ASSUME FreshOnly, AllHashed, Inv2, main2 = "rename"
    PROVE  Whole(temp2)
  <1>1. P2!Fresh /\ P2!Work = temp2 /\ hdr2 \in Headers /\ hdr2.check
    BY Inv2Fresh DEF Inv2, P2!Work, P2!HeaderKnown, AllHashed
  <1>2. P2!FileLen(temp2) = hdr2.size /\ Hash(temp2.bytes) = hdr2.sum
    BY <1>1 DEF Inv2, P2!IInv, P2!SizeInv, P2!SumInv, P2!Loaded
  <1> QED BY <1>1, <1>2 DEF Whole, FileLen, P2!FileLen

----------------------------------------------------------------------------
LEMMA InvInit == Init => Inv1 /\ Inv2 /\ NeverMixed
  <1>1. Init => dest \in InitDests
    BY DEF Init, One!Init
  <1> QED BY <1>1, Inv1Init, Inv2Init DEF Init, NeverMixed

\* Both invariants are kept, whoever takes the step; who changes the destination renames.
LEMMA BothStep ==
    ASSUME FreshOnly, Inv1, Inv2, [Next]_vars
    PROVE  /\ Inv1' /\ Inv2'
           /\ \/ dest' = dest
              \/ main1 = "rename" /\ dest' = temp1
              \/ main2 = "rename" /\ main2' = "ok" /\ dest' = temp2
           /\ main1 = "ok" /\ dest' # dest => main2 = "rename" /\ main2' = "ok"
  <1>1. CASE Step1
    <2>1. One!Next /\ UNCHANGED state2 /\ (fd2' = fd2 \/ (fd2 = "dest" /\ fd2' = "gone"))
      BY <1>1 DEF Step1, Outlives
    <2>2. Inv1' /\ (dest' = dest \/ (main1 = "rename" /\ dest' = temp1))
      BY <2>1, Own1
    <2>3. dest' \in P2!AnyFile
      BY <2>2 DEF Inv1, P1!IInv, P1!SinkType, P1!AnyFile, P2!AnyFile, P1!Files, P2!Files,
                  P1!NoFile, P2!NoFile
    <2> QED BY <2>1, <2>2, <2>3, Others2
  <1>2. CASE Step2
    <2>1. Two!Next /\ UNCHANGED state1 /\ (fd1' = fd1 \/ (fd1 = "dest" /\ fd1' = "gone"))
      BY <1>2 DEF Step2, Outlives
    <2>2. Inv2' /\ (dest' = dest \/ (main2 = "rename" /\ main2' = "ok" /\ dest' = temp2))
      BY <2>1, Own2
    <2>3. dest' \in P1!AnyFile
      BY <2>2 DEF Inv2, P2!IInv, P2!SinkType, P1!AnyFile, P2!AnyFile, P1!Files, P2!Files,
                  P1!NoFile, P2!NoFile
    <2> QED BY <2>1, <2>2, <2>3, Others1
  <1>3. CASE UNCHANGED vars
    <2>1. UNCHANGED <<dest, state1, fd1, state2, fd2>>
      BY <1>3 DEF vars
    <2>2. dest \in P1!AnyFile /\ dest \in P2!AnyFile
      BY DEF Inv1, P1!IInv, P1!SinkType, Inv2, P2!IInv, P2!SinkType
    <2> QED BY <2>1, <2>2, Others1, Others2
  <1> QED BY <1>1, <1>2, <1>3 DEF Next

LEMMA MixedStep ==
    ASSUME FreshOnly, AllHashed, Inv1, Inv2, NeverMixed, [Next]_vars
    PROVE  NeverMixed'
  <1>1. dest' \in {dest, temp1, temp2} /\ (dest' = dest \/ Whole(dest'))
    BY BothStep, Renamed1, Renamed2
  <1>2. Whole(dest)' <=> Whole(dest')
    BY DEF Whole, FileLen
  <1> QED BY <1>1, <1>2 DEF NeverMixed

\* Two fresh copies with -c never mix: at every moment the destination is what was there
\* or one of the announced files, whole.
THEOREM CopiesNeverMix ==
    ASSUME FreshOnly, AllHashed
    PROVE  Spec => []NeverMixed
  <1>1. Inv1 /\ Inv2 /\ NeverMixed /\ [Next]_vars => (Inv1 /\ Inv2 /\ NeverMixed)'
    BY BothStep, MixedStep
  <1> QED BY <1>1, InvInit, PTL DEF Spec

\* With or without a hash, a copy that reported success is replaced only by the rename of
\* another that succeeds.
THEOREM SuccessIsKept ==
    ASSUME FreshOnly
    PROVE  Spec => KeptUntilReplaced
  <1>1. Inv1 /\ Inv2 /\ [Next]_vars => (Inv1 /\ Inv2)'
    BY BothStep
  <1>2. Inv1 /\ Inv2 /\ [Next]_vars
          => [main1 = "ok" /\ dest' # dest => main2 = "rename" /\ main2' = "ok"]_vars
    BY BothStep
  <1> QED BY <1>1, <1>2, InvInit, PTL DEF Spec, KeptUntilReplaced
============================================================================
