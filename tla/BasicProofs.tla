---------------------------- MODULE BasicProofs -----------------------------
(***************************************************************************)
(* The safety properties of the two components that use no other:          *)
(* ByteStreamSpec, for every capacity, every length of the stream and      *)
(* every size of push and pop, and WrappingIntegersSpec, for every width   *)
(* of the sequence numbers, every isn and every checkpoint.                *)
(***************************************************************************)
EXTENDS ByteStreamSpec, WrappingIntegersSpec, OperatorLemmas

\* The inductive invariant: the stream is intact, and the bytes delivered are
\* the ones before it.
IInv == /\ Intact(s)
        /\ s.capacity_ = Capacity
        /\ delivered \in Seq(Byte)
        /\ Contiguous(delivered, 0)
        /\ Len(delivered) = s.bytes_read

(* The invariant says all that the three state properties claim. *)
LEMMA IInvImplies == IInv => TypeOK /\ StreamIntegrity /\ CountersAgree
<1> SUFFICES ASSUME IInv PROVE TypeOK /\ StreamIntegrity /\ CountersAgree
  OBVIOUS
<1>1. /\ s \in StreamStates /\ s.stream \in Seq(Byte)
      /\ s.bytes_read \in Nat /\ s.bytes_write \in Nat /\ s.capacity_ \in Nat
      /\ s.bytes_write = s.bytes_read + Len(s.stream)
      /\ Len(s.stream) <= s.capacity_
  BY DEF IInv, Intact, StreamStates
<1>2. Len(s.stream) \in Nat
  BY <1>1, LenProperties
<1>3. TypeOK
  BY <1>1, <1>2 DEF IInv, StreamStates, TypeOK, AvailableCapacity
<1>4. StreamIntegrity
  BY <1>1 DEF IInv, Intact, StreamStates, StreamIntegrity
<1>5. CountersAgree
  BY <1>1, <1>2 DEF IInv, StreamStates, CountersAgree, BytesBuffered, BytesPopped
<1>6. QED
  BY <1>3, <1>4, <1>5

LEMMA InitIInv == Init => IInv
<1> SUFFICES ASSUME Init PROVE IInv
  OBVIOUS
<1>1. Intact(s)
  BY CapacityAssumption, NewIntact DEF Init
<1>2. s.capacity_ = Capacity /\ s.bytes_read = 0
  BY DEF Init, NewByteStream
<1>3. delivered \in Seq(Byte) /\ Len(delivered) = 0 /\ Contiguous(delivered, 0)
  BY DEF Init, Contiguous
<1>4. QED
  BY <1>1, <1>2, <1>3 DEF IInv

LEMMA StepIInv == IInv /\ [Next]_vars => IInv'
<1> SUFFICES ASSUME IInv, [Next]_vars PROVE IInv'
  OBVIOUS
<1>0. /\ s.bytes_write \in Nat /\ s.bytes_read \in Nat
      /\ s.stream \in Seq(Byte) /\ Len(delivered) \in Nat
      /\ Contiguous(s.stream, s.bytes_read) /\ Intact(s)
      /\ s.bytes_read = 0 + Len(delivered)
  BY LenProperties DEF IInv, Intact, StreamStates
<1>1. ASSUME NEW n \in 0..MaxPush, WriterPush(n) PROVE IInv'
  <2>1. n \in Nat
    BY <1>1, MaxPushAssumption
  <2>2. /\ BytesFrom(s.bytes_write, n) \in Seq(Byte)
        /\ Contiguous(BytesFrom(s.bytes_write, n), s.bytes_write)
    BY <1>0, <2>1, BytesFromProperties
  <2>3. s' = Push(s, BytesFrom(s.bytes_write, n)) /\ delivered' = delivered
    BY <1>1 DEF WriterPush, BytesPushed
  <2>4. QED
    BY <1>0, <2>2, <2>3, PushIntact DEF IInv
<1>2. CASE WriterClose
  BY <1>0, <1>2, CloseIntact DEF IInv, WriterClose
<1>3. ASSUME NEW n \in 1..MaxPush, ReaderRead(n) PROVE IInv'
  <2>1. n \in Nat
    BY <1>3, MaxPushAssumption
  <2>2. /\ Intact(s') /\ s'.bytes_read = s.bytes_read + Len(ReadOut(s, n))
        /\ s'.capacity_ = s.capacity_
        /\ ReadOut(s, n) \in Seq(Byte)
        /\ Contiguous(ReadOut(s, n), s.bytes_read)
    BY <1>0, <1>3, <2>1, ReadIntact DEF ReaderRead
  <2>3. delivered' = delivered \o ReadOut(s, n)
    BY <1>3 DEF ReaderRead
  <2>4. /\ delivered' \in Seq(Byte) /\ Contiguous(delivered', 0)
        /\ Len(delivered') = Len(delivered) + Len(ReadOut(s, n))
    <3>1. Contiguous(ReadOut(s, n), 0 + Len(delivered)) /\ 0 \in Nat
      BY <1>0, <2>2
    <3>2. QED
      BY <2>2, <2>3, <3>1, ConcatContiguous DEF IInv
  <2>5. QED
    BY <2>2, <2>4 DEF IInv
<1>4. ASSUME NEW n \in 1..MaxPush, ReaderPop(n) PROVE IInv'
  <2>1. n \in Nat
    BY <1>4, MaxPushAssumption
  <2>2. /\ Intact(s') /\ s'.capacity_ = s.capacity_
        /\ s'.bytes_read = IF n > Len(s.stream) THEN s.bytes_read
                           ELSE s.bytes_read + n
    BY <1>0, <1>4, <2>1, PopIntact DEF ReaderPop
  <2>3. CASE n > Len(s.stream)
    BY <1>4, <2>2, <2>3 DEF IInv, ReaderPop
  <2>4. CASE ~(n > Len(s.stream))
    <3>1. n \in 0..Len(s.stream)
      BY <1>0, <2>1, <2>4, LenProperties
    <3>2. /\ SubSeq(s.stream, 1, n) \in Seq(Byte)
          /\ Len(SubSeq(s.stream, 1, n)) = n
          /\ Contiguous(SubSeq(s.stream, 1, n), s.bytes_read)
      BY <1>0, <3>1, SplitContiguous
    <3>3. delivered' = delivered \o SubSeq(s.stream, 1, n)
      BY <1>4, <2>4 DEF ReaderPop
    <3>4. /\ delivered' \in Seq(Byte) /\ Contiguous(delivered', 0)
          /\ Len(delivered') = Len(delivered) + n
      <4>1. Contiguous(SubSeq(s.stream, 1, n), 0 + Len(delivered)) /\ 0 \in Nat
        BY <1>0, <3>2
      <4>2. QED
        BY <3>2, <3>3, <4>1, ConcatContiguous DEF IInv
    <3>5. QED
      BY <2>2, <2>4, <3>4 DEF IInv
  <2>5. QED
    BY <2>3, <2>4
<1>5. CASE WriterSetError
  BY <1>0, <1>5, SetErrorIntact DEF IInv, WriterSetError
<1>6. CASE UNCHANGED vars
  BY <1>6 DEF IInv, vars
<1>7. QED
  BY <1>1, <1>2, <1>3, <1>4, <1>5, <1>6 DEF Next

LEMMA InvariantIInv == Spec => []IInv
BY InitIInv, StepIInv, PTL DEF Spec

(* Every variable keeps its type, and the unsigned available_capacity() of *)
(* byte_stream.cc:37-41 never wraps below zero.                            *)
THEOREM TypeCorrect == Spec => []TypeOK
BY InvariantIInv, IInvImplies, PTL

(* No push, truncated push, read or refused pop of byte_stream.cc loses,   *)
(* repeats or reorders a byte.                                             *)
THEOREM StreamIntegrityHolds == Spec => []StreamIntegrity
BY InvariantIInv, IInvImplies, PTL

(* The cumulative counters of byte_stream.cc account for the buffer.       *)
THEOREM CountersAgreeHolds == Spec => []CountersAgree
BY InvariantIInv, IInvImplies, PTL

LEMMA StepFinishedIsFinal ==
  IInv /\ [Next]_vars /\ IsFinished(s) => IsFinished(s') /\ delivered' = delivered
<1> SUFFICES ASSUME IInv, [Next]_vars, IsFinished(s)
             PROVE  IsFinished(s') /\ delivered' = delivered
  OBVIOUS
<1>1. /\ s \in StreamStates /\ s.stream \in Seq(Byte) /\ s.close_ = TRUE
      /\ s.bytes_read \in Nat /\ s.bytes_write = s.bytes_read
      /\ s.bytes_write = s.bytes_read + Len(s.stream)
      /\ delivered \in Seq(Byte) /\ IsClosed(s)
  BY DEF IInv, Intact, StreamStates, IsFinished, IsClosed
<1>2. Len(s.stream) = 0 /\ s.stream = << >>
  BY <1>1, LenProperties, EmptySeq
<1>3. ASSUME NEW n \in 1..MaxPush, ReaderRead(n)
      PROVE  IsFinished(s') /\ delivered' = delivered
  <2>1. n \in Nat /\ Lesser(n, BytesBuffered(s)) = 0
    BY <1>1, MaxPushAssumption DEF Lesser, BytesBuffered, StreamStates
  <2>2. ReadOut(s, n) = << >>
    BY <1>2, <2>1 DEF ReadOut
  <2>3. delivered' = delivered
    BY <1>1, <1>3, <2>2 DEF ReaderRead
  <2>4. s' = Pop(s, 0)
    BY <1>3, <2>1 DEF ReaderRead, Read
  <2>5. /\ s'.close_ = s.close_ /\ s'.bytes_write = s.bytes_write
        /\ s'.bytes_read = s.bytes_read
    BY <1>1, <1>2, <2>4 DEF Pop, StreamStates
  <2>6. QED
    BY <1>1, <2>3, <2>5, Zenon DEF IsFinished
<1>4. ASSUME NEW n \in 1..MaxPush, ReaderPop(n)
      PROVE  IsFinished(s') /\ delivered' = delivered
  <2>1. n > Len(s.stream)
    BY <1>2, MaxPushAssumption
  <2>2. s' = [s EXCEPT !.error_ = TRUE] /\ delivered' = delivered
    BY <1>4, <2>1 DEF ReaderPop, Pop
  <2>3. /\ s'.close_ = s.close_ /\ s'.bytes_write = s.bytes_write
        /\ s'.bytes_read = s.bytes_read
    BY <1>1, <2>2 DEF StreamStates
  <2>4. QED
    BY <1>1, <2>2, <2>3, Zenon DEF IsFinished
<1>5. CASE WriterSetError
  <2>1. s' = SetError(s) /\ delivered' = delivered /\ Intact(s)
    BY <1>5 DEF WriterSetError, IInv
  <2>2. /\ s'.close_ = s.close_ /\ s'.bytes_write = s.bytes_write
        /\ s'.bytes_read = s.bytes_read
    BY <2>1, SetErrorIntact
  <2>3. QED
    BY <1>1, <2>1, <2>2, Zenon DEF IsFinished
<1>6. CASE UNCHANGED vars
  BY <1>6 DEF vars, IsFinished
<1>7. QED
  BY <1>1, <1>3, <1>4, <1>5, <1>6 DEF Next, WriterPush, WriterClose

(* A reader that once saw is_finished() (byte_stream.cc:54-58) is          *)
(* delivered nothing more, and the stream stays finished.                  *)
THEOREM FinishedIsFinalHolds == Spec => FinishedIsFinal
<1>1. IInv /\ [Next]_vars
        => [IsFinished(s) => IsFinished(s') /\ delivered' = delivered]_vars
  BY StepFinishedIsFinal
<1>2. QED
  BY <1>1, InvariantIInv, PTL DEF Spec, FinishedIsFinal

-----------------------------------------------------------------------------
(* The inductive invariant: the checkpoint stays in its range. *)
CheckpointBounded == isn \in SequenceNumber /\ checkpoint \in 0..MaxCheckpoint

LEMMA CheckpointAlwaysBounded == WrapSpec => []CheckpointBounded
<1>1. WrapInit => CheckpointBounded
  BY MaxCheckpointAssumption DEF WrapInit, CheckpointBounded
<1>2. CheckpointBounded /\ [WrapNext]_wrapVars => CheckpointBounded'
  BY MaxCheckpointAssumption DEF CheckpointBounded, WrapNext, Move, wrapVars
<1>3. QED
  BY <1>1, <1>2, PTL DEF WrapSpec

LEMMA InRange ==
  ASSUME CheckpointBounded
  PROVE  checkpoint \in Nat /\ checkpoint + 2 * Word32 < Word64 /\ isn \in SequenceNumber
BY MaxCheckpointAssumption, Word32Assumption, Word64Assumption DEF CheckpointBounded

(* Of all absolute numbers that wrap to a sequence number, unwrap returns  *)
(* the one closest to the checkpoint, also near 0 and around a wrap        *)
(* (src/src/wrapping_integers.hh:22-28).                                   *)
THEOREM ClosestReturned == WrapSpec => []UnwrapIsClosest
<1>1. CheckpointBounded => UnwrapIsClosest
  <2> SUFFICES ASSUME CheckpointBounded, NEW seqno \in SequenceNumber
               PROVE  LET n == Unwrap(seqno, isn, checkpoint)
                      IN  /\ n \in Candidates(seqno)
                          /\ \A m \in Candidates(seqno) :
                               AbsoluteDelta(checkpoint, n) <= AbsoluteDelta(checkpoint, m)
    BY DEF UnwrapIsClosest
  <2> DEFINE n == Unwrap(seqno, isn, checkpoint)
  <2>1. checkpoint \in Nat /\ checkpoint + 2 * Word32 < Word64 /\ isn \in SequenceNumber
    BY InRange
  <2>2. /\ n \in 0..checkpoint + 2 * Word32
        /\ Congruent(n, seqno - isn)
        /\ \A m \in Nat : Congruent(m, seqno - isn)
             => AbsoluteDelta(checkpoint, n) <= AbsoluteDelta(checkpoint, m)
    BY <2>1, UnwrapClosest
  <2> HIDE DEF n
  <2>3. /\ Word32 \in Nat /\ seqno \in Int /\ isn \in Int /\ n \in Nat
        /\ seqno \in 0..Word32 - 1 /\ isn \in 0..Word32 - 1
    BY <2>1, <2>2, Word32Assumption DEF SequenceNumber
  <2>4. Wrap(n, isn) = seqno
    <3> DEFINE w == Wrap(n, isn)
    <3>1. w \in SequenceNumber /\ Congruent(w - isn, n)
      BY <2>1, <2>3, Wrapped
    <3>2. w \in Int /\ w \in 0..Word32 - 1
      BY <3>1, <2>3 DEF SequenceNumber
    <3> HIDE DEF w
    <3>3. Congruent(w - isn, seqno - isn)
      BY <2>2, <2>3, <3>1, <3>2, CongruentJoined
    <3>4. Congruent(w, seqno)
      BY <2>3, <3>2, <3>3, CongruentMoved
    <3>5. w = seqno
      BY <2>3, <3>2, <3>4, CongruentClose
    <3>6. QED
      BY <3>5 DEF w
  <2>5. ASSUME NEW m \in Candidates(seqno)
        PROVE  m \in Nat /\ Congruent(m, seqno - isn)
    <3>1. m \in Nat /\ Wrap(m, isn) = seqno
      BY <2>1, <2>3 DEF Candidates
    <3>2. Congruent(seqno - isn, m)
      BY <2>1, <3>1, Wrapped
    <3>3. QED
      BY <2>3, <3>1, <3>2, CongruentSwapped
  <2>6. QED
    BY <2>2, <2>4, <2>5 DEF Candidates, n
<1>2. QED
  BY <1>1, CheckpointAlwaysBounded, PTL

(* What one side wraps the other unwraps, as long as it is less than half  *)
(* the sequence space from its checkpoint                                  *)
(* (src/src/wrapping_integers.cc:6-60).                                    *)
THEOREM RoundTripHolds == WrapSpec => []RoundTrip
<1>1. CheckpointBounded => RoundTrip
  BY InRange, UnwrapWrapped, Word32Assumption DEF RoundTrip
<1>2. QED
  BY <1>1, CheckpointAlwaysBounded, PTL

=============================================================================
