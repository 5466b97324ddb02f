-------------------------- MODULE ReassemblerProofs -------------------------
(***************************************************************************)
(* The safety properties of ReassemblerSpec, and that it implements the    *)
(* contract of the header, for every capacity and every length of stream.  *)
(***************************************************************************)
EXTENDS ReassemblerSpec, OperatorLemmas

\* The inductive invariant.
IInv == Sound(reassembler, output, Capacity, StreamLength)

-----------------------------------------------------------------------------
-----------------------------------------------------------------------------
(* The invariant holds at first, and every step preserves it. *)
LEMMA InitIInv == Init => IInv
BY NewSound, CapacityAssumption, StreamLengthAssumption DEF Init, IInv

\* What a substring that arrives in a sound state does, said of the variables.
Inserts(first, end, is_last) ==
  /\ Sound(reassembler', output', Capacity, StreamLength)
  /\ reassembler'.eof = (reassembler.eof \/ is_last)
  /\ output'.close_ = (output.close_ \/ (reassembler'.eof
                                          /\ reassembler'.base_index = StreamLength))
  /\ output'.bytes_read = output.bytes_read
  /\ KnownBy(reassembler') = KnownBy(reassembler) \cup
       ((first..end - 1) \cap
          (reassembler.base_index..reassembler.base_index + AvailableCapacity(output) - 1))

(* An insert of the specification is such a call. *)
LEMMA InsertStep ==
  ASSUME IInv, NEW first \in 0..StreamLength, NEW end \in 0..StreamLength,
         NEW is_last \in BOOLEAN, InsertSubstring(first, end, is_last)
  PROVE  Inserts(first, end, is_last)
<1> DEFINE result == Insert(reassembler, first, BytesFrom(first, end - first),
                            is_last, output)
<1>1. reassembler' = result.reassembler /\ output' = result.output
  BY DEF InsertSubstring
<1>2. /\ Sound(reassembler, output, Capacity, StreamLength) /\ first <= end
      /\ first <= reassembler.base_index + AvailableCapacity(output)
      /\ is_last => /\ end = StreamLength
                    /\ end <= reassembler.base_index + AvailableCapacity(output)
                    /\ first < end \/ reassembler.base_index = end
  BY DEF IInv, InsertSubstring, Arrives, WindowEnd
<1>3. /\ first \in Nat /\ end - first \in Nat /\ first + (end - first) = end
      /\ end <= StreamLength /\ reassembler.base_index \in Nat
      /\ AvailableCapacity(output) \in Nat
  BY <1>2, StreamLengthAssumption, CapacityAssumption, KnownInStream, RoomCounted DEF Sound, Placed
<1>4. is_last => \/ StreamLength = 0
                 \/ StreamLength - 1 \in KnownBy(reassembler)
                 \/ StreamLength - 1 \in (first..end - 1) \cap
                      (reassembler.base_index..
                         reassembler.base_index + AvailableCapacity(output) - 1)
  BY <1>2, <1>3, StreamLengthAssumption DEF KnownBy
<1> DEFINE n == end - first
<1>5. n \in Nat /\ first + n = end
  BY <1>3
<1> HIDE DEF result
<1>6. reassembler' = Insert(reassembler, first, BytesFrom(first, n), is_last, output).reassembler
      /\ output' = Insert(reassembler, first, BytesFrom(first, n), is_last, output).output
  BY <1>1 DEF result
<1> HIDE DEF n
<1>7. Placed(reassembler, output, Capacity, StreamLength)
  BY <1>2 DEF Sound
<1>8. /\ reassembler'.eof = (reassembler.eof \/ is_last)
      /\ output'.bytes_read = output.bytes_read
      /\ KnownBy(reassembler') = KnownBy(reassembler) \cup
           ((first..first + n - 1) \cap
              (reassembler.base_index..
                 reassembler.base_index + AvailableCapacity(output) - 1))
  BY <1>2, <1>3, <1>5, <1>6, <1>7, CapacityAssumption, StreamLengthAssumption, InsertPlaced, SMTT(60)
<1>9. is_last => \/ StreamLength = 0
                 \/ StreamLength - 1 \in KnownBy(reassembler)
                 \/ StreamLength - 1 \in (first..first + n - 1) \cap
                      (reassembler.base_index..
                         reassembler.base_index + AvailableCapacity(output) - 1)
  BY <1>4, <1>5
<1>10. n = 0 \/ first + n <= StreamLength
  BY <1>3, <1>5
<1>11. /\ Sound(reassembler', output', Capacity, StreamLength)
       /\ output'.close_ = (output.close_ \/ (reassembler'.eof
                                               /\ reassembler'.base_index = StreamLength))
  <2>1. /\ Sound(reassembler, output, Capacity, StreamLength)
        /\ first <= reassembler.base_index + AvailableCapacity(output)
        /\ first \in Nat /\ n \in Nat /\ Capacity \in Nat /\ StreamLength \in Nat
    BY <1>2, <1>3, <1>5, CapacityAssumption, StreamLengthAssumption
  <2> DEFINE q     == Insert(reassembler, first, BytesFrom(first, n), is_last, output).reassembler
             after == Insert(reassembler, first, BytesFrom(first, n), is_last, output).output
  <2>2. /\ Sound(q, after, Capacity, StreamLength)
        /\ after.close_ = (output.close_ \/ (q.eof /\ q.base_index = StreamLength))
    <3> HIDE DEF q, after
    <3>1. q = Insert(reassembler, first, BytesFrom(first, n), is_last, output).reassembler
      BY DEF q
    <3>2. after = Insert(reassembler, first, BytesFrom(first, n), is_last, output).output
      BY DEF after
    <3>3. QED
      BY <1>9, <1>10, <2>1, <3>1, <3>2, InsertSound
  <2>3. reassembler' = q /\ output' = after
    BY <1>6
  <2> HIDE DEF q, after
  <2>4. QED
    BY <2>2, <2>3
<1>12. QED
  BY <1>5, <1>8, <1>11 DEF Inserts

(* The invariant is preserved. *)
LEMMA NextIInv == IInv /\ [Next]_vars => IInv'
<1> SUFFICES ASSUME IInv, [Next]_vars PROVE IInv'
  OBVIOUS
<1>1. ASSUME NEW first \in 0..StreamLength, NEW end \in 0..StreamLength,
             NEW is_last \in BOOLEAN, InsertSubstring(first, end, is_last)
      PROVE  IInv'
  BY <1>1, InsertStep DEF Inserts, IInv
<1>2. ASSUME NEW n \in 1..Capacity, ReadSome(n)
      PROVE  IInv'
  <2>1. /\ n \in Nat /\ BytesBuffered(output) > 0
        /\ output' = Read(output, n) /\ reassembler' = reassembler
    BY <1>2, CapacityAssumption DEF ReadSome
  <2>2. QED
    BY <2>1, ReadSound, CapacityAssumption, StreamLengthAssumption DEF IInv
<1>3. CASE UNCHANGED vars
  BY <1>3 DEF IInv, vars
<1>4. QED
  BY <1>1, <1>2, <1>3 DEF Next

LEMMA IInvAlways == Spec => []IInv
BY InitIInv, NextIInv, PTL DEF Spec

-----------------------------------------------------------------------------
(* The specification's name for the offsets that wait. *)
LEMMA PendingIs == Pending = PendingOf(reassembler)
BY DEF Pending, PendingOf

(* The vectors keep the length that the first insert gave them, and the    *)
(* output its room (src/src/reassembler.cc:9-13, 52-56).                   *)
THEOREM TypeCorrect == Spec => []TypeOK
<1>1. IInv => TypeOK
  <2> SUFFICES ASSUME IInv PROVE TypeOK
    OBVIOUS
  <2>1. Intact(output) /\ output.capacity_ = Capacity
    BY DEF IInv, Sound, Placed
  <2>2. output \in StreamStates /\ AvailableCapacity(output) \in 0..Capacity
    BY <2>1, RoomCounted DEF Intact
  <2>3. QED
    BY <2>2 DEF TypeOK, IInv, Sound, Placed, Holds
<1>2. QED
  BY <1>1, IInvAlways, PTL

(* Whatever overlapped, came twice or was cut at either edge of the        *)
(* window, each byte waits and is written at its own place                 *)
(* (src/src/reassembler.cc:24-61).                                         *)
THEOREM BytesInPlace == Spec => []ContentIntegrity
<1>1. IInv => ContentIntegrity
  BY PendingIs DEF IInv, Sound, Placed, Holds, ContentIntegrity, BytesPushed
<1>2. QED
  BY <1>1, IInvAlways, PTL

(* bytes_pending() is the number of the bytes that wait, whatever the      *)
(* three places that keep it add and subtract (src/src/reassembler.cc:29,  *)
(* 39, 59).                                                                *)
THEOREM CountIsRight == Spec => []PendingCounted
<1>1. IInv => PendingCounted
  BY PendingIs DEF IInv, Sound, Placed, Holds, PendingCounted, BytesPending
<1>2. QED
  BY <1>1, IInvAlways, PTL

(* Nothing waits that could be written, nor anything there would be no     *)
(* room for: the push never drops a byte (src/src/reassembler.cc:58).      *)
THEOREM NothingHeldBack == Spec => []WindowRespected
<1>1. IInv => WindowRespected
  BY PendingIs DEF IInv, Sound, Placed, WindowRespected
<1>2. QED
  BY <1>1, IInvAlways, PTL

(* No substring that can arrive makes the store loops index outside the    *)
(* vectors, which they do not check (src/src/reassembler.cc:26-28, 36-38). *)
THEOREM IndicesInside == Spec => []OffsetsInBounds
<1>1. IInv => OffsetsInBounds
  <2> DEFINE opened == Initialized(reassembler, output)
  <2> SUFFICES ASSUME IInv, NEW first \in 0..StreamLength, NEW end \in 0..StreamLength,
                      Arrives(first, end, FALSE)
               PROVE  Offsets(opened, first, end - first, output) \subseteq 0..opened.size - 1
    BY DEF OffsetsInBounds
  <2>1. /\ Sound(reassembler, output, Capacity, StreamLength) /\ Intact(output) /\ output.capacity_ = Capacity
        /\ Holds(reassembler, IF reassembler.initialized THEN Capacity ELSE 0)
        /\ ~reassembler.initialized => reassembler = NewReassembler
    BY DEF IInv, Sound, Placed
  <2>2. AvailableCapacity(output) \in 0..Capacity
    BY <2>1, RoomCounted
  <2>3. Holds(opened, Capacity) /\ opened.base_index = reassembler.base_index
    <3>1. CASE reassembler.initialized
      BY <2>1, <3>1 DEF Initialized
    <3>2. CASE ~reassembler.initialized
      <4>1. AvailableCapacity(output) = Capacity /\ Holds(reassembler, 0)
        BY <2>1, <3>2, RoomAtFirst, CapacityAssumption, StreamLengthAssumption, ZenonT(60) DEF Sound
      <4>2. QED
        BY <2>1, <3>2, <4>1, CapacityAssumption, InitializedHolds
    <3>3. QED
      BY <3>1, <3>2
  <2> HIDE DEF opened
  <2>4. /\ opened \in ReassemblerStates(Capacity) /\ opened.size = Capacity
    BY <2>3 DEF Holds, ReassemblerStates
  <2>5. first \in Nat /\ end - first \in Nat
        /\ first <= opened.base_index + AvailableCapacity(output)
    BY <2>3, StreamLengthAssumption DEF Arrives, WindowEnd
  <2>6. Offsets(opened, first, end - first, output)
          \subseteq 0..AvailableCapacity(output) - 1
    BY <2>2, <2>4, <2>5, CapacityAssumption, OffsetsFound
  <2>7. QED
    BY <2>2, <2>4, <2>6, CapacityAssumption
<1>2. QED
  BY <1>1, IInvAlways, PTL

-----------------------------------------------------------------------------
(* The reassembler and its output do what src/src/reassembler.hh:25-36     *)
(* promises: every call of insert learns exactly the part of the substring *)
(* inside the window, writes all that became contiguous and closes the     *)
(* stream with its last byte.                                              *)
THEOREM KeepsContract == Spec => ImplementsContract
<1> DEFINE known == 0..reassembler.base_index - 1 \cup PendingBytes
<1>1. known = KnownBy(reassembler)
  BY PendingIs DEF PendingBytes, KnownBy
<1>2. known' = KnownBy(reassembler')
  BY DEF PendingBytes, Pending, KnownBy, PendingOf
<1>3. Init => Contract!CInit
  <2> SUFFICES ASSUME Init PROVE Contract!CInit
    OBVIOUS
  <2>1. reassembler = NewReassembler /\ output = NewByteStream(Capacity)
    BY DEF Init
  <2>2. PendingOf(reassembler) = {} /\ reassembler.base_index = 0 /\ ~reassembler.eof
        /\ reassembler.eof \in BOOLEAN
    BY <2>1, NewHolds DEF NewReassembler
  <2>3. known = {}
    BY <1>1, <2>2 DEF KnownBy
  <2>4. output.bytes_write = 0 /\ output.bytes_read = 0 /\ output.close_ = FALSE
    BY <2>1 DEF NewByteStream
  <2>5. QED
    BY <2>2, <2>3, <2>4 DEF Contract!CInit, BytesPushed, BytesPopped, IsClosed
<1>4. IInv /\ [Next]_vars => [Contract!CNext]_Contract!cvars
  <2> SUFFICES ASSUME IInv, [Next]_vars PROVE [Contract!CNext]_Contract!cvars
    OBVIOUS
  <2>1. ASSUME NEW first \in 0..StreamLength, NEW end \in 0..StreamLength,
               NEW is_last \in BOOLEAN, InsertSubstring(first, end, is_last)
        PROVE  Contract!Learn(first..end - 1, is_last)
    <3>1. Inserts(first, end, is_last)
      BY <2>1, InsertStep
    <3>2. /\ output.bytes_write = reassembler.base_index
          /\ output'.bytes_write = reassembler'.base_index
          /\ reassembler'.base_index \in 0..StreamLength
      BY <3>1, KnownInStream, CapacityAssumption, StreamLengthAssumption
         DEF Inserts, IInv, Sound, Placed
    <3>3. reassembler.base_index + AvailableCapacity(output) - 1
            = output.bytes_read + Capacity - 1
      <4>1. /\ AvailableCapacity(output)
                 = output.capacity_ - (output.bytes_write - output.bytes_read)
            /\ output.bytes_read \in Nat /\ output.bytes_write \in Nat
            /\ output.capacity_ = Capacity
        BY RoomCounted DEF IInv, Sound, Placed
      <4>2. QED
        BY <3>2, <4>1, CapacityAssumption
    <3>4. known' = known \cup ((first..end - 1) \cap Contract!Window)
      BY <1>1, <1>2, <3>1, <3>2, <3>3
         DEF Inserts, Contract!Window, BytesPushed, BytesPopped
    <3>5. /\ output'.bytes_write \in 0..StreamLength
          /\ output'.bytes_write \notin known'
          /\ 0..output'.bytes_write - 1 \subseteq known'
      BY <1>2, <3>1, <3>2, KnownInStream, CapacityAssumption, StreamLengthAssumption
         DEF Inserts, KnownBy, Sound
    <3> HIDE DEF known
    <3>6. QED
      BY <3>1, <3>2, <3>4, <3>5
         DEF known, Contract!Learn, Inserts, BytesPushed, BytesPopped, IsClosed
  <2>2. ASSUME NEW n \in 1..Capacity, ReadSome(n)
        PROVE  [Contract!Take(Len(ReadOut(output, n)))]_Contract!cvars
               /\ Len(ReadOut(output, n)) \in 1..Capacity
    <3>1. /\ n \in Nat /\ n # 0 /\ BytesBuffered(output) > 0
          /\ output' = Read(output, n) /\ reassembler' = reassembler
      BY <2>2, CapacityAssumption DEF ReadSome
    <3>2. Intact(output) /\ output.capacity_ = Capacity
      BY DEF IInv, Sound, Placed
    <3>3. /\ Len(ReadOut(output, n)) = Lesser(n, BytesBuffered(output))
          /\ Len(ReadOut(output, n)) \in 0..Len(output.stream)
          /\ output'.bytes_read = output.bytes_read + Len(ReadOut(output, n))
          /\ output'.bytes_write = output.bytes_write
          /\ output'.close_ = output.close_
      BY <3>1, <3>2, ReadIntact
    <3>4. /\ output.bytes_write = output.bytes_read + Len(output.stream)
          /\ Len(output.stream) \in Nat /\ Len(output.stream) <= Capacity
          /\ BytesBuffered(output) = Len(output.stream) /\ output.bytes_read \in Nat
      BY <3>2, RoomCounted DEF Intact
    <3>5. known' = known
      BY <1>1, <1>2, <3>1
    <3>6. Len(ReadOut(output, n)) \in 1..Capacity
      BY <3>1, <3>3, <3>4, CapacityAssumption DEF Lesser
    <3> HIDE DEF known
    <3>7. Contract!Take(Len(ReadOut(output, n)))
      BY <3>1, <3>3, <3>4, <3>5
         DEF known, Contract!Take, BytesPushed, BytesPopped, IsClosed
    <3>8. QED
      BY <3>6, <3>7
  <2>3. CASE UNCHANGED vars
    BY <2>3 DEF vars, Contract!cvars, PendingBytes, Pending, BytesPushed, BytesPopped,
                IsClosed
  <2>4. QED
    BY <2>1, <2>2, <2>3 DEF Next, Contract!CNext
<1>5. QED
  BY <1>3, <1>4, IInvAlways, PTL DEF Spec, ImplementsContract, Contract!CSpec

=============================================================================
