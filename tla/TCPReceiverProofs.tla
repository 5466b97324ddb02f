-------------------------- MODULE TCPReceiverProofs -------------------------
(***************************************************************************)
(* The safety properties of TCPReceiverSpec, for every capacity, every     *)
(* length of the peer's stream, every isn and every width of the sequence  *)
(* numbers.                                                                *)
(***************************************************************************)
EXTENDS TCPReceiverSpec, OperatorLemmas

\* The last byte of the stream is known, or there is none.
EndKnown == StreamLength = 0 \/ StreamLength - 1 \in KnownBy(reassembler)

\* The inductive invariant.  That the end is known once the FIN was accepted needs
\* the FIN to come in its place; all the rest holds on any network.
IInv ==
  /\ receiver \in ReceiverStates
  /\ peer_isn \in SequenceNumber
  /\ Placed(reassembler, inbound, RecvCapacity, StreamLength)
  /\ receiver.syn => receiver.isn = peer_isn /\ 0 \in arrived
  /\ \A i \in KnownBy(reassembler) : i + 1 \in arrived
  /\ reassembler.eof = receiver.fin
  /\ receiver.fin => Fin \in arrived
  /\ FinInOrder =>
       /\ receiver.fin => EndKnown
       /\ inbound.close_ <=> receiver.fin /\ reassembler.base_index = StreamLength

-----------------------------------------------------------------------------
(* The numbers of the segments. *)

(* The receiver unwraps near its checkpoint what the peer wrapped.         *)
LEMMA Unwrapped ==
  ASSUME NEW isn_ \in SequenceNumber, NEW n \in Nat, NEW at \in 0..StreamLength,
         2 * AbsoluteDelta(n, at) < Word32
  PROVE  Unwrap(Wrap(n, isn_), isn_, at) = n
<1>1. at \in Nat /\ at + 2 * Word32 < Word64
  BY StreamLengthAssumption, Word32Assumption, Word64Assumption
<1>2. QED
  BY <1>1, UnwrapWrapped

LEMMA WrapInRange ==
  ASSUME NEW isn_ \in SequenceNumber, NEW n \in Nat
  PROVE  Wrap(n, isn_) \in SequenceNumber /\ Wrap(0, isn_) = isn_
<1>1. isn_ \in 0..Word32 - 1 /\ Word32 \in Nat \ {0} /\ isn_ + n \in Int
  BY Word32Assumption DEF SequenceNumber
<1> DEFINE x == isn_ + n
<1>2. x \in Int
  BY <1>1
<1> HIDE DEF x
<1>3. x % Word32 \in 0..Word32 - 1
  BY <1>1, <1>2
<1>4. isn_ + 0 = isn_ /\ isn_ % Word32 = isn_
  BY <1>1
<1>5. QED
  BY <1>3, <1>4 DEF x, Wrap, Advanced, SequenceNumber

\* Where the bytes of a segment belong, and how many they are.
Index(first) == Greater(first, 1) - 1

Count(first, end) ==
  IF Lesser(end, Fin) > Greater(first, 1) THEN Lesser(end, Fin) - Greater(first, 1) ELSE 0

(* What the peer put into a segment. *)
LEMMA SegmentMeans ==
  ASSUME NEW first \in 0..Fin + 1, NEW end \in 0..Fin + 1, first <= end
  PROVE  LET message == Segment(first, end)
         IN  /\ message.seqno = Wrap(first, peer_isn)
             /\ message.SYN = (first = 0 /\ end > 0)
             /\ message.FIN = (first <= Fin /\ end = Fin + 1)
             /\ message.payload = BytesFrom(Index(first), Count(first, end))
             /\ SequenceLength(message) = end - first
             /\ Index(first) \in Nat /\ Count(first, end) \in Nat
             /\ Count(first, end) = 0 \/ Index(first) + Count(first, end) <= StreamLength
             /\ \A i \in Index(first)..Index(first) + Count(first, end) - 1 :
                  i + 1 \in first..end - 1
<1> DEFINE message == Segment(first, end)
<1>1. Fin \in Nat /\ Fin = StreamLength + 1 /\ StreamLength \in Nat /\ first \in Nat /\ end \in Nat
  BY StreamLengthAssumption DEF Fin
<1>2. /\ message.seqno = Wrap(first, peer_isn)
      /\ message.SYN = (first = 0 /\ end > 0)
      /\ message.FIN = (first <= Fin /\ end = Fin + 1)
      /\ message.payload = BytesFrom(Index(first), Count(first, end))
  BY DEF Segment, Index, Count
<1>3. /\ Index(first) \in Nat /\ Count(first, end) \in Nat
      /\ Count(first, end) = 0 \/ Index(first) + Count(first, end) <= StreamLength
      /\ \A i \in Index(first)..Index(first) + Count(first, end) - 1 :
           i + 1 \in first..end - 1
  BY <1>1 DEF Index, Count, Greater, Lesser
<1>4. Len(message.payload) = Count(first, end)
  BY <1>2, <1>3, BytesFromProperties
<1> HIDE DEF message
<1>5. SequenceLength(message) = end - first
  <2>1. SequenceLength(message)
          = (IF first = 0 /\ end > 0 THEN 1 ELSE 0) + Count(first, end)
              + (IF first <= Fin /\ end = Fin + 1 THEN 1 ELSE 0)
    BY <1>2, <1>4 DEF SequenceLength
  <2>2. CASE end = Fin + 1
    BY <1>1, <2>1, <2>2 DEF Count, Lesser, Greater
  <2>3. CASE end <= Fin
    BY <1>1, <2>1, <2>3 DEF Count, Lesser, Greater
  <2>4. QED
    BY <1>1, <2>2, <2>3
<1>6. QED
  BY <1>2, <1>3, <1>5 DEF message

-----------------------------------------------------------------------------
(* What a segment does to a receiver in a state of the invariant. *)

(* A segment after the SYN, or the SYN itself, is found at its own place.  *)
LEMMA Opened ==
  ASSUME IInv, NEW first \in 0..Fin + 1, NEW end \in 0..Fin + 1, first <= end,
         NotAncient(first), Synchronized(receiver, Segment(first, end)).syn
  PROVE  LET message == Segment(first, end)
             synced  == Synchronized(receiver, message)
         IN  /\ synced \in ReceiverStates
             /\ synced.isn = peer_isn /\ synced.fin = receiver.fin
             /\ Unwrap(message.seqno, synced.isn, BytesPushed(inbound)) = first
             /\ 0 \in arrived \cup first..end - 1
<1> DEFINE message == Segment(first, end)
           synced  == Synchronized(receiver, message)
<1>1. /\ message.seqno = Wrap(first, peer_isn)
      /\ message.SYN = (first = 0 /\ end > 0)
      /\ first \in Nat /\ end \in Nat
  BY SegmentMeans, StreamLengthAssumption DEF Fin
<1>2. /\ receiver \in ReceiverStates /\ peer_isn \in SequenceNumber
      /\ receiver.syn => receiver.isn = peer_isn /\ 0 \in arrived
      /\ Placed(reassembler, inbound, RecvCapacity, StreamLength)
  BY DEF IInv
<1>3. message.seqno \in SequenceNumber /\ Wrap(0, peer_isn) = peer_isn
  BY <1>1, <1>2, WrapInRange
<1> HIDE DEF message
<1>4. synced \in ReceiverStates /\ synced.isn = peer_isn /\ synced.fin = receiver.fin
  <2>1. CASE message.SYN /\ ~receiver.syn
    <3>1. synced = [receiver EXCEPT !.syn = TRUE, !.isn = message.seqno]
      BY <2>1 DEF Synchronized
    <3>2. message.seqno = peer_isn
      BY <1>1, <1>3, <2>1
    <3>3. QED
      BY <1>2, <1>3, <3>1, <3>2 DEF ReceiverStates
  <2>2. CASE ~(message.SYN /\ ~receiver.syn)
    <3>1. synced = receiver /\ receiver.syn
      BY <2>2 DEF Synchronized, message
    <3>2. QED
      BY <1>2, <3>1
  <2>3. QED
    BY <2>1, <2>2
<1>5. BytesPushed(inbound) \in 0..StreamLength
  BY <1>2, KnownInStream, RecvCapacityAssumption, StreamLengthAssumption
     DEF Placed, BytesPushed
<1>6. Unwrap(message.seqno, synced.isn, BytesPushed(inbound)) = first
  <2> DEFINE at == BytesPushed(inbound)
  <2>1. at \in 0..StreamLength /\ 2 * AbsoluteDelta(first, at) < Word32
    BY <1>5 DEF NotAncient
  <2> HIDE DEF at, synced
  <2>2. Unwrap(Wrap(first, peer_isn), peer_isn, at) = first
    BY <1>1, <1>2, <2>1, Unwrapped
  <2>3. QED
    BY <1>1, <1>4, <2>2 DEF at
<1>7. 0 \in arrived \cup first..end - 1
  <2>1. CASE message.SYN
    <3>1. message.SYN = (first = 0 /\ end > 0) /\ message.SYN
      BY <1>1, <2>1
    <3>2. first = 0 /\ end > 0
      BY <3>1, Zenon
    <3>3. QED
      BY <1>1, <3>2
  <2>2. CASE ~message.SYN
    BY <1>2, <2>2 DEF Synchronized, message
  <2>3. QED
    BY <2>1, <2>2
<1>8. QED
  BY <1>4, <1>6, <1>7 DEF message

\* The receiver is synchronized now, and the segment counts as arrived.
Recorded(first, end) ==
  /\ receiver' \in ReceiverStates
  /\ receiver'.syn /\ receiver'.isn = peer_isn
  /\ arrived' = arrived \cup first..end - 1
  /\ 0 \in arrived'
  /\ UNCHANGED peer_isn

Rejected == receiver'.fin = receiver.fin /\ UNCHANGED <<reassembler, inbound>>

\* The segment's bytes were handed to the Reassembler.
Accepted(first, end) ==
  /\ receiver'.fin = (receiver.fin \/ (first <= Fin /\ end = Fin + 1))
  /\ Placed(reassembler', inbound', RecvCapacity, StreamLength)
  /\ reassembler'.eof = receiver'.fin
  /\ reassembler'.base_index >= reassembler.base_index
  /\ inbound'.bytes_read = inbound.bytes_read
  /\ inbound.close_ => inbound'.close_
  /\ KnownBy(reassembler') = KnownBy(reassembler) \cup
       ((Index(first)..Index(first) + Count(first, end) - 1) \cap
          (reassembler.base_index..reassembler.base_index + AvailableCapacity(inbound) - 1))
  /\ FinInOrder =>
       /\ receiver'.fin => EndKnown'
       /\ inbound'.close_ = (inbound.close_ \/ (receiver'.fin /\
                                                reassembler'.base_index = StreamLength))

(* A segment that overlaps the window starts inside it, or right behind it *)
(* (tcp_receiver.cc:39-40).                                                *)
LEMMA StartsInside ==
  ASSUME IInv, NEW first \in 0..Fin + 1, NEW length \in Nat, NEW r, r.fin = receiver.fin,
         OverlapsWindow(first, length, LastAck(r, inbound), AvailableCapacity(inbound))
  PROVE  /\ Index(first) <= reassembler.base_index + AvailableCapacity(inbound)
         /\ first - 1 <= reassembler.base_index + AvailableCapacity(inbound)
<1>1. /\ inbound.bytes_write = reassembler.base_index /\ Intact(inbound)
      /\ reassembler.base_index \in Nat
  BY KnownInStream, RecvCapacityAssumption, StreamLengthAssumption DEF IInv, Placed
<1>2. AvailableCapacity(inbound) \in Nat
  BY <1>1, RoomCounted
<1>3. LastAck(r, inbound) \in {reassembler.base_index + 1, reassembler.base_index + 2}
  BY <1>1 DEF LastAck, BytesPushed
<1>4. first < LastAck(r, inbound) + AvailableCapacity(inbound)
  BY DEF OverlapsWindow
<1>5. first \in Nat
  BY StreamLengthAssumption DEF Fin
<1>6. QED
  BY <1>1, <1>2, <1>3, <1>4, <1>5 DEF Index, Greater

(* A FIN in its place leaves the last byte known.                          *)
LEMMA EndArrives ==
  ASSUME IInv, FinInOrder, NEW first \in 0..Fin + 1, NEW end \in 0..Fin + 1, first <= end,
         FinInOrder /\ end = Fin + 1 => FinFollows(first, end),
         receiver.fin \/ (first <= Fin /\ end = Fin + 1)
  PROVE  \/ StreamLength = 0
         \/ StreamLength - 1 \in KnownBy(reassembler)
         \/ StreamLength - 1 \in
              (Index(first)..Index(first) + Count(first, end) - 1) \cap
                (reassembler.base_index..
                   reassembler.base_index + AvailableCapacity(inbound) - 1)
<1>1. CASE receiver.fin
  BY <1>1 DEF IInv, EndKnown
<1>2. CASE ~receiver.fin
  <2>1. /\ inbound.bytes_write = reassembler.base_index /\ Intact(inbound)
        /\ reassembler.base_index \in Nat
    BY KnownInStream, RecvCapacityAssumption, StreamLengthAssumption DEF IInv, Placed
  <2>2. AvailableCapacity(inbound) \in Nat
    BY <2>1, RoomCounted
  <2>3. /\ first <= Fin /\ end = Fin + 1 /\ first \in Nat /\ Fin = StreamLength + 1
        /\ StreamLength \in Nat
        /\ end - 1 <= reassembler.base_index + 1 + AvailableCapacity(inbound)
        /\ first <= StreamLength \/ reassembler.base_index = StreamLength
    BY <1>2, <2>1, StreamLengthAssumption DEF FinFollows, LastAck, BytesPushed, Fin
  <2>4. CASE reassembler.base_index >= StreamLength
    <3>1. StreamLength = 0 \/ StreamLength - 1 \in 0..reassembler.base_index - 1
      BY <2>1, <2>3, <2>4
    <3>2. QED
      BY <3>1 DEF KnownBy
  <2>5. CASE reassembler.base_index < StreamLength
    <3>1. Index(first) + Count(first, end) = StreamLength /\ Index(first) < StreamLength
          /\ Index(first) \in Nat /\ Count(first, end) \in Nat
      BY <2>1, <2>3, <2>5 DEF Index, Count, Lesser, Greater
    <3>2. StreamLength - 1 \in Index(first)..Index(first) + Count(first, end) - 1
      <4> DEFINE i == Index(first)
                 c == Count(first, end)
      <4>1. i + c = StreamLength /\ i < StreamLength /\ i \in Nat /\ c \in Nat
        BY <3>1
      <4> HIDE DEF i, c
      <4>2. StreamLength - 1 \in i..i + c - 1
        BY <2>3, <4>1
      <4>3. QED
        BY <4>2 DEF i, c
    <3>3. StreamLength - 1 \in
            reassembler.base_index..reassembler.base_index + AvailableCapacity(inbound) - 1
      BY <2>1, <2>2, <2>3, <2>5
    <3>4. QED
      BY <3>2, <3>3
  <2>6. QED
    BY <2>1, <2>3, <2>4, <2>5
<1>3. QED
  BY <1>1, <1>2

(* What receive() may do with a segment (tcp_receiver.cc:8-53).            *)
LEMMA SegmentStep ==
  ASSUME IInv, NEW first \in 0..Fin + 1, NEW end \in 0..Fin + 1,
         SegmentArrives(first, end)
  PROVE  \/ UNCHANGED vars
         \/ Recorded(first, end) /\ (Rejected \/ Accepted(first, end))
<1> DEFINE message == Segment(first, end)
           synced  == Synchronized(receiver, message)
           idx     == Index(first)
           n       == Count(first, end)
           fin     == receiver.fin \/ (first <= Fin /\ end = Fin + 1)
           called  == Insert(reassembler, idx, BytesFrom(idx, n), fin, inbound)
           overlaps == OverlapsWindow(first, end - first, LastAck(synced, inbound),
                                      AvailableCapacity(inbound))
           result  == ReceiverReceive(receiver, message, reassembler, inbound)
<1>1. /\ first <= end /\ NotAncient(first)
      /\ FinInOrder /\ end = Fin + 1 => FinFollows(first, end)
      /\ receiver' = result.receiver /\ reassembler' = result.reassembler
      /\ inbound' = result.inbound
      /\ arrived' = IF receiver'.syn THEN arrived \cup first..end - 1 ELSE arrived
      /\ peer_isn' = peer_isn
  BY DEF SegmentArrives
<1>2. CASE ~synced.syn
  <2>1. synced = receiver /\ ~receiver.syn
    BY <1>2 DEF Synchronized, IInv, ReceiverStates
  <2>2. result = [receiver |-> synced, reassembler |-> reassembler, inbound |-> inbound]
    BY <1>2 DEF ReceiverReceive
  <2>3. UNCHANGED vars
    BY <1>1, <2>1, <2>2 DEF vars
  <2>4. QED
    BY <2>3
<1>3. CASE synced.syn
  <2>1. /\ synced \in ReceiverStates
        /\ synced.isn = peer_isn /\ synced.fin = receiver.fin
        /\ Unwrap(message.seqno, synced.isn, BytesPushed(inbound)) = first
        /\ 0 \in arrived \cup first..end - 1
    BY <1>1, <1>3, Opened
  <2>2. /\ message.FIN = (first <= Fin /\ end = Fin + 1)
        /\ message.payload = BytesFrom(idx, n)
        /\ SequenceLength(message) = end - first
        /\ idx \in Nat /\ n \in Nat
        /\ n = 0 \/ idx + n <= StreamLength
        /\ (IF first >= 1 THEN first - 1 ELSE first) = idx
        /\ end - first \in Nat
    <3>1. first \in Nat /\ end \in Nat
      BY StreamLengthAssumption DEF Fin
    <3>2. (IF first >= 1 THEN first - 1 ELSE first) = idx
      BY <3>1 DEF Index, Greater
    <3>3. QED
      BY <1>1, <3>1, <3>2, SegmentMeans
  <2>3. fin \in BOOLEAN /\ fin = (synced.fin \/ message.FIN)
    BY <2>1, <2>2 DEF IInv, ReceiverStates
  <2>4. result = IF overlaps
                 THEN [receiver |-> [synced EXCEPT !.fin = fin],
                       reassembler |-> called.reassembler, inbound |-> called.output]
                 ELSE [receiver |-> synced, reassembler |-> reassembler,
                       inbound |-> inbound]
    <3> HIDE DEF message, synced, idx, n
    <3>1. \A m, s : s = Synchronized(receiver, m) /\ s.syn =>
             ReceiverReceive(receiver, m, reassembler, inbound)
               = LET abs == Unwrap(m.seqno, s.isn, BytesPushed(inbound))
                     i   == IF abs >= 1 THEN abs - 1 ELSE abs
                     f   == s.fin \/ m.FIN
                     c   == Insert(reassembler, i, m.payload, f, inbound)
                 IN  IF OverlapsWindow(abs, SequenceLength(m), LastAck(s, inbound),
                                       AvailableCapacity(inbound))
                     THEN [receiver |-> [s EXCEPT !.fin = f],
                           reassembler |-> c.reassembler, inbound |-> c.output]
                     ELSE [receiver |-> s, reassembler |-> reassembler,
                           inbound |-> inbound]
      BY DEF ReceiverReceive
    <3>2. synced = Synchronized(receiver, message)
      BY DEF synced
    <3>3. QED
      BY <1>3, <2>1, <2>2, <2>3, <3>1, <3>2
  <2>5. CASE ~overlaps
    <3>1. receiver' = synced /\ reassembler' = reassembler /\ inbound' = inbound
      BY <1>1, <2>4, <2>5
    <3> HIDE DEF synced, result, message
    <3>2. Recorded(first, end) /\ Rejected
      BY <1>1, <1>3, <2>1, <3>1 DEF Recorded, Rejected
    <3>3. QED
      BY <3>2
  <2>6. CASE overlaps
    <3>1. /\ receiver' = [synced EXCEPT !.fin = fin]
          /\ reassembler' = called.reassembler /\ inbound' = called.output
      BY <1>1, <2>4, <2>6
    <3>2. idx <= reassembler.base_index + AvailableCapacity(inbound)
      BY <2>1, <2>2, <2>6, StartsInside
    <3>3. /\ Placed(reassembler, inbound, RecvCapacity, StreamLength)
          /\ reassembler.eof = receiver.fin
      BY DEF IInv
    <3> HIDE DEF idx, n, synced, result, message, fin
    <3>4. /\ receiver' \in ReceiverStates /\ receiver'.syn /\ receiver'.isn = peer_isn
          /\ receiver'.fin = fin
      BY <1>3, <2>1, <2>3, <3>1 DEF ReceiverStates
    <3>5. Recorded(first, end)
      BY <1>1, <2>1, <3>4 DEF Recorded
    <3>6. /\ idx \in Nat /\ n \in Nat /\ fin \in BOOLEAN
          /\ n = 0 \/ idx + n <= StreamLength
          /\ reassembler' = Insert(reassembler, idx, BytesFrom(idx, n), fin, inbound).reassembler
          /\ inbound' = Insert(reassembler, idx, BytesFrom(idx, n), fin, inbound).output
      BY <2>2, <2>3, <3>1
    <3>7. /\ Placed(reassembler', inbound', RecvCapacity, StreamLength)
          /\ reassembler'.eof = (reassembler.eof \/ fin)
          /\ reassembler'.base_index >= reassembler.base_index
          /\ inbound'.close_ = (inbound.close_ \/
                                (reassembler'.unassembled_size = 0 /\ reassembler'.eof))
          /\ inbound'.bytes_read = inbound.bytes_read
          /\ KnownBy(reassembler') = KnownBy(reassembler) \cup
               ((idx..idx + n - 1) \cap
                  (reassembler.base_index..
                     reassembler.base_index + AvailableCapacity(inbound) - 1))
      BY <3>6, <3>2, <3>3, RecvCapacityAssumption, StreamLengthAssumption, InsertPlaced
    <3>8. reassembler'.eof = receiver'.fin
      BY <2>1, <2>3, <3>3, <3>4, <3>7 DEF ReceiverStates
    <3>9. ASSUME FinInOrder
          PROVE  /\ receiver'.fin => EndKnown'
                 /\ inbound'.close_ = (inbound.close_ \/ (receiver'.fin /\
                                            reassembler'.base_index = StreamLength))
      <4>1. Sound(reassembler, inbound, RecvCapacity, StreamLength)
        BY <3>3, <3>9 DEF Sound, IInv, EndKnown
      <4>2. fin => \/ StreamLength = 0
                   \/ StreamLength - 1 \in KnownBy(reassembler)
                   \/ StreamLength - 1 \in (idx..idx + n - 1) \cap
                        (reassembler.base_index..
                           reassembler.base_index + AvailableCapacity(inbound) - 1)
        BY <1>1, <3>9, EndArrives DEF fin, idx, n
      <4>3. /\ Sound(reassembler', inbound', RecvCapacity, StreamLength)
            /\ inbound'.close_ = (inbound.close_ \/
                                  (reassembler'.eof /\ reassembler'.base_index = StreamLength))
        BY <3>6, <3>2, <4>1, <4>2, RecvCapacityAssumption, StreamLengthAssumption,
           InsertSound
      <4>4. QED
        BY <3>8, <4>3 DEF Sound, EndKnown
    <3>10. Accepted(first, end)
      BY <3>4, <3>7, <3>8, <3>9 DEF Accepted, fin, idx, n
    <3>11. QED
      BY <3>5, <3>10
  <2>7. QED
    BY <2>5, <2>6
<1>4. QED
  BY <1>2, <1>3

LEMMA Reads ==
  ASSUME IInv, NEW n \in 1..RecvCapacity, ApplicationReads(n)
  PROVE  /\ n \in Nat /\ BytesBuffered(inbound) > 0 /\ inbound' = Read(inbound, n)
         /\ UNCHANGED <<receiver, reassembler, peer_isn, arrived>>
         /\ Placed(reassembler', inbound', RecvCapacity, StreamLength)
         /\ inbound'.close_ = inbound.close_
<1>1. /\ n \in Nat /\ BytesBuffered(inbound) > 0 /\ inbound' = Read(inbound, n)
      /\ UNCHANGED <<receiver, reassembler, peer_isn, arrived>>
  BY RecvCapacityAssumption DEF ApplicationReads
<1>2. Placed(reassembler, inbound, RecvCapacity, StreamLength)
  BY DEF IInv
<1>3. Placed(reassembler, Read(inbound, n), RecvCapacity, StreamLength)
  BY <1>1, <1>2, RecvCapacityAssumption, StreamLengthAssumption, ReadPlaced
<1>4. Read(inbound, n).close_ = inbound.close_
  BY <1>1, <1>2, ReadIntact DEF Placed
<1>5. QED
  BY <1>1, <1>3, <1>4

-----------------------------------------------------------------------------
(* The invariant holds at first, and every step preserves it. *)
LEMMA InitIInv == Init => IInv
<1> SUFFICES ASSUME Init PROVE IInv
  OBVIOUS
<1>1. /\ receiver = NewReceiver /\ reassembler = NewReassembler
      /\ inbound = NewByteStream(RecvCapacity) /\ peer_isn \in SequenceNumber
  BY PeerIsnAssumption DEF Init
<1>2. /\ Placed(reassembler, inbound, RecvCapacity, StreamLength)
      /\ KnownBy(reassembler) = {}
  BY <1>1, NewSound, RecvCapacityAssumption, StreamLengthAssumption DEF Sound
<1>3. /\ receiver \in ReceiverStates /\ ~receiver.syn /\ ~receiver.fin
      /\ receiver.fin = FALSE /\ reassembler.eof = FALSE /\ inbound.close_ = FALSE
  BY <1>1, Word32Assumption
     DEF NewReceiver, ReceiverStates, SequenceNumber, NewReassembler, NewByteStream
<1>4. QED
  BY <1>1, <1>2, <1>3 DEF IInv

LEMMA SegmentIInv ==
  ASSUME IInv, NEW first \in 0..Fin + 1, NEW end \in 0..Fin + 1,
         SegmentArrives(first, end)
  PROVE  IInv'
<1>1. CASE UNCHANGED vars
  BY <1>1 DEF IInv, vars, EndKnown
<1>2. CASE Recorded(first, end) /\ Rejected
  <2>1. /\ arrived \subseteq arrived' /\ reassembler' = reassembler /\ inbound' = inbound
        /\ receiver'.fin = receiver.fin
    BY <1>2 DEF Recorded, Rejected
  <2>2. QED
    BY <1>2, <2>1 DEF IInv, Recorded, EndKnown
<1>3. CASE Recorded(first, end) /\ Accepted(first, end)
  <2>1. /\ first \in Nat /\ end \in Nat /\ Fin \in Nat /\ first <= end
    BY StreamLengthAssumption DEF Fin, SegmentArrives
  <2>2. \A i \in KnownBy(reassembler') : i + 1 \in arrived'
    <3>1. \A i \in Index(first)..Index(first) + Count(first, end) - 1 :
             i + 1 \in first..end - 1
      BY <2>1, SegmentMeans
    <3>2. QED
      BY <1>3, <3>1 DEF IInv, Recorded, Accepted
  <2>3. receiver'.fin => Fin \in arrived'
    <3>1. CASE receiver.fin
      BY <1>3, <3>1 DEF IInv, Recorded
    <3>2. CASE first <= Fin /\ end = Fin + 1
      BY <1>3, <2>1, <3>2 DEF Recorded
    <3>3. QED
      BY <1>3, <3>1, <3>2 DEF Accepted
  <2>4. ASSUME FinInOrder
        PROVE  inbound'.close_ <=> receiver'.fin /\ reassembler'.base_index = StreamLength
    <3>1. CASE inbound.close_
      <4>1. receiver.fin /\ reassembler.base_index = StreamLength /\ inbound'.close_
        BY <1>3, <2>4, <3>1 DEF IInv, Accepted
      <4>2. /\ receiver'.fin /\ reassembler'.base_index >= StreamLength
            /\ Placed(reassembler', inbound', RecvCapacity, StreamLength)
        BY <1>3, <4>1 DEF Accepted
      <4>3. reassembler'.base_index \in Nat /\ reassembler'.base_index <= StreamLength
        BY <4>2, KnownInStream, RecvCapacityAssumption, StreamLengthAssumption DEF Placed
      <4>4. QED
        BY <4>1, <4>2, <4>3, StreamLengthAssumption
    <3>2. CASE ~inbound.close_
      BY <1>3, <2>4, <3>2 DEF Accepted
    <3>3. QED
      BY <3>1, <3>2
  <2>5. QED
    BY <1>3, <2>2, <2>3, <2>4 DEF IInv, Recorded, Accepted
<1>4. QED
  BY <1>1, <1>2, <1>3, SegmentStep

LEMMA NextIInv == IInv /\ [Next]_vars => IInv'
<1> SUFFICES ASSUME IInv, [Next]_vars PROVE IInv'
  OBVIOUS
<1>1. ASSUME NEW first \in 0..Fin + 1, NEW end \in 0..Fin + 1, SegmentArrives(first, end)
      PROVE  IInv'
  BY <1>1, SegmentIInv
<1>2. ASSUME NEW n \in 1..RecvCapacity, ApplicationReads(n)
      PROVE  IInv'
  BY <1>2, Reads DEF IInv, EndKnown
<1>3. CASE UNCHANGED vars
  BY <1>3 DEF IInv, vars, EndKnown
<1>4. QED
  BY <1>1, <1>2, <1>3 DEF Next

LEMMA IInvAlways == Spec => []IInv
BY InitIInv, NextIInv, PTL DEF Spec

-----------------------------------------------------------------------------
(* The counters of the inbound stream in a state of the invariant. *)
LEMMA Counted ==
  ASSUME IInv
  PROVE  /\ Intact(inbound) /\ inbound.capacity_ = RecvCapacity
         /\ BytesPushed(inbound) = reassembler.base_index
         /\ BytesPushed(inbound) \in 0..StreamLength /\ StreamLength \in Nat
         /\ AvailableCapacity(inbound) \in 0..RecvCapacity
         /\ AvailableCapacity(inbound)
              = RecvCapacity - (inbound.bytes_write - inbound.bytes_read)
         /\ inbound.bytes_read \in Nat /\ inbound.close_ \in BOOLEAN
         /\ receiver.fin \in BOOLEAN
<1>1. /\ Placed(reassembler, inbound, RecvCapacity, StreamLength)
      /\ receiver.fin \in BOOLEAN
  BY DEF IInv, ReceiverStates
<1>2. /\ Intact(inbound) /\ inbound.capacity_ = RecvCapacity
      /\ inbound.bytes_write = reassembler.base_index
      /\ reassembler.base_index <= StreamLength
  BY <1>1 DEF Placed
<1>3. reassembler.base_index \in Nat
  BY <1>1, KnownInStream, RecvCapacityAssumption, StreamLengthAssumption
<1>4. QED
  BY <1>1, <1>2, <1>3, RoomCounted, StreamLengthAssumption DEF BytesPushed

(* Every variable keeps its type, and what is sent fits the fields of the  *)
(* header: the window is clamped to 16 bits (src/src/tcp_receiver.cc:62).  *)
THEOREM TypeCorrect == Spec => []TypeOK
<1>1. IInv => TypeOK
  <2> SUFFICES ASSUME IInv PROVE TypeOK
    OBVIOUS
  <2>1. /\ receiver \in ReceiverStates /\ peer_isn \in SequenceNumber
        /\ reassembler \in ReassemblerStates(IF reassembler.initialized
                                             THEN RecvCapacity ELSE 0)
        /\ inbound \in StreamStates
    BY DEF IInv, Placed, Holds, Intact
  <2>2. LastAck(receiver, inbound) \in Nat
    BY Counted DEF LastAck
  <2>3. Wrap(LastAck(receiver, inbound), receiver.isn) \in SequenceNumber
    <3>1. receiver.isn \in SequenceNumber
      BY <2>1 DEF ReceiverStates
    <3>2. QED
      BY <2>2, <3>1, WrapInRange
  <2>4. Lesser(AvailableCapacity(inbound), Word16 - 1) \in 0..Word16 - 1
    BY Counted, Word16Assumption, RecvCapacityAssumption DEF Lesser
  <2>5. ReceiverSend(receiver, inbound) \in ReceiverMessages
    BY <2>3, <2>4 DEF ReceiverSend, ReceiverMessages
  <2>6. QED
    BY <2>1, <2>5 DEF TypeOK
<1>2. QED
  BY <1>1, IInvAlways, PTL

(* What arrives out of order, twice, in pieces or across a wrap of the     *)
(* sequence numbers is written at its own place in the stream              *)
(* (src/src/tcp_receiver.cc:25-37, 50).                                    *)
THEOREM BytesInPlace == Spec => []ContentIntegrity
<1>1. IInv => ContentIntegrity
  BY DEF IInv, Placed, Holds, ContentIntegrity, BytesPushed, Pending, PendingOf
<1>2. QED
  BY <1>1, IInvAlways, PTL

(* No segment the network can deliver makes the receiver insert a          *)
(* substring that starts beyond the window, where an unsigned length would *)
(* wrap (src/src/tcp_receiver.cc:39-48, src/src/reassembler.cc:22).        *)
THEOREM InsertsInsideWindow == Spec => []GuardsReassembler
<1>1. IInv => GuardsReassembler
  <2> SUFFICES ASSUME IInv, NEW first \in 0..Fin + 1, NEW end \in 0..Fin + 1,
                      first <= end, NotAncient(first),
                      Synchronized(receiver, Segment(first, end)).syn,
                      OverlapsWindow(
                        Unwrap(Segment(first, end).seqno,
                               Synchronized(receiver, Segment(first, end)).isn,
                               BytesPushed(inbound)),
                        SequenceLength(Segment(first, end)),
                        LastAck(Synchronized(receiver, Segment(first, end)), inbound),
                        AvailableCapacity(inbound))
               PROVE  Unwrap(Segment(first, end).seqno,
                             Synchronized(receiver, Segment(first, end)).isn,
                             BytesPushed(inbound)) - 1
                        <= reassembler.base_index + AvailableCapacity(inbound)
    BY DEF GuardsReassembler
  <2> DEFINE synced == Synchronized(receiver, Segment(first, end))
             abs    == Unwrap(Segment(first, end).seqno, synced.isn, BytesPushed(inbound))
  <2>1. abs = first /\ synced.fin = receiver.fin
    BY Opened
  <2>2. SequenceLength(Segment(first, end)) = end - first /\ end - first \in Nat
    BY SegmentMeans, StreamLengthAssumption DEF Fin
  <2>3. OverlapsWindow(first, end - first, LastAck(synced, inbound),
                       AvailableCapacity(inbound))
    BY <2>1, <2>2
  <2> HIDE DEF synced
  <2>4. first - 1 <= reassembler.base_index + AvailableCapacity(inbound)
    BY <2>1, <2>2, <2>3, StartsInside
  <2>5. QED
    BY <2>1, <2>4 DEF synced
<1>2. QED
  BY <1>1, IInvAlways, PTL

(* When every FIN comes in its place, no acknowledgment covers a number    *)
(* that did not arrive, so the sender forgets nothing the receiver still   *)
(* needs (src/src/tcp_receiver.cc:19-23, 55-59).  MCTCPReceiverEarlyFin    *)
(* shows that the hypothesis is needed.                                    *)
THEOREM AcksAreTrue == FinInOrder => (Spec => []AckCoversOnlyArrived)
<1> SUFFICES ASSUME FinInOrder PROVE Spec => []AckCoversOnlyArrived
  OBVIOUS
<1>1. IInv => AckCoversOnlyArrived
  <2> SUFFICES ASSUME IInv, receiver.syn, NEW x \in 0..Acknowledged - 1
               PROVE  x \in arrived
    BY DEF AckCoversOnlyArrived
  <2>1. /\ 0 \in arrived /\ \A i \in KnownBy(reassembler) : i + 1 \in arrived
        /\ receiver.fin => Fin \in arrived
        /\ inbound.close_ => reassembler.base_index = StreamLength
    BY Zenon DEF IInv
  <2>2. /\ BytesPushed(inbound) = reassembler.base_index
        /\ reassembler.base_index \in Nat /\ StreamLength \in Nat
    BY Counted
  <2>3. Acknowledged = reassembler.base_index + 1
                         + (IF receiver.fin /\ inbound.close_ THEN 1 ELSE 0)
    BY <2>2 DEF Acknowledged, LastAck, IsClosed
  <2>4. CASE x = 0
    BY <2>1, <2>4
  <2>5. CASE x \in 1..reassembler.base_index
    <3>1. x - 1 \in KnownBy(reassembler) /\ x = (x - 1) + 1
      BY <2>2, <2>5 DEF KnownBy
    <3>2. QED
      BY <2>1, <3>1
  <2>6. CASE x > reassembler.base_index
    <3>1. x = reassembler.base_index + 1 /\ receiver.fin /\ inbound.close_
      BY <2>2, <2>3, <2>6
    <3>2. QED
      BY <2>1, <3>1 DEF Fin
  <2>7. QED
    BY <2>2, <2>3, <2>4, <2>5, <2>6
<1>2. QED
  BY <1>1, IInvAlways, PTL

(* Then the application is told that the stream ended as soon as, and not  *)
(* before, its last byte is written and the FIN is accepted, and a FIN is  *)
(* accepted only if it arrived (src/src/tcp_receiver.cc:42-45,             *)
(* src/src/reassembler.cc:77-84).                                          *)
THEOREM EndIsTrue == FinInOrder => (Spec => []EofIsExact)
<1> SUFFICES ASSUME FinInOrder PROVE Spec => []EofIsExact
  OBVIOUS
<1>1. IInv => EofIsExact
  BY Counted DEF IInv, EofIsExact, IsClosed
<1>2. QED
  BY <1>1, IInvAlways, PTL

\* What was written and read, and the end, are not taken back; one step does not
\* both write and read.
Advances ==
  /\ reassembler'.base_index >= reassembler.base_index
  /\ inbound'.bytes_read >= inbound.bytes_read
  /\ \/ reassembler'.base_index = reassembler.base_index
     \/ inbound'.bytes_read = inbound.bytes_read
  /\ receiver.fin => receiver'.fin
  /\ inbound.close_ => inbound'.close_

(* Whatever arrives and whatever the application reads, neither the        *)
(* acknowledgment nor the right edge of the window moves back              *)
(* (src/src/tcp_receiver.cc:55-63).                                        *)
THEOREM WindowKept == Spec => WindowNeverRetreats
<1>1. IInv /\ IInv' /\ [Next]_vars
        => [Acknowledged' >= Acknowledged /\ RightEdge' >= RightEdge]_vars
  <2> SUFFICES ASSUME IInv, IInv', [Next]_vars, vars' # vars
               PROVE  Acknowledged' >= Acknowledged /\ RightEdge' >= RightEdge
    BY DEF vars
  <2> DEFINE delta == IF receiver.fin /\ inbound.close_ THEN 1 ELSE 0
             avail == AvailableCapacity(inbound)
  <2>1. /\ Acknowledged = reassembler.base_index + 1 + delta
        /\ Acknowledged' = reassembler'.base_index + 1 + delta'
        /\ RightEdge = reassembler.base_index + 1 + delta + Lesser(avail, Word16 - 1)
        /\ RightEdge' = reassembler'.base_index + 1 + delta' + Lesser(avail', Word16 - 1)
    <3>1. BytesPushed(inbound) = reassembler.base_index
      BY Counted
    <3>2. BytesPushed(inbound') = reassembler'.base_index
      BY DEF IInv, Placed, BytesPushed
    <3>3. QED
      BY <3>1, <3>2 DEF RightEdge, Acknowledged, LastAck, IsClosed, ReceiverSend
  <2>2. /\ avail = RecvCapacity - (reassembler.base_index - inbound.bytes_read)
        /\ avail \in Nat /\ reassembler.base_index \in Nat /\ inbound.bytes_read \in Nat
        /\ RecvCapacity \in Nat /\ Word16 \in Nat \ {0}
        /\ Intact(inbound)
    BY Counted, RecvCapacityAssumption, Word16Assumption DEF BytesPushed
  <2>3. /\ avail' = RecvCapacity - (reassembler'.base_index - inbound'.bytes_read)
        /\ avail' \in Nat /\ reassembler'.base_index \in Nat /\ inbound'.bytes_read \in Nat
    <3>1. Placed(reassembler', inbound', RecvCapacity, StreamLength)
      BY DEF IInv
    <3>2. /\ Intact(inbound') /\ inbound'.capacity_ = RecvCapacity
          /\ inbound'.bytes_write = reassembler'.base_index
      BY <3>1 DEF Placed
    <3>3. QED
      BY <3>2, RoomCounted
  <2>4. Advances
    <3>1. ASSUME NEW first \in 0..Fin + 1, NEW end \in 0..Fin + 1,
                 SegmentArrives(first, end)
          PROVE  Advances
      <4>1. Recorded(first, end) /\ (Rejected \/ Accepted(first, end))
        BY <3>1, SegmentStep
      <4>2. CASE Rejected
        BY <2>2, <4>2 DEF Rejected, Advances
      <4>3. CASE Accepted(first, end)
        <5>1. receiver.fin => receiver'.fin
          BY <4>3, Zenon DEF Accepted
        <5>2. QED
          BY <2>2, <4>3, <5>1 DEF Accepted, Advances
      <4>4. QED
        BY <4>1, <4>2, <4>3
    <3>2. ASSUME NEW n \in 1..RecvCapacity, ApplicationReads(n)
          PROVE  Advances
      <4>1. /\ n \in Nat /\ inbound' = Read(inbound, n)
            /\ UNCHANGED <<receiver, reassembler>>
            /\ inbound'.close_ = inbound.close_
        BY <3>2, Reads
      <4>2. /\ Read(inbound, n).bytes_read = inbound.bytes_read + Len(ReadOut(inbound, n))
            /\ Len(ReadOut(inbound, n)) \in 0..Len(inbound.stream)
        BY <2>2, <4>1, ReadIntact
      <4>3. Len(inbound.stream) \in Nat
        BY <2>2, RoomCounted
      <4>4. inbound'.bytes_read >= inbound.bytes_read
        BY <2>2, <4>1, <4>2, <4>3
      <4>5. QED
        BY <2>2, <4>1, <4>4 DEF Advances
    <3>3. QED
      BY <3>1, <3>2 DEF Next
  <2>5. delta \in {0, 1} /\ delta' \in {0, 1} /\ delta' >= delta
    BY <2>4 DEF Advances
  <2> HIDE DEF delta, avail
  <2>6. QED
    BY <2>1, <2>2, <2>3, <2>4, <2>5 DEF Lesser, Advances
<1>2. QED
  BY <1>1, IInvAlways, PTL DEF Spec, WindowNeverRetreats

-----------------------------------------------------------------------------
(* When every FIN comes in its place, the receiver keeps the promise of    *)
(* the Reassembler for the peer's whole stream: each segment teaches it    *)
(* the part of its payload inside the window or nothing, what is           *)
(* contiguous is written, the end comes with the last byte                 *)
(* (src/src/tcp_receiver.cc:8-53, src/src/reassembler.hh:25-36).           *)
THEOREM KeepsContract == FinInOrder => (Spec => ImplementsContract)
<1> SUFFICES ASSUME FinInOrder PROVE Spec => ImplementsContract
  OBVIOUS
<1> DEFINE known == 0..reassembler.base_index - 1
                      \cup {reassembler.base_index + o : o \in Pending}
<1>1. known = KnownBy(reassembler)
  BY DEF Pending, PendingOf, KnownBy
<1>2. known' = KnownBy(reassembler')
  BY DEF Pending, PendingOf, KnownBy
<1>3. Init => Contract!CInit
  <2> SUFFICES ASSUME Init PROVE Contract!CInit
    OBVIOUS
  <2>1. reassembler = NewReassembler /\ inbound = NewByteStream(RecvCapacity)
    BY DEF Init
  <2>2. known = {}
    BY <1>1, <2>1, NewSound, RecvCapacityAssumption, StreamLengthAssumption
  <2>3. /\ inbound.bytes_write = 0 /\ inbound.bytes_read = 0 /\ inbound.close_ = FALSE
        /\ reassembler.eof = FALSE
    BY <2>1 DEF NewByteStream, NewReassembler
  <2>4. QED
    BY <2>2, <2>3 DEF Contract!CInit, BytesPushed, BytesPopped, IsClosed
<1>4. IInv /\ IInv' /\ [Next]_vars => [Contract!CNext]_Contract!cvars
  <2> SUFFICES ASSUME IInv, IInv', [Next]_vars PROVE [Contract!CNext]_Contract!cvars
    OBVIOUS
  <2>1. ASSUME NEW first \in 0..Fin + 1, NEW end \in 0..Fin + 1, Accepted(first, end)
        PROVE  \E from, to \in 0..StreamLength, is_last \in BOOLEAN :
                 Contract!Learn(from..to - 1, is_last)
    <3> DEFINE idx     == Index(first)
               n       == Count(first, end)
               from    == IF n = 0 THEN 0 ELSE idx
               to      == IF n = 0 THEN 0 ELSE idx + n
               is_last == first <= Fin /\ end = Fin + 1
    <3>1. /\ idx \in Nat /\ n \in Nat /\ StreamLength \in Nat
          /\ n = 0 \/ idx + n <= StreamLength
      BY StreamLengthAssumption DEF Index, Count, Greater, Lesser, Fin
    <3> HIDE DEF idx, n
    <3>2. /\ from \in 0..StreamLength /\ to \in 0..StreamLength
          /\ from..to - 1 = idx..idx + n - 1
      BY <3>1
    <3>3. /\ inbound.bytes_write = reassembler.base_index
          /\ inbound'.bytes_write = reassembler'.base_index
          /\ reassembler'.base_index \in 0..StreamLength
          /\ reassembler'.base_index \notin KnownBy(reassembler')
          /\ 0..reassembler'.base_index - 1 \subseteq KnownBy(reassembler')
      <4>1. /\ Placed(reassembler, inbound, RecvCapacity, StreamLength)
            /\ Placed(reassembler', inbound', RecvCapacity, StreamLength)
        BY DEF IInv
      <4>2. /\ reassembler'.base_index \in Nat
            /\ reassembler'.base_index \notin KnownBy(reassembler')
        BY <4>1, KnownInStream, RecvCapacityAssumption, StreamLengthAssumption
      <4>3. QED
        BY <3>1, <4>1, <4>2 DEF Placed, KnownBy
    <3>4. reassembler.base_index + AvailableCapacity(inbound) - 1
            = inbound.bytes_read + RecvCapacity - 1
      BY <3>3, Counted, RecvCapacityAssumption
    <3>5. KnownBy(reassembler') = KnownBy(reassembler) \cup
            ((idx..idx + n - 1) \cap
               (reassembler.base_index..
                  reassembler.base_index + AvailableCapacity(inbound) - 1))
      BY <2>1 DEF Accepted, idx, n
    <3> HIDE DEF known
    <3>6. known' = known \cup ((from..to - 1) \cap Contract!Window)
      BY <1>1, <1>2, <3>2, <3>3, <3>4, <3>5 DEF Contract!Window, BytesPushed, BytesPopped
    <3>7. /\ inbound'.bytes_write \in 0..StreamLength
          /\ inbound'.bytes_write \notin known'
          /\ 0..inbound'.bytes_write - 1 \subseteq known'
      BY <1>2, <3>3
    <3>8. reassembler'.eof = (reassembler.eof \/ is_last)
      BY <2>1 DEF Accepted, IInv
    <3>9. inbound'.close_ = (inbound.close_ \/ (reassembler'.eof /\
                                                inbound'.bytes_write = StreamLength))
      BY <2>1, <3>3 DEF Accepted
    <3>10. inbound'.bytes_read = inbound.bytes_read
      BY <2>1 DEF Accepted
    <3> HIDE DEF from, to, is_last
    <3>11. Contract!Learn(from..to - 1, is_last)
      BY <3>6, <3>7, <3>8, <3>9, <3>10
         DEF known, Contract!Learn, BytesPushed, BytesPopped, IsClosed
    <3>12. is_last \in BOOLEAN
      BY DEF is_last
    <3>13. QED
      BY <3>2, <3>11, <3>12
  <2>2. ASSUME NEW first \in 0..Fin + 1, NEW end \in 0..Fin + 1,
               SegmentArrives(first, end)
        PROVE  [Contract!CNext]_Contract!cvars
    <3>1. CASE Accepted(first, end)
      BY <2>1, <3>1 DEF Contract!CNext
    <3>2. CASE Rejected \/ UNCHANGED vars
      BY <3>2 DEF Rejected, vars, Contract!cvars, Pending, BytesPushed, BytesPopped,
                  IsClosed
    <3>3. QED
      BY <2>2, <3>1, <3>2, SegmentStep
  <2>3. ASSUME NEW n \in 1..RecvCapacity, ApplicationReads(n)
        PROVE  Contract!Take(Len(ReadOut(inbound, n)))
               /\ Len(ReadOut(inbound, n)) \in 1..RecvCapacity
    <3>1. /\ n \in Nat /\ n # 0 /\ BytesBuffered(inbound) > 0
          /\ inbound' = Read(inbound, n) /\ reassembler' = reassembler
      BY <2>3, Reads
    <3>2. Intact(inbound) /\ inbound.capacity_ = RecvCapacity
      BY Counted
    <3>3. /\ Len(ReadOut(inbound, n)) = Lesser(n, BytesBuffered(inbound))
          /\ Len(ReadOut(inbound, n)) \in 0..Len(inbound.stream)
          /\ inbound'.bytes_read = inbound.bytes_read + Len(ReadOut(inbound, n))
          /\ inbound'.bytes_write = inbound.bytes_write
          /\ inbound'.close_ = inbound.close_
      BY <3>1, <3>2, ReadIntact
    <3>4. /\ inbound.bytes_write = inbound.bytes_read + Len(inbound.stream)
          /\ Len(inbound.stream) \in Nat /\ Len(inbound.stream) <= RecvCapacity
          /\ BytesBuffered(inbound) = Len(inbound.stream) /\ inbound.bytes_read \in Nat
      BY <3>2, RoomCounted DEF Intact
    <3>5. known' = known
      BY <1>1, <1>2, <3>1
    <3>6. Len(ReadOut(inbound, n)) \in 1..RecvCapacity
      BY <3>1, <3>3, <3>4, RecvCapacityAssumption DEF Lesser
    <3> HIDE DEF known
    <3>7. Contract!Take(Len(ReadOut(inbound, n)))
      BY <3>1, <3>3, <3>4, <3>5
         DEF known, Contract!Take, BytesPushed, BytesPopped, IsClosed
    <3>8. QED
      BY <3>6, <3>7
  <2>4. CASE UNCHANGED vars
    BY <2>4 DEF vars, Contract!cvars, Pending, BytesPushed, BytesPopped, IsClosed
  <2>5. QED
    BY <2>2, <2>3, <2>4 DEF Next, Contract!CNext
<1>5. QED
  BY <1>3, <1>4, IInvAlways, PTL DEF Spec, ImplementsContract, Contract!CSpec

=============================================================================
