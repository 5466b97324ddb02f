--------------------------- MODULE TCPReceiverSpec --------------------------
(***************************************************************************)
(* A TCPReceiver with its Reassembler and inbound stream, as TCPPeer owns  *)
(* them (src/util/tcp_peer.hh:16-19), on a network that delivers the       *)
(* segments of one peer in any order, cut anywhere, any number of times,   *)
(* or not at all.  Absolute sequence numbers: 0 is the SYN, i + 1 is byte  *)
(* i, StreamLength + 1 is the FIN.                                         *)
(***************************************************************************)
EXTENDS TCPReceiver

CONSTANTS RecvCapacity,   \* of the inbound stream
          StreamLength,   \* bytes the peer sends before its FIN
          PeerIsn,        \* the isn the peer may have chosen
          FinInOrder      \* TRUE: no FIN is delivered that leaves a gap before
                          \* it or is cut off the segment it ends

ASSUME RecvCapacityAssumption == RecvCapacity \in Nat
\* The 64-bit absolute numbers of one stream do not wrap.
ASSUME StreamLengthAssumption ==
  StreamLength \in Nat /\ StreamLength + 2 * Word32 < Word64
ASSUME PeerIsnAssumption == PeerIsn \subseteq SequenceNumber
ASSUME FinInOrderAssumption == FinInOrder \in BOOLEAN

VARIABLES receiver, reassembler, inbound,
          peer_isn,  \* what the peer chose
          arrived    \* history: the absolute numbers in segments delivered

vars == <<receiver, reassembler, inbound, peer_isn, arrived>>

Fin == StreamLength + 1

Init == /\ receiver = NewReceiver
        /\ reassembler = NewReassembler
        /\ inbound = NewByteStream(RecvCapacity)
        /\ peer_isn \in PeerIsn
        /\ arrived = {}

\* The peer's segment of the absolute sequence numbers first .. end - 1.
Segment(first, end) ==
  [seqno   |-> Wrap(first, peer_isn),
   SYN     |-> first = 0 /\ end > 0,
   payload |-> LET from == Greater(first, 1)
                   to   == Lesser(end, Fin)
               IN  BytesFrom(from - 1, IF to > from THEN to - from ELSE 0),
   FIN     |-> first <= Fin /\ end = Fin + 1]

\* Sequence numbers are compared modulo Word32: the network delivers nothing
\* that is half the sequence space away from the receiver's checkpoint.
NotAncient(first) ==
  2 * AbsoluteDelta(first, BytesPushed(inbound)) < Word32

\* The FIN comes in its place: with room for the bytes of its segment or, without
\* bytes, after the last of them was written.
FinFollows(first, end) ==
  /\ end - 1 <= LastAck(receiver, inbound) + AvailableCapacity(inbound)
  /\ first <= StreamLength \/ BytesPushed(inbound) = StreamLength

SegmentArrives(first, end) ==
  /\ first <= end
  /\ NotAncient(first)
  /\ FinInOrder /\ end = Fin + 1 => FinFollows(first, end)
  /\ \E result \in {ReceiverReceive(receiver, Segment(first, end),
                                    reassembler, inbound)} :
       /\ receiver' = result.receiver
       /\ reassembler' = result.reassembler
       /\ inbound' = result.inbound
  /\ arrived' = IF receiver'.syn THEN arrived \cup first..end - 1 ELSE arrived
  /\ UNCHANGED peer_isn

ApplicationReads(n) ==
  /\ BytesBuffered(inbound) > 0
  /\ inbound' = Read(inbound, n)
  /\ UNCHANGED <<receiver, reassembler, peer_isn, arrived>>

Next == \/ \E first, end \in 0..Fin + 1 : SegmentArrives(first, end)
        \/ \E n \in 1..RecvCapacity : ApplicationReads(n)

Spec == Init /\ [][Next]_vars

-----------------------------------------------------------------------------
\* What the receiver acknowledges and offers, as absolute numbers.
Acknowledged == LastAck(receiver, inbound)

RightEdge == Acknowledged + ReceiverSend(receiver, inbound).window_size

Pending == {o \in 0..reassembler.size - 1 : reassembler.buffer[o] # Empty}

(* Every variable keeps its type; the message sent fits its 16- and 32-bit *)
(* fields.                                                                 *)
TypeOK ==
  /\ receiver \in ReceiverStates
  /\ reassembler \in ReassemblerStates(IF reassembler.initialized
                                       THEN RecvCapacity ELSE 0)
  /\ inbound \in StreamStates
  /\ ReceiverSend(receiver, inbound) \in ReceiverMessages

(* The acknowledgment covers no sequence number that did not arrive: the   *)
(* sender may forget what is acknowledged (tcp_receiver.cc:19-23, 55-59).  *)
AckCoversOnlyArrived ==
  receiver.syn => 0..Acknowledged - 1 \subseteq arrived

(* What arrives out of order, twice, in pieces or across a wrap of the     *)
(* sequence numbers is written at its own place in the stream              *)
(* (tcp_receiver.cc:25-37, 50).                                            *)
ContentIntegrity ==
  /\ Intact(inbound)
  /\ reassembler.base_index = BytesPushed(inbound)
  /\ \A o \in Pending : reassembler.buffer[o] = reassembler.base_index + o

(* No segment that can arrive makes the receiver call Reassembler::insert  *)
(* with a substring that starts beyond the window, where the unsigned      *)
(* length of reassembler.cc:22 would wrap (tcp_receiver.cc:39-48).         *)
GuardsReassembler ==
  \A first, end \in 0..Fin + 1 :
    LET message == Segment(first, end)
        synced == Synchronized(receiver, message)
        abs == Unwrap(message.seqno, synced.isn, BytesPushed(inbound))
    IN  /\ first <= end /\ NotAncient(first) /\ synced.syn
        /\ OverlapsWindow(abs, SequenceLength(message),
                          LastAck(synced, inbound), AvailableCapacity(inbound))
        => abs - 1 <= reassembler.base_index + AvailableCapacity(inbound)

(* The end of the stream is reported to the application neither early nor  *)
(* late: as soon as, and not before, its last byte is written and the      *)
(* peer's FIN is accepted, which is a FIN that arrived                     *)
(* (tcp_receiver.cc:42-45, reassembler.cc:77-84).                          *)
EofIsExact ==
  /\ IsClosed(inbound) <=> receiver.fin /\ BytesPushed(inbound) = StreamLength
  /\ receiver.fin => Fin \in arrived

(* Neither edge of the window offered to the sender ever moves back: what  *)
(* was acknowledged stays so, and what the sender was allowed to send      *)
(* stays acceptable (tcp_receiver.cc:55-63).                               *)
WindowNeverRetreats ==
  [][Acknowledged' >= Acknowledged /\ RightEdge' >= RightEdge]_vars

(* Between the segments and the application the receiver keeps the         *)
(* contract of the Reassembler: what falls into the window is kept, what   *)
(* is contiguous is written, the end comes with the last byte.             *)
Contract ==
  INSTANCE ReassemblyContract
    WITH Capacity <- RecvCapacity,
         known <- 0..reassembler.base_index - 1
                  \cup {reassembler.base_index + o : o \in Pending},
         pushed <- BytesPushed(inbound),
         popped <- BytesPopped(inbound),
         ended <- reassembler.eof,
         closed <- IsClosed(inbound)

ImplementsContract == Contract!CSpec

=============================================================================
