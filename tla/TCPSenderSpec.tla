---------------------------- MODULE TCPSenderSpec ---------------------------
(***************************************************************************)
(* A TCPSender with its outbound stream, as TCPPeer owns them              *)
(* (src/util/tcp_peer.hh:15-19), against a peer that acknowledges what it  *)
(* received in order, drops what its window has no room for, and reopens   *)
(* the window without saying so.  The network loses messages, and loses,   *)
(* delays and repeats acknowledgments; a message that is not lost reaches  *)
(* the peer at once, its delay being part of the acknowledgment's.         *)
(* Absolute sequence numbers: 0 is the SYN, i + 1 is byte i,               *)
(* StreamLength + 1 is the FIN.                                            *)
(***************************************************************************)
EXTENDS TCPSender

CONSTANTS SendCapacity,       \* of the outbound stream
          StreamLength,       \* bytes the application sends
          PeerCapacity,       \* largest window of the peer
          Isn,
          AcksReordered,      \* TRUE: an acknowledgment may be overtaken
          MaxRetransmissions  \* bound on consecutive timeouts with backoff: no
                              \* message is lost when it is reached

ASSUME SendCapacityAssumption == SendCapacity \in Nat
\* The absolute sequence numbers of one stream stay below 2^64.
ASSUME StreamLengthAssumption ==
  StreamLength \in Nat /\ StreamLength + 2 + 2 * Word32 < Word64
ASSUME PeerCapacityAssumption == PeerCapacity \in 0..Word16 - 1
ASSUME IsnAssumption == Isn \in SequenceNumber
ASSUME AcksReorderedAssumption == AcksReordered \in BOOLEAN
ASSUME MaxRetransmissionsAssumption == MaxRetransmissions \in Nat

VARIABLES sender, outbound,
          peer_next,  \* the peer received the numbers below this one
          peer_edge,  \* and has room for those below this one
          acks        \* acknowledgments that may still arrive, once or more:
                      \* a set of <<peer_next, peer_edge>>

vars == <<sender, outbound, peer_next, peer_edge, acks>>

Fin == StreamLength + 1

Init == /\ sender = NewSender(Isn)
        /\ outbound = NewByteStream(SendCapacity)
        /\ peer_next = 0
        /\ peer_edge = 1
        /\ acks = {}

-----------------------------------------------------------------------------
(* The sender's side: TCPPeer calls these. *)

ApplicationWrites(n) ==
  /\ BytesPushed(outbound) + n <= StreamLength
  /\ n <= AvailableCapacity(outbound)
  /\ outbound' = Push(outbound, BytesFrom(BytesPushed(outbound), n))
  /\ UNCHANGED <<sender, peer_next, peer_edge, acks>>

ApplicationCloses ==
  /\ BytesPushed(outbound) = StreamLength
  /\ ~IsClosed(outbound)
  /\ outbound' = Close(outbound)
  /\ UNCHANGED <<sender, peer_next, peer_edge, acks>>

Pushes ==
  /\ \E result \in {SenderPush(sender, outbound)} :
       /\ sender' = result.sender
       /\ outbound' = result.outbound
  /\ UNCHANGED <<peer_next, peer_edge, acks>>

\* The absolute numbers a message occupies, as the peer reads them.
FirstOf(message) == Unwrap(message.seqno, Isn, peer_next)

EndOf(message) == FirstOf(message) + SequenceLength(message)

SendsLost ==
  /\ sender.send_messages_ # << >>
  /\ sender.consecutive_retransmissions_ < MaxRetransmissions
  /\ sender' = AfterMaybeSend(sender)
  /\ UNCHANGED <<outbound, peer_next, peer_edge, acks>>

\* Every message that arrives is answered, also an old or an unacceptable one.
SendsDelivered ==
  /\ sender.send_messages_ # << >>
  /\ sender' = AfterMaybeSend(sender)
  /\ peer_next' = LET message == MaybeSendMessage(sender)
                   IN  IF FirstOf(message) <= peer_next
                       THEN Greater(peer_next, Lesser(EndOf(message), peer_edge))
                       ELSE peer_next
  /\ acks' = acks \cup {<<peer_next', peer_edge>>}
  /\ UNCHANGED <<outbound, peer_edge>>

\* One millisecond passes; TCPMinnowSocket empties send_messages_ before the next
\* tick (src/util/tcp_minnow_socket.cc:45-49).
Ticks ==
  /\ sender.send_messages_ = << >>
  /\ Expires(sender, 1) /\ BacksOff(sender)
       => sender.consecutive_retransmissions_ < MaxRetransmissions
  /\ sender' = SenderTick(sender, 1)
  /\ UNCHANGED <<outbound, peer_next, peer_edge, acks>>

\* An acknowledgment may come late, again or not at all.
AckArrives(ack) ==
  /\ ack \in acks
  /\ sender' = SenderReceive(sender,
                 [ackno |-> Wrap(ack[1], Isn),
                  window_size |-> Lesser(ack[2] - ack[1], Word16 - 1)])
  /\ acks' = IF AcksReordered THEN acks
             ELSE {later \in acks : later[1] >= ack[1] /\ later[2] >= ack[2]}
  /\ UNCHANGED <<outbound, peer_next, peer_edge>>

PeerReads(n) ==
  /\ peer_next > 0
  /\ peer_edge + n <= peer_next + PeerCapacity
  /\ peer_edge' = peer_edge + n
  /\ UNCHANGED <<sender, outbound, peer_next, acks>>

Next == \/ \E n \in 1..SendCapacity : ApplicationWrites(n)
        \/ ApplicationCloses
        \/ Pushes
        \/ SendsLost
        \/ SendsDelivered
        \/ Ticks
        \/ \E ack \in acks : AckArrives(ack)
        \/ \E n \in 1..PeerCapacity : PeerReads(n)

LatestAckArrives ==
  \E ack \in acks : /\ \A other \in acks : other[1] <= ack[1] /\ other[2] <= ack[2]
                    /\ AckArrives(ack)

\* The event loop runs (tcp_minnow_socket.cc:31-53), so time passes and what there
\* is to push or to send is pushed and sent; the application writes and closes;
\* of messages sent again and again one arrives; the peer's application reads.
Fairness == /\ WF_vars(ApplicationWrites(1)) /\ WF_vars(ApplicationCloses)
            /\ WF_vars(Pushes) /\ WF_vars(Ticks)
            /\ SF_vars(SendsDelivered) /\ WF_vars(LatestAckArrives)
            /\ WF_vars(PeerReads(1))

Spec == Init /\ [][Next]_vars /\ Fairness

-----------------------------------------------------------------------------
Outstanding == sender.outstanding_messages_

\* The absolute number at which the i-th outstanding message begins, from the
\* lengths of those that follow.
StartOf(i) == sender.next_abs_seqno_
                - LengthOfAll(SubSeq(Outstanding, i, Len(Outstanding)))

(* Every variable keeps its type: none of the unsigned subtractions of     *)
(* tcp_sender.cc:27, 54, 165 goes below zero but the one at line 27 for a  *)
(* FIN into a closed window, which wraps inside its 16 bits.               *)
TypeOK == /\ sender \in SenderStates
          /\ outbound \in StreamStates
          /\ peer_next \in 0..Fin + 1
          /\ peer_edge \in Nat
          /\ acks \subseteq (0..Fin + 1) \X Nat

(* Sequence numbers are used once and in order: SYN, the bytes read from   *)
(* the outbound stream, FIN after the last of them; the ones in flight are *)
(* those of the outstanding messages (tcp_sender.cc:23-31, 44-123).        *)
SequenceAccounting ==
  /\ sender.next_abs_seqno_ = (IF sender.syn THEN 1 ELSE 0)
                              + BytesPopped(outbound)
                              + (IF sender.fin THEN 1 ELSE 0)
  /\ sender.sequence_numbers_in_flight_ = LengthOfAll(Outstanding)
  /\ sender.fin => IsFinished(outbound)

(* Whatever the peer may still need is kept for retransmission: the        *)
(* outstanding messages are an unbroken run that begins no later than what *)
(* the peer waits for and ends with the last number used; each holds its   *)
(* own bytes, flags and seqno, and is read back at its own place from the  *)
(* 32-bit seqno (tcp_sender.cc:138-175).                                   *)
OutstandingCoversUnacked ==
  /\ sender.next_abs_seqno_ - sender.sequence_numbers_in_flight_ <= peer_next
  /\ \A i \in 1..Len(Outstanding) :
       LET message == Outstanding[i]
       IN  /\ FirstAbs(sender, message) = StartOf(i)
           /\ message.SYN <=> StartOf(i) = 0
           /\ message.FIN <=> EndAbs(sender, message) = Fin + 1
           /\ Contiguous(message.payload, IF message.SYN THEN 0 ELSE StartOf(i) - 1)

\* The timeout after k consecutive retransmissions.
BackedOff[k \in Nat] == IF k = 0 THEN InitialRTO ELSE 2 * BackedOff[k - 1]

(* The timer: the timeout is the initial one doubled once per consecutive  *)
(* retransmission counted, a running timer is short of it, and with        *)
(* nothing outstanding everything is as at the start                       *)
(* (tcp_sender.cc:171-176, 184-199).                                       *)
TimerConsistent ==
  /\ sender.retransmission_timeout_ = BackedOff[sender.consecutive_retransmissions_]
  /\ sender.time_elapsed_ < sender.retransmission_timeout_
  /\ Outstanding = << >> => /\ sender.time_elapsed_ = 0
                            /\ sender.consecutive_retransmissions_ = 0

(* Nothing is sent that the peer's window has no room for, except one      *)
(* number per push into a window announced as zero (tcp_sender.cc:82-121). *)
NeverOverruns ==
  [][sender'.next_abs_seqno_ > sender.next_abs_seqno_ /\ sender.syn
       => \/ sender'.next_abs_seqno_ <= peer_edge
          \/ /\ sender.receiver_window_size_ = 0
             /\ sender'.next_abs_seqno_ = sender.next_abs_seqno_ + 1]_vars

(* Through lost messages, delayed acknowledgments and closed windows, the  *)
(* whole stream with its FIN is sent and acknowledged.                     *)
EverythingAcknowledged ==
  <>[](sender.fin /\ Outstanding = << >> /\ peer_next = Fin + 1)

=============================================================================
