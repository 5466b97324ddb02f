------------------------------- MODULE TCPPeer ------------------------------
(***************************************************************************)
(* TCPPeer of src/util/tcp_peer.hh: one end of a connection, a record of   *)
(* its sender, its receiver and their streams.                             *)
(***************************************************************************)
EXTENDS TCPReceiver, TCPSender

TCPSegment == [sender_message : SenderMessages, receiver_message : ReceiverMessages,
               reset : BOOLEAN]

NewPeer(isn, send_capacity, recv_capacity) ==
  [sender_ |-> NewSender(isn), receiver_ |-> NewReceiver,
   reassembler_ |-> NewReassembler,
   outbound_stream_ |-> NewByteStream(send_capacity),
   inbound_stream_ |-> NewByteStream(recv_capacity), need_send_ |-> FALSE]

PeerPush(p) ==
  LET pushed == SenderPush(p.sender_, p.outbound_stream_)
  IN  [p EXCEPT !.sender_ = pushed.sender, !.outbound_stream_ = pushed.outbound]

PeerTick(p, ms) == [p EXCEPT !.sender_ = SenderTick(@, ms)]

ReceiverMessage(p) == ReceiverSend(p.receiver_, p.inbound_stream_)

HasAckno(p) == ReceiverMessage(p).ackno # Nullopt

InFlight(p) == p.sender_.sequence_numbers_in_flight_

\* Mutated form of Active: what is in flight is not waited for.
ActiveWhileOpen(p) ==
  /\ ~HasError(p.inbound_stream_)
  /\ ~IsFinished(p.outbound_stream_) \/ ~IsClosed(p.inbound_stream_)

Active(p) == /\ ~HasError(p.inbound_stream_)
             /\ \/ ~IsFinished(p.outbound_stream_)
                \/ ~IsClosed(p.inbound_stream_)
                \/ InFlight(p) > 0

\* A message that uses sequence numbers, or a keep-alive, is answered.
NeedsReply(p, message) ==
  \/ SequenceLength(message) > 0
  \/ HasAckno(p) /\ Advanced(message.seqno, 1) = ReceiverMessage(p).ackno

\* The peer with the results of ReceiverReceive.
WithReceived(p, received) ==
  [p EXCEPT !.receiver_ = received.receiver, !.reassembler_ = received.reassembler,
            !.inbound_stream_ = received.inbound]

PeerReceive(p, seg) ==
  IF seg.reset \/ HasError(p.inbound_stream_)
  THEN [p EXCEPT !.inbound_stream_ = SetError(@)]
  ELSE WithReceived(
         [p EXCEPT !.sender_ = SenderReceive(@, seg.receiver_message),
                   !.need_send_ = @ \/ NeedsReply(p, seg.sender_message)],
         ReceiverReceive(p.receiver_, seg.sender_message, p.reassembler_,
                         p.inbound_stream_))

\* The peer afterwards and the segment, if there is one to send.  What the receiver
\* says goes out with whatever the sender has, or with an empty message.
SendWhatIsQueued(p) ==
  LET queued  == p.sender_.send_messages_ # << >>
      segment == [sender_message   |-> IF queued THEN MaybeSendMessage(p.sender_)
                                                 ELSE SendEmptyMessage(p.sender_),
                  receiver_message |-> ReceiverMessage(p),
                  reset            |-> \/ HasError(p.outbound_stream_)
                                       \/ HasError(p.inbound_stream_)]
  IN  [peer |-> [p EXCEPT !.need_send_ = FALSE,
                          !.sender_ = IF queued THEN AfterMaybeSend(@) ELSE @],
       segments |-> IF queued \/ p.need_send_ THEN <<segment>> ELSE << >>]

\* What the outbound stream holds is pushed first, once the peer is known.
MaybeSend(p) == SendWhatIsQueued(IF HasAckno(p) THEN PeerPush(p) ELSE p)

=============================================================================
