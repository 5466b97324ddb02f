--------------------------- MODULE TCPMinnowSocket --------------------------
(***************************************************************************)
(* TCPMinnowSocket of src/util/tcp_minnow_socket.{hh,cc}: the TCPPeer, the *)
(* event loop with its four rules, and the steps of the thread that runs   *)
(* it.  A socket is a record x of the class's members, of the two          *)
(* directions of the local stream socket that connects the thread with the *)
(* owner (to_thread, to_owner), of the datagrams its tun device holds for  *)
(* reading (tun_in) and was given (tun_out), and of copy, which the owner  *)
(* keeps beside it and nothing here looks at.                              *)
(***************************************************************************)
EXTENDS TCPPeer, FileDescriptor, TCPOverIPv4

Receive == [name |-> "receive TCP segment from the network", direction |-> "In"]
PushOut == [name |-> "push bytes to TCPPeer", direction |-> "In"]
ReadIn  == [name |-> "read bytes from inbound stream", direction |-> "Out"]
Send    == [name |-> "send TCP segment", direction |-> "Out"]

\* One more result of MaybeSend is queued, if the last one was a segment.
Collected(before, sent) ==
  IF before.more
  THEN [peer |-> sent.peer, queue |-> before.queue \o sent.segments,
        more |-> sent.segments # << >>]
  ELSE before

WithCollected(x, all) ==
  [x EXCEPT !.tcp = all.peer, !.outgoing_segments_ = all.queue]

\* collect_segments: what the peer has to send is queued, until it has nothing.
CollectSegments(x) ==
  LET After[n \in Nat] ==
        IF n = 0 THEN [peer |-> x.tcp, queue |-> x.outgoing_segments_, more |-> TRUE]
        ELSE LET before == After[n - 1] IN Collected(before, MaybeSend(before.peer))
  IN  \* every segment but an empty one and the last carries a byte
      WithCollected(x, After[BytesBuffered(x.tcp.outbound_stream_)
                               + Len(x.tcp.sender_.send_messages_) + 3])

-----------------------------------------------------------------------------
(* The rules of _initialize_TCP. *)

\* Mutated form of InboundDone: what is read counts as the end.
InboundDrained(x) == \/ IsDrained(x.tcp.inbound_stream_)
                     \/ HasError(x.tcp.inbound_stream_)

InboundDone(x) == \/ IsFinished(x.tcp.inbound_stream_)
                  \/ HasError(x.tcp.inbound_stream_)

Interested(x, rule) ==
  CASE rule = Receive -> Active(x.tcp)
    [] rule = PushOut -> /\ Active(x.tcp)
                         /\ ~x.outbound_shutdown
                         /\ AvailableCapacity(x.tcp.outbound_stream_) > 0
    [] rule = ReadIn  -> \/ BytesBuffered(x.tcp.inbound_stream_) > 0
                         \/ (InboundDone(x) /\ ~x.inbound_shutdown)
    [] rule = Send    -> x.outgoing_segments_ # << >>

\* Rule 1: a datagram is read; its segment, if it is for us, goes to the peer.
ReceiveSegment(x) ==
  LET read == UnwrapTcpInIp(x.adapter, Head(x.tun_in))
      rest == [x EXCEPT !.tun_in = Tail(@), !.adapter = read.adapter]
  IN  IF read.segment = NoSegment THEN rest
      ELSE CollectSegments([rest EXCEPT !.tcp = PeerReceive(@, read.segment)])

\* Rule 2: the owner's bytes go into the outbound stream, which ends with them.
PushBytes(x) ==
  LET n   == AvailableCapacity(x.tcp.outbound_stream_)
      out == Push(x.tcp.outbound_stream_, ReadBytes(x.to_thread, n))
      eof == AtEof(x.to_thread)
      end == [x EXCEPT !.to_thread = AfterRead(@, n),
                       !.thread_eof = @ \/ eof, !.outbound_shutdown = @ \/ eof,
                       !.tcp.outbound_stream_ = IF eof THEN Close(out) ELSE out]
  IN  CollectSegments([end EXCEPT !.tcp = PeerPush(@)])

\* Mutated form of HandOver: everything is popped, whatever was written.
HandOverAll(x) ==
  LET inbound == x.tcp.inbound_stream_
  IN  [x EXCEPT !.to_owner = AfterWrite(@, inbound.stream),
                !.tcp.inbound_stream_ = Pop(@, BytesBuffered(inbound))]

\* A write of the inbound bytes, of which those written are popped; into a socket
\* that was shut down it fails.
HandOver(x) ==
  LET inbound == x.tcp.inbound_stream_
  IN  IF BytesBuffered(inbound) = 0 THEN x
      ELSE IF x.to_owner.shut THEN [x EXCEPT !.failed = "SIGPIPE"]
      ELSE [x EXCEPT !.to_owner = AfterWrite(@, inbound.stream),
                     !.tcp.inbound_stream_ =
                        Pop(@, BytesWritten(x.to_owner, inbound.stream))]

\* Mutated form of WriteBytes: the owner is told the end, but not of an error.
WriteBytesUntilFinished(x) ==
  LET written == HandOver(x)
  IN  IF IsFinished(written.tcp.inbound_stream_)
      THEN [written EXCEPT !.to_owner = Shutdown(@), !.inbound_shutdown = TRUE]
      ELSE written

\* Rule 3: and after the last byte, or an error, the owner is told the end.
WriteBytes(x) ==
  LET written == HandOver(x)
  IN  IF InboundDone(written)
      THEN [written EXCEPT !.to_owner = Shutdown(@), !.inbound_shutdown = TRUE]
      ELSE written

\* Rule 4: every segment collected is sent.
SendSegments(x) ==
  [x EXCEPT !.tun_out = @ \o [i \in 1..Len(x.outgoing_segments_) |->
                                WrapTcpInIp(x.adapter, x.outgoing_segments_[i])],
            !.outgoing_segments_ = << >>]

Call(x, rule) == CASE rule = Receive -> ReceiveSegment(x)
                   [] rule = PushOut -> PushBytes(x)
                   [] rule = ReadIn  -> WriteBytes(x)
                   [] rule = Send    -> SendSegments(x)

\* Only rule 2 has something to do when it is cancelled.
CancelRule(x, rule) ==
  IF rule = PushOut
  THEN [x EXCEPT !.tcp.outbound_stream_ = Close(@), !.outbound_shutdown = TRUE]
  ELSE x

AtItsEnd(x, rule) == rule = PushOut /\ x.thread_eof

\* Every callback but that of rule 3 reads or writes its descriptor.
ServesNothing(x, y, rule) == rule = ReadIn /\ y.to_owner = x.to_owner

\* The thread's end of the local socket; the tun device takes every write.
CanServe(x, rule) == CASE rule = Receive -> x.tun_in # << >>
                       [] rule = PushOut -> Readable(x.to_thread)
                       [] rule = ReadIn  -> Writable(x.to_owner)
                       [] rule = Send    -> TRUE

OwnerHungUp(x, rule) ==
  rule \in {PushOut, ReadIn} /\ HungUp(x.to_thread, x.to_owner)

-----------------------------------------------------------------------------
NewSocket(copy, tcp, adapter, in_room, out_room) ==
  [copy |-> copy, tcp |-> tcp, adapter |-> adapter, tcp_rules |-> <<Receive, PushOut, ReadIn, Send>>,
   outgoing_segments_ |-> << >>, outbound_shutdown |-> FALSE,
   inbound_shutdown |-> FALSE, abort |-> FALSE, thread_eof |-> FALSE,
   to_thread |-> NewPipe(out_room), to_owner |-> NewPipe(in_room),
   tun_in |-> << >>, tun_out |-> << >>, failed |-> "no"]

\* connect and listen_and_accept until they enter the loop.
Connecting(x) == CollectSegments([x EXCEPT !.tcp = PeerPush(@)])

Listening(x) == [x EXCEPT !.adapter = SetListening(@, TRUE)]

\* The conditions on which they stay in it.
StaysConnecting(x) == InFlight(x.tcp) = 1

StaysListening(x) == ~HasAckno(x.tcp) \/ InFlight(x.tcp) > 0

TcpLoop == INSTANCE EventLoop WITH
  Defunct <- AtItsEnd, Interest <- Interested, Cancel <- CancelRule,
  Callback <- Call, Idle <- ServesNothing, Pollable <- CanServe, Hup <- OwnerHungUp

\* A round of _tcp_loop: an event is served, which may end the loop; then ms
\* milliseconds have passed.
AfterEvent(next) ==
  LET failed == IF next.result = "BusyWait" /\ next.x.failed = "no" THEN "busy wait"
                ELSE next.x.failed
  IN  [socket |-> [next.x EXCEPT !.tcp_rules = next.rules, !.failed = failed],
       exit |-> next.result = "Exit" \/ next.x.abort \/ failed # "no"]

LoopServes(x) == AfterEvent(TcpLoop!WaitNextEvent(x, x.tcp_rules))

LoopTicks(x, ms) ==
  IF Active(x.tcp) THEN CollectSegments([x EXCEPT !.tcp = PeerTick(@, ms)]) ELSE x

\* The owner's end of the local socket is shut down in both directions.
ShutdownOwner(x) == [x EXCEPT !.to_thread = Shutdown(@), !.to_owner = Shutdown(@)]

\* What _tcp_main does after the loop; a peer that holds nothing stands for none.
ThreadEnd(x) == [ShutdownOwner(x) EXCEPT !.tcp = NewPeer(0, 0, 0)]

=============================================================================
