----------------------------- MODULE TCPOverIPv4 ----------------------------
(***************************************************************************)
(* TCPOverIPv4Adapter of src/util/tcp_over_ip.cc: which datagrams carry a  *)
(* segment of this connection, and the addresses it is sent with.  An      *)
(* adapter is a record of FdAdapterBase's members (src/util/fd_adapter.hh);*)
(* a datagram that does not parse as a TCP segment carries NoSegment.      *)
(***************************************************************************)

CONSTANTS AnyAddress,  \* "0"
          NoSegment    \* the empty optional<TCPSegment>

NewAdapter(source, destination) ==
  [source |-> source, destination |-> destination, listening |-> FALSE]

SetListening(a, l) == [a EXCEPT !.listening = l]

WrapTcpInIp(a, seg) ==
  [src |-> a.source, dst |-> a.destination, segment |-> seg]

IsFromPeer(a, dgram) ==
  a.listening \/ dgram.src = a.destination

IsForUs(a, dgram) ==
  dgram.dst.port = a.source.port /\ (a.listening \/ dgram.dst.ip = a.source.ip)

\* The adapter afterwards and the segment: the first SYN a listening adapter reads
\* decides whom it talks to, and as whom.
UnwrapTcpInIp(a, dgram) ==
  LET seg == dgram.segment
      refused == [adapter |-> a, segment |-> NoSegment]
  IN  IF seg = NoSegment \/ ~IsForUs(a, dgram) \/ ~IsFromPeer(a, dgram) THEN refused
      ELSE IF ~a.listening THEN [adapter |-> a, segment |-> seg]
      ELSE IF seg.sender_message.SYN /\ ~seg.reset
      THEN [adapter |-> NewAdapter(dgram.dst, dgram.src), segment |-> seg]
      ELSE refused

\* LossyFdAdapter::read that drops what the adapter has read.
DroppedRead(a, dgram) == [UnwrapTcpInIp(a, dgram) EXCEPT !.segment = NoSegment]

=============================================================================
