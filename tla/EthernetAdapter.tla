--------------------------- MODULE EthernetAdapter --------------------------
(***************************************************************************)
(* The adapter that sends the segments of a socket in Ethernet frames:     *)
(* TCPOverIPv4OverEthernetAdapter of src/util/tuntap_adapter.{hh,cc}, and  *)
(* NetworkInterfaceAdapter of src/apps/endtoend.cc, which differs from it  *)
(* in the device only.  An adapter is a record of its interface, its next  *)
(* hop, its TCPOverIPv4Adapter, and the frames written to the device.      *)
(***************************************************************************)
EXTENDS NetworkInterface, TCPOverIPv4, TLC

CONSTANT DefaultTtl  \* DEFAULT_TTL of an IPv4 header

NewEthernetAdapter(eth_address, ip_address, next_hop, tcp) ==
  [interface |-> NewInterface(eth_address, ip_address), next_hop |-> next_hop,
   tcp |-> tcp, written |-> << >>]

\* Every frame the interface has queued is written.
SendPending(a) ==
  [a EXCEPT !.written = @ \o a.interface.maybe_send_queue,
            !.interface.maybe_send_queue = << >>]

\* The adapter afterwards and the segment, if the frame carries one for us; what the
\* interface answers is sent before.
AdapterRead(a, frame) ==
  LET received  == RecvFrame(a.interface, frame)
      answered  == SendPending([a EXCEPT !.interface = received.interface])
      unwrapped == UnwrapTcpInIp(a.tcp, received.datagram)
  IN  IF received.datagram = NoDatagram
      THEN [adapter |-> answered, segment |-> NoSegment]
      ELSE [adapter |-> [answered EXCEPT !.tcp = unwrapped.adapter],
            segment |-> unwrapped.segment]

\* The datagram of a segment, with a fresh IPv4 header.
Wrapped(a, seg) == WithEntry(WrapTcpInIp(a.tcp, seg), "ttl", DefaultTtl)

AdapterWrite(a, seg) ==
  SendPending([a EXCEPT !.interface = SendDatagram(@, Wrapped(a, seg), a.next_hop)])

AdapterTick(a, ms) == SendPending([a EXCEPT !.interface = InterfaceTick(@, ms)])

=============================================================================
