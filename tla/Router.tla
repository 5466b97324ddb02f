------------------------------- MODULE Router -------------------------------
(***************************************************************************)
(* AsyncNetworkInterface, RouteRecord and Router of src/src/router.{hh,cc}.*)
(* An IP address is a number of AddressBits bits, 32 in the code; an       *)
(* InternetDatagram is a record of which the router uses dst and ttl.      *)
(* Interfaces are numbered from 1.                                         *)
(***************************************************************************)
EXTENDS NetworkInterface, SequencesExt, Integers

CONSTANTS AddressBits,
          Direct        \* the empty optional<Address>

TwoTo[n \in 0..AddressBits] == IF n = 0 THEN 1 ELSE 2 * TwoTo[n - 1]

AddressSpace == TwoTo[AddressBits]

ASSUME AddressBitsAssumption == AddressBits \in Nat /\ IPAddress = 0..AddressSpace - 1
ASSUME DirectAssumption == Direct \notin IPAddress

NewAsyncInterface(ethernet_address, ip_address) ==
  WithEntry(NewInterface(ethernet_address, ip_address), "datagrams_in_", << >>)

\* AsyncNetworkInterface::recv_frame keeps the datagram for maybe_receive.
AsyncRecvFrame(n, frame) ==
  LET received == RecvFrame(n, frame)
  IN  IF received.datagram = NoDatagram THEN received.interface
      ELSE [received.interface EXCEPT !.datagrams_in_ = Append(@, received.datagram)]

NewRouter == [interfaces_ |-> << >>, route_table_ |-> << >>]

AddInterface(r, interface) == [r EXCEPT !.interfaces_ = Append(@, interface)]

\* prefix_length ones, then zeros.
Mask(prefix_length) ==
  IF prefix_length = 0 THEN 0 ELSE AddressSpace - TwoTo[AddressBits - prefix_length]

AddRoute(r, route_prefix, prefix_length, next_hop, interface_num) ==
  [r EXCEPT !.route_table_ =
     Append(@, [mask |-> Mask(prefix_length), route_prefix_ |-> route_prefix,
                prefix_length_ |-> prefix_length, next_hop_ |-> next_hop,
                interface_num_ |-> interface_num])]

\* The destination under the mask is the prefix, which is not masked itself.
Matches(record, destination) ==
  destination - (destination % (AddressSpace - record.mask)) = record.route_prefix_

NoRoute == [prefix_length_ |-> -1, interface_num_ |-> -1]

\* Mutated form of LongestMatch: the last route that matches.
LongestMatchLast(table, destination) ==
  FoldLeft(LAMBDA best, record : IF Matches(record, destination) THEN record ELSE best,
           NoRoute, table)

\* Of two routes with prefixes of the same length the first one.
LongestMatch(table, destination) ==
  FoldLeft(LAMBDA best, record :
             IF /\ Matches(record, destination)
                /\ best.prefix_length_ < record.prefix_length_
             THEN record ELSE best,
           NoRoute, table)

\* What is sent on, to the next hop or to the destination itself.
SentOn(r, record, dgram) ==
  LET destination == dgram.dst.ip
      next_hop == IF record.next_hop_ = Direct THEN destination ELSE record.next_hop_
  IN  [r EXCEPT !.interfaces_[record.interface_num_] = SendDatagram(@, dgram, next_hop)]

\* Mutated forms of Forwarded: a hop costs nothing; the last hop is refused.
ForwardedForFree(r, dgram) ==
  LET record == LongestMatch(r.route_table_, dgram.dst.ip)
  IN  IF dgram.ttl <= 1 \/ record = NoRoute THEN r ELSE SentOn(r, record, dgram)

ForwardedExceptLast(r, dgram) ==
  LET record == LongestMatch(r.route_table_, dgram.dst.ip)
  IN  IF dgram.ttl <= 2 \/ record = NoRoute THEN r
      ELSE SentOn(r, record, [dgram EXCEPT !.ttl = @ - 1])

\* A datagram whose time is over, or without a route, is dropped.
Forwarded(r, dgram) ==
  LET record == LongestMatch(r.route_table_, dgram.dst.ip)
  IN  IF dgram.ttl <= 1 \/ record = NoRoute THEN r
      ELSE SentOn(r, record, [dgram EXCEPT !.ttl = @ - 1])

\* Every datagram of every interface, in order.
Route(r) ==
  FoldLeft(LAMBDA acc, i :
             [FoldLeft(Forwarded, acc, acc.interfaces_[i].datagrams_in_)
                EXCEPT !.interfaces_[i].datagrams_in_ = << >>],
           r, [i \in 1..Len(r.interfaces_) |-> i])

=============================================================================
