-------------------------- MODULE NetworkInterface --------------------------
(***************************************************************************)
(* NetworkInterface of src/src/network_interface.{hh,cc}: an interface is  *)
(* a record of the class's members.  The maps keep their names and hold,   *)
(* for an IP address, the datagrams that wait for its Ethernet address or  *)
(* that address, each with the milliseconds since it was put there.        *)
(* Serialized payloads are the values themselves.                          *)
(***************************************************************************)
EXTENDS Naturals, Sequences, Functions

CONSTANTS EthernetAddress,
          IPAddress,
          InternetDatagram,
          Broadcast,        \* ETHERNET_BROADCAST
          NoAddress,        \* an EthernetAddress of zeros: {} in the code
          NoDatagram,       \* the empty optional<InternetDatagram>
          MappingLifetime,  \* 30000: a learned address is forgotten
          RequestInterval   \* 5000: an address is asked for again

ASSUME BroadcastAssumption == Broadcast \in EthernetAddress
ASSUME NoAddressAssumption == NoAddress \in EthernetAddress
ASSUME NoDatagramAssumption == NoDatagram \notin InternetDatagram
\* 30000 and 5000 in the code.
ASSUME TimesAssumption ==
  /\ MappingLifetime \in Nat \ {0} /\ RequestInterval \in Nat
  /\ RequestInterval <= MappingLifetime

ARPMessage ==
  [opcode : {"REQUEST", "REPLY"},
   sender_ethernet_address : EthernetAddress, sender_ip_address : IPAddress,
   target_ethernet_address : EthernetAddress, target_ip_address : IPAddress]

EthernetFrame ==
  [src : EthernetAddress, dst : EthernetAddress, type : {"IPv4"},
   payload : InternetDatagram]
  \cup
  [src : EthernetAddress, dst : EthernetAddress, type : {"ARP"}, payload : ARPMessage]

NewInterface(ethernet_address, ip_address) ==
  [ethernet_address_ |-> ethernet_address, ip_address_ |-> ip_address,
   maybe_send_queue |-> << >>,
   ip_addr_to_ethernet_datagram_queue |-> [ip \in {} |-> << >>],
   ip_addr_to_ethernet_addr |-> [ip \in {} |-> << >>]]

\* A map after map[key] = value.
WithEntry(map, key, value) ==
  [k \in DOMAIN map \cup {key} |-> IF k = key THEN value ELSE map[k]]

\* The addresses an interface knows, and those it has asked for.
Known(n) == DOMAIN n.ip_addr_to_ethernet_addr

Asked(n) == DOMAIN n.ip_addr_to_ethernet_datagram_queue

MakeFrame(n, dst, type, payload) ==
  [src |-> n.ethernet_address_, dst |-> dst, type |-> type, payload |-> payload]

MakeArp(n, opcode, target_ethernet_address, target_ip_address) ==
  [opcode |-> opcode,
   sender_ethernet_address |-> n.ethernet_address_,
   sender_ip_address |-> n.ip_address_,
   target_ethernet_address |-> target_ethernet_address,
   target_ip_address |-> target_ip_address]

Queued(n, frame) == [n EXCEPT !.maybe_send_queue = Append(@, frame)]

RequestQueued(n, ip) ==
  Queued(n, MakeFrame(n, Broadcast, "ARP", MakeArp(n, "REQUEST", NoAddress, ip)))

-----------------------------------------------------------------------------
\* Mutated form of SendDatagram: every datagram that has to wait asks again.
SendDatagramAsking(n, dgram, next_hop) ==
  IF next_hop \in Known(n)
  THEN Queued(n, MakeFrame(n, n.ip_addr_to_ethernet_addr[next_hop].address,
                           "IPv4", dgram))
  ELSE IF next_hop \in Asked(n) THEN RequestQueued(n, next_hop)
  ELSE RequestQueued(
         [n EXCEPT !.ip_addr_to_ethernet_datagram_queue =
            WithEntry(@, next_hop, [datagrams |-> <<dgram>>, age |-> 0])], next_hop)

\* A datagram for an address already asked for is pushed to a copy of the queue
\* (line 66: the optional holds a pair of its own) and is gone; the age, at which
\* the address is asked for again, is that of the first request.
SendDatagram(n, dgram, next_hop) ==
  IF next_hop \in Known(n)
  THEN Queued(n, MakeFrame(n, n.ip_addr_to_ethernet_addr[next_hop].address,
                           "IPv4", dgram))
  ELSE IF next_hop \in Asked(n)
  THEN IF n.ip_addr_to_ethernet_datagram_queue[next_hop].age >= RequestInterval
       THEN RequestQueued(n, next_hop) ELSE n
  ELSE RequestQueued(
         [n EXCEPT !.ip_addr_to_ethernet_datagram_queue =
            WithEntry(@, next_hop, [datagrams |-> <<dgram>>, age |-> 0])], next_hop)

\* The frames, to the address learned, of the datagrams that wait for it.
Released(n, ip_addr, MAC_address) ==
  IF ip_addr \in Asked(n)
  THEN LET waiting == n.ip_addr_to_ethernet_datagram_queue[ip_addr].datagrams
       IN  [i \in 1..Len(waiting) |-> MakeFrame(n, MAC_address, "IPv4", waiting[i])]
  ELSE << >>

\* Mutated forms of UpdateMaps: the entry stays when its queue is emptied; the
\* queue is sent but not emptied.
UpdateMapsKeepsEntry(n, ip_addr, MAC_address) ==
  [n EXCEPT !.ip_addr_to_ethernet_addr =
              WithEntry(@, ip_addr, [address |-> MAC_address, age |-> 0]),
            !.maybe_send_queue = @ \o Released(n, ip_addr, MAC_address),
            !.ip_addr_to_ethernet_datagram_queue =
              [ip \in DOMAIN @ |-> IF ip = ip_addr THEN [@[ip] EXCEPT !.datagrams = << >>]
                                                   ELSE @[ip]]]

UpdateMapsKeepsQueue(n, ip_addr, MAC_address) ==
  [n EXCEPT !.ip_addr_to_ethernet_addr =
              WithEntry(@, ip_addr, [address |-> MAC_address, age |-> 0]),
            !.maybe_send_queue = @ \o Released(n, ip_addr, MAC_address)]

UpdateMaps(n, ip_addr, MAC_address) ==
  [n EXCEPT !.ip_addr_to_ethernet_addr =
              WithEntry(@, ip_addr, [address |-> MAC_address, age |-> 0]),
            !.maybe_send_queue = @ \o Released(n, ip_addr, MAC_address),
            !.ip_addr_to_ethernet_datagram_queue = Restrict(@, DOMAIN @ \ {ip_addr})]

\* Mutated form of ReceiveArp: what is learned is the target's address.
ReceiveArpOfTarget(n, arp) ==
  UpdateMaps(n, arp.target_ip_address, arp.sender_ethernet_address)

\* Every ARP message teaches its sender's address; a request for our own is
\* answered.
ReceiveArp(n, arp) ==
  LET learned == UpdateMaps(n, arp.sender_ip_address, arp.sender_ethernet_address)
  IN  IF arp.opcode = "REQUEST" /\ arp.target_ip_address = n.ip_address_
      THEN Queued(learned,
                  MakeFrame(n, arp.sender_ethernet_address, "ARP",
                            MakeArp(n, "REPLY", arp.sender_ethernet_address,
                                    arp.sender_ip_address)))
      ELSE learned

\* The interface afterwards and the datagram returned, if there is one.
RecvFrame(n, frame) ==
  IF frame.dst \notin {Broadcast, n.ethernet_address_}
  THEN [interface |-> n, datagram |-> NoDatagram]
  ELSE IF frame.type = "IPv4" THEN [interface |-> n, datagram |-> frame.payload]
  ELSE [interface |-> ReceiveArp(n, frame.payload), datagram |-> NoDatagram]

\* A map whose entries are ms older.
Aged(map, ms) == [ip \in DOMAIN map |-> [map[ip] EXCEPT !.age = @ + ms]]

\* Mutated forms of InterfaceTick: an address is forgotten a tick late; what waits
\* is dropped with its request.
TickForgetsLate(n, ms) ==
  LET mapping == Aged(n.ip_addr_to_ethernet_addr, ms)
  IN  [n EXCEPT !.ip_addr_to_ethernet_addr =
                    RestrictValues(mapping, LAMBDA e : e.age <= MappingLifetime),
                !.ip_addr_to_ethernet_datagram_queue = Aged(@, ms)]

TickDropsWaiting(n, ms) ==
  LET mapping == Aged(n.ip_addr_to_ethernet_addr, ms)
      waiting == Aged(n.ip_addr_to_ethernet_datagram_queue, ms)
  IN  [n EXCEPT !.ip_addr_to_ethernet_addr =
                    RestrictValues(mapping, LAMBDA e : e.age < MappingLifetime),
                !.ip_addr_to_ethernet_datagram_queue =
                    RestrictValues(waiting, LAMBDA e : e.age < RequestInterval)]

InterfaceTick(n, ms) ==
  LET mapping == Aged(n.ip_addr_to_ethernet_addr, ms)
  IN  [n EXCEPT !.ip_addr_to_ethernet_addr =
                    RestrictValues(mapping, LAMBDA e : e.age < MappingLifetime),
                !.ip_addr_to_ethernet_datagram_queue = Aged(@, ms)]

\* maybe_send: the frame released, and the interface afterwards.
MaybeSendFrame(n) == Head(n.maybe_send_queue)

AfterSendFrame(n) == [n EXCEPT !.maybe_send_queue = Tail(@)]

=============================================================================
