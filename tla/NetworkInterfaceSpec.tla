------------------------ MODULE NetworkInterfaceSpec ------------------------
(***************************************************************************)
(* Hosts with one NetworkInterface each on one Ethernet.  The owner calls  *)
(* the four operations of the class (src/src/network_interface.hh:53-74)   *)
(* in any order, as the router of src/apps/endtoend.cc does: it passes     *)
(* datagrams to send_datagram, takes frames from maybe_send, hands those   *)
(* that arrive to recv_frame and calls tick.  A frame reaches any of the   *)
(* other hosts or none; every host takes its frames in order.              *)
(***************************************************************************)
EXTENDS NetworkInterface, FiniteSets

CONSTANTS Host,
          EthernetOf, IpOf,  \* of each host
          MaxTicks           \* bound on the time that passes at a host

ASSUME EthernetOfAssumption ==
  EthernetOf \in [Host -> EthernetAddress \ {Broadcast, NoAddress}]
ASSUME IpOfAssumption == IpOf \in [Host -> IPAddress]
ASSUME AddressesAssumption ==
  \A g, h \in Host : g # h => EthernetOf[g] # EthernetOf[h] /\ IpOf[g] # IpOf[h]
ASSUME MaxTicksAssumption == MaxTicks \in Nat

VARIABLES interface, inbox,
          clock,        \* ticks of each host
          sent,         \* history: for the datagrams sent, by whom and to where
          transmitted,  \* history: the datagrams that left their host
          received,     \* history: <<host, datagram>>
          requests,     \* history: when a host asked for an address
          lost          \* history: a frame did not reach every other host

vars == <<interface, inbox, clock, sent, transmitted, received, requests, lost>>

Init == /\ interface = [h \in Host |-> NewInterface(EthernetOf[h], IpOf[h])]
        /\ inbox = [h \in Host |-> << >>]
        /\ clock = [h \in Host |-> 0]
        /\ sent = [dgram \in {} |-> << >>]
        /\ transmitted = {}
        /\ received = {}
        /\ requests = [h \in Host |-> [ip \in IPAddress |-> << >>]]
        /\ lost = FALSE

IsRequest(frame) == frame.type = "ARP" /\ frame.payload.opcode = "REQUEST"

\* Did a step from n to m put a request at the end of the queue?
Requested(n, m) ==
  /\ Len(m.maybe_send_queue) > Len(n.maybe_send_queue)
  /\ IsRequest(m.maybe_send_queue[Len(m.maybe_send_queue)])

SendsDatagram(h, dgram, next_hop) ==
  /\ dgram \notin DOMAIN sent
  /\ next_hop # IpOf[h]
  /\ interface' = [interface EXCEPT ![h] = SendDatagram(@, dgram, next_hop)]
  /\ sent' = WithEntry(sent, dgram, [host |-> h, next_hop |-> next_hop])
  /\ requests' = IF Requested(interface[h], interface'[h])
                 THEN [requests EXCEPT ![h][next_hop] = Append(@, clock[h])]
                 ELSE requests
  /\ UNCHANGED <<inbox, clock, transmitted, received, lost>>

Transmits(h, reached) ==
  /\ interface[h].maybe_send_queue # << >>
  /\ interface' = [interface EXCEPT ![h] = AfterSendFrame(@)]
  /\ LET frame == MaybeSendFrame(interface[h])
     IN  /\ inbox' = [g \in Host |-> IF g \in reached THEN Append(inbox[g], frame)
                                                      ELSE inbox[g]]
         /\ transmitted' = IF frame.type = "IPv4"
                           THEN transmitted \cup {frame.payload} ELSE transmitted
  /\ lost' = (lost \/ reached # Host \ {h})
  /\ UNCHANGED <<clock, sent, received, requests>>

Receives(h) ==
  /\ inbox[h] # << >>
  /\ inbox' = [inbox EXCEPT ![h] = Tail(@)]
  /\ LET result == RecvFrame(interface[h], Head(inbox[h]))
     IN  /\ interface' = [interface EXCEPT ![h] = result.interface]
         /\ received' = IF result.datagram = NoDatagram THEN received
                        ELSE received \cup {<<h, result.datagram>>}
  /\ UNCHANGED <<clock, sent, transmitted, requests, lost>>

Ticks(h) ==
  /\ clock[h] < MaxTicks
  /\ clock' = [clock EXCEPT ![h] = @ + 1]
  /\ interface' = [interface EXCEPT ![h] = InterfaceTick(@, 1)]
  /\ UNCHANGED <<inbox, sent, transmitted, received, requests, lost>>

Next == \E h \in Host :
          \/ \E dgram \in InternetDatagram, next_hop \in IPAddress :
               SendsDatagram(h, dgram, next_hop)
          \/ \E reached \in SUBSET (Host \ {h}) : Transmits(h, reached)
          \/ Receives(h)
          \/ Ticks(h)

\* The owner polls its interface and its network device.
Fairness == \A h \in Host : /\ WF_vars(\E reached \in SUBSET (Host \ {h}) :
                                         Transmits(h, reached))
                            /\ WF_vars(Receives(h))

Spec == Init /\ [][Next]_vars /\ Fairness

-----------------------------------------------------------------------------
FramesOf(queue) == {queue[i] : i \in 1..Len(queue)}

Waiting(h, ip) ==
  IF ip \in Asked(interface[h])
  THEN interface[h].ip_addr_to_ethernet_datagram_queue[ip].datagrams ELSE << >>

IsHost(h, ip, address) == IpOf[h] = ip /\ EthernetOf[h] = address

(* Every variable keeps its type.                                          *)
TypeOK ==
  /\ \A h \in Host :
       LET n == interface[h]
       IN  /\ n.ethernet_address_ = EthernetOf[h] /\ n.ip_address_ = IpOf[h]
           /\ n.maybe_send_queue \in Seq(EthernetFrame)
           /\ \A ip \in Known(n) :
                n.ip_addr_to_ethernet_addr[ip] \in
                  [address : EthernetAddress, age : 0..MappingLifetime - 1]
           /\ \A ip \in Asked(n) :
                n.ip_addr_to_ethernet_datagram_queue[ip] \in
                  [datagrams : Seq(InternetDatagram), age : Nat]
           /\ Known(n) \cup Asked(n) \subseteq IPAddress
  /\ inbox \in [Host -> Seq(EthernetFrame)]

(* An address learned is the one of the host it was learned for, and a     *)
(* datagram goes to the host that has the address of its next hop, also    *)
(* when it waited while others did (network_interface.cc:52-61, 111-136,   *)
(* 155).                                                                   *)
ReachesNextHop ==
  /\ \A h \in Host : \A ip \in Known(interface[h]) :
       \E g \in Host :
         IsHost(g, ip, interface[h].ip_addr_to_ethernet_addr[ip].address)
  /\ \A h \in Host :
       \A frame \in FramesOf(interface[h].maybe_send_queue) \cup FramesOf(inbox[h]) :
         frame.type = "IPv4" =>
           \E g \in Host : IsHost(g, sent[frame.payload].next_hop, frame.dst)
  /\ \A arrival \in received : IpOf[arrival[1]] = sent[arrival[2]].next_hop

(* A datagram exists at most once: it waits, or is queued, or on its way   *)
(* to its next hop, or was received there; a second answer to a request    *)
(* does not send it again (network_interface.cc:126-135).                  *)
Carriers(queue, dgram) ==
  {i \in 1..Len(queue) : queue[i].type = "IPv4" /\ queue[i].payload = dgram}

Copies(dgram) ==
  Cardinality({p \in Host \X IPAddress : dgram \in FramesOf(Waiting(p[1], p[2]))})
  + Cardinality(UNION {{h} \X Carriers(interface[h].maybe_send_queue, dgram)
                       : h \in Host})
  + Cardinality(UNION {{h} \X {i \in Carriers(inbox[h], dgram) :
                                inbox[h][i].dst = EthernetOf[h]} : h \in Host})
  + Cardinality({h \in Host : <<h, dgram>> \in received})

SentOnce == \A dgram \in DOMAIN sent : Copies(dgram) <= 1

(* Nothing waits for an address that is known: an entry that stayed behind *)
(* would keep the address from being asked for once it is forgotten        *)
(* (network_interface.cc:55, 62-78, 135).                                  *)
NoneWaitsForKnown ==
  \A h \in Host : Known(interface[h]) \cap Asked(interface[h]) = {}

(* The first request for an address is alone for as long as the comment at *)
(* network_interface.cc:68 says.                                           *)
FirstRequestAlone ==
  \A h \in Host, ip \in IPAddress :
    Len(requests[h][ip]) > 1 =>
      requests[h][ip][2] - requests[h][ip][1] >= RequestInterval

(* As long as no frame is lost, a datagram that waits for the address of a *)
(* host is received there, whatever requests, answers and datagrams cross. *)
WaitingDelivered ==
  [](~lost) =>
    \A dgram \in InternetDatagram, g, h \in Host :
      dgram \in FramesOf(Waiting(h, IpOf[g])) ~> <<g, dgram>> \in received

(* "don't send a second request" within five seconds of the last one       *)
(* (network_interface.cc:68-69): what the comment says of every request.   *)
RequestsSpaced ==
  \A h \in Host, ip \in IPAddress :
    \A i \in 2..Len(requests[h][ip]) :
      requests[h][ip][i] - requests[h][ip][i - 1] >= RequestInterval

(* A datagram passed to send_datagram is waiting for its address, queued   *)
(* or transmitted (network_interface.hh:60-65, writeups/check4.md).        *)
NothingForgotten ==
  \A dgram \in DOMAIN sent :
    LET h == sent[dgram].host
    IN  \/ dgram \in FramesOf(Waiting(h, sent[dgram].next_hop))
        \/ Carriers(interface[h].maybe_send_queue, dgram) # {}
        \/ dgram \in transmitted

=============================================================================
