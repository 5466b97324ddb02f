---------------------------- MODULE EndToEndSpec ----------------------------
(***************************************************************************)
(* Two programs src/apps/endtoend.cc, one that connects and one that       *)
(* listens.  Each has a host, whose socket sends its segments through an   *)
(* Ethernet adapter, and a network thread with a router between the host   *)
(* and the Internet, which is the Ethernet of the two routers.  The        *)
(* Internet keeps the order of the frames and loses some.                  *)
(***************************************************************************)
EXTENDS RouterThread, EthernetAdapter

CONSTANTS Host, Client,
          HostIp, HostEthernet,        \* of each host
          RouterIp, RouterEthernet,    \* of each router: the host's and the Internet's side
          Routes,                      \* of each router, as add_route is called
          Destinations,                \* the addresses the client may connect to
          Outgoing,                    \* the segments each host sends, in order
          MaxTicks,                    \* bound on the time that passes
          MaxFaults                    \* bound on the frames lost

Sides == 1..2

ASSUME HostAssumption == /\ Client \in Host
                         /\ IsFiniteSet(Host) /\ Cardinality(Host) = 2
ASSUME TtlAssumption == DefaultTtl \in Nat \ {0}
\* Every device has an Ethernet address of its own.
ASSUME EthernetAssumption ==
  /\ HostEthernet \in [Host -> EthernetAddress \ {Broadcast}]
  /\ RouterEthernet \in [Host -> [Sides -> EthernetAddress \ {Broadcast}]]
  /\ \A g, h \in Host : \A s, t \in Sides :
       /\ HostEthernet[g] = HostEthernet[h] => g = h
       /\ HostEthernet[g] # RouterEthernet[h][s]
       /\ RouterEthernet[g][s] = RouterEthernet[h][t] => g = h /\ s = t
\* A host's IP address is that of no other device.
ASSUME IpAssumption ==
  /\ HostIp \in [Host -> [ip : IPAddress, port : Nat]]
  /\ RouterIp \in [Host -> [Sides -> IPAddress]]
  /\ \A g, h \in Host : /\ HostIp[g].ip = HostIp[h].ip => g = h
                        /\ \A s \in Sides : HostIp[g].ip # RouterIp[h][s]
\* A prefix has no bits after its length, and no host is a next hop.
ASSUME RoutesAssumption ==
  \A h \in Host :
    /\ Routes[h] \in Seq([prefix : IPAddress, length : 0..AddressBits,
                          next_hop : IPAddress \cup {Direct}, interface_num : Sides])
    /\ \A route \in ToSet(Routes[h]) :
         /\ route.prefix % TwoTo[AddressBits - route.length] = 0
         /\ \A g \in Host : route.next_hop # HostIp[g].ip
\* The client does not connect to itself; the segments sent can be told apart.
ASSUME TrafficAssumption ==
  /\ Destinations \subseteq [ip : IPAddress, port : Nat] \ {HostIp[Client]}
  /\ \A h \in Host : Outgoing[h] \in Seq(ToSet(Outgoing[h]))
  /\ \A g, h \in Host : \A i \in DOMAIN Outgoing[g], j \in DOMAIN Outgoing[h] :
       Outgoing[g][i] = Outgoing[h][j] => g = h /\ i = j
ASSUME CountsAssumption == MaxTicks \in Nat /\ MaxFaults \in Nat

VARIABLES adapter,   \* of each host
          thread,    \* the network thread of each program
          sent,      \* the number of segments each host has sent
          received,  \* history: those each host's adapter has returned
          ticks, faults

vars == <<adapter, thread, sent, received, ticks, faults>>

Other(h) == CHOOSE g \in Host : g # h

HostSide == 1

InternetSide == 2

\* add_interface and add_route, before the thread starts.
SetUpRouter(h) ==
  LET With(r, side) ==
        AddInterface(r, NewAsyncInterface(RouterEthernet[h][side], RouterIp[h][side]))
  IN  FoldLeft(LAMBDA r, route : AddRoute(r, route.prefix, route.length, route.next_hop,
                                          route.interface_num),
               With(With(NewRouter, HostSide), InternetSide), Routes[h])

\* The client's socket has been given its destination, the server's listens.
NewHostAdapter(h, destination) ==
  NewEthernetAdapter(HostEthernet[h], HostIp[h].ip, RouterIp[h][HostSide],
    IF h = Client THEN NewAdapter(HostIp[h], destination)
    ELSE SetListening(NewAdapter(HostIp[h], [ip |-> 0, port |-> 0]), TRUE))

Init ==
  /\ \E destination \in Destinations :
       adapter = [h \in Host |-> NewHostAdapter(h, destination)]
  /\ thread = [h \in Host |-> NewThread(SetUpRouter(h), HostSide, InternetSide)]
  /\ sent = [h \in Host |-> 0]
  /\ received = [h \in Host |-> << >>]
  /\ ticks = 0
  /\ faults = 0

\* The frames the adapter has written are there for the thread.
Handed(h, a) ==
  /\ adapter' = [adapter EXCEPT ![h] = [a EXCEPT !.written = << >>]]
  /\ thread' = [thread EXCEPT ![h].from_host = @ \o a.written]

\* The socket sends a segment; one that listens does not.
HostWrites(h) ==
  /\ sent[h] < Len(Outgoing[h])
  /\ ~adapter[h].tcp.listening
  /\ Handed(h, AdapterWrite(adapter[h], Outgoing[h][sent[h] + 1]))
  /\ sent' = [sent EXCEPT ![h] = @ + 1]
  /\ UNCHANGED <<received, ticks, faults>>

HostReads(h) ==
  /\ thread[h].to_host # << >>
  /\ \E read \in {AdapterRead(adapter[h], Head(thread[h].to_host))} :
       /\ adapter' = [adapter EXCEPT ![h] = [read.adapter EXCEPT !.written = << >>]]
       /\ thread' = [thread EXCEPT ![h].to_host = Tail(@),
                                   ![h].from_host = @ \o read.adapter.written]
       /\ received' = IF read.segment = NoSegment THEN received
                      ELSE [received EXCEPT ![h] = Append(@, read.segment)]
  /\ UNCHANGED <<sent, ticks, faults>>

HostTicks(h) ==
  /\ ticks < MaxTicks
  /\ ticks' = ticks + 1
  /\ Handed(h, AdapterTick(adapter[h], 1))
  /\ UNCHANGED <<sent, received, faults>>

\* A round of the network thread.  Its ten milliseconds complete a unit of the
\* interfaces' times or not.
Rounds(h) ==
  \E ms \in 0..1 :
    /\ ticks' = ticks + ms
    /\ ticks' <= MaxTicks
    /\ \E x \in {ThreadRound(thread[h], ms)} :
         thread' = [thread EXCEPT ![h] = [x EXCEPT !.to_internet = << >>],
                                  ![Other(h)].from_internet = @ \o x.to_internet]
    /\ UNCHANGED <<adapter, sent, received, faults>>

\* The Internet loses a frame.
Loses(h) ==
  /\ thread[h].from_internet # << >> /\ faults < MaxFaults
  /\ thread' = [thread EXCEPT ![h].from_internet = Tail(@)]
  /\ faults' = faults + 1
  /\ UNCHANGED <<adapter, sent, received, ticks>>

Next == \E h \in Host : \/ HostWrites(h) \/ HostReads(h) \/ HostTicks(h)
                        \/ Rounds(h) \/ Loses(h)

\* Weak fairness of Rounds, whose ENABLED is too much for TLC: in these states poll()
\* returns, and this is what a round does then.
MayRound(h) ==
  \/ thread[h].from_host # << >> \/ thread[h].from_internet # << >>
  \/ thread[h].router_to_host # << >> \/ thread[h].router_to_internet # << >>

Rounded(h) ==
  LET x == thread[h]
      y == thread'[h]
  IN  \/ Len(y.from_host) < Len(x.from_host)
      \/ Len(y.from_internet) < Len(x.from_internet) /\ UNCHANGED faults
      \/ y.router_to_host # x.router_to_host
      \/ y.router_to_internet # x.router_to_internet

\* Both loops run.
Fairness == \A h \in Host : /\ WF_vars(HostReads(h))
                            /\ []<>~MayRound(h) \/ []<><<Rounded(h)>>_vars

Spec == Init /\ [][Next]_vars /\ Fairness

-----------------------------------------------------------------------------
(* Where the datagrams are. *)

Interfaces == {adapter[h].interface : h \in Host}
              \cup UNION {ToSet(thread[h].router.interfaces_) : h \in Host}

FramesOf(x) == x.from_host \o x.to_host \o x.from_internet
               \o x.router_to_host \o x.router_to_internet

Frames == FramesOf(thread[Client]) \o FramesOf(thread[Other(Client)])

\* For which address, and what.
Waiting(n) ==
  UNION {{ip} \X ToSet(n.ip_addr_to_ethernet_datagram_queue[ip].datagrams) : ip \in Asked(n)}

Copies(seg) ==
  Cardinality({i \in DOMAIN Frames : /\ Frames[i].type = "IPv4"
                                     /\ Frames[i].payload.segment = seg})
  + Cardinality({at \in UNION {{n} \X Waiting(n) : n \in Interfaces} :
                   at[2][2].segment = seg})
  + Cardinality({at \in UNION {{h} \X DOMAIN received[h] : h \in Host} :
                   received[at[1]][at[2]] = seg})

(* Where they should be, from the routes and not from the table. *)

Bit(n, i) == (n \div TwoTo[AddressBits - i]) % 2

AppliesTo(route, ip) == \A i \in 1..route.length : Bit(route.prefix, i) = Bit(ip, i)

BestRoutes(g, ip) ==
  {route \in ToSet(Routes[g]) :
     /\ AppliesTo(route, ip)
     /\ \A other \in ToSet(Routes[g]) : AppliesTo(other, ip) => other.length <= route.length}

\* The legs of the way from a host to an address: after k routers, the Ethernet
\* address of who sends and the IP address of who is to receive.
Legs(h, ip) ==
  LET Leg[k \in 0..DefaultTtl] ==
        IF k = 0
        THEN {[src |-> HostEthernet[h], next |-> RouterIp[h][HostSide]]}
        ELSE UNION {{[src  |-> RouterEthernet[g][route.interface_num],
                      next |-> IF route.next_hop = Direct THEN ip ELSE route.next_hop]
                      : route \in BestRoutes(g, ip)}
                    : g \in {g \in Host : \E leg \in Leg[k - 1] : leg.next \in ToSet(RouterIp[g])}}
  IN  Leg

\* The leg of a datagram is told by its time to live.
OnItsLeg(dgram, src, next) ==
  \E h \in Host :
    /\ dgram.src = HostIp[h] /\ dgram.ttl \in 1..DefaultTtl
    /\ [src |-> src, next |-> next] \in Legs(h, dgram.dst.ip)[DefaultTtl - dgram.ttl]

Owns(ip, ethernet) ==
  \E h \in Host : \/ HostIp[h].ip = ip /\ HostEthernet[h] = ethernet
                  \/ \E side \in 1..2 : /\ RouterIp[h][side] = ip
                                        /\ RouterEthernet[h][side] = ethernet

\* The time to live is enough for a host's datagram to reach the other host.
Reaches(h, ip) ==
  /\ ip = HostIp[Other(h)].ip
  /\ \E k \in 0..DefaultTtl - 1 : \E leg \in Legs(h, ip)[k] : leg.next = ip

-----------------------------------------------------------------------------
(* A datagram is always on the way that the longest matching prefixes      *)
(* prescribe: it waits or travels, once, between the two stations that its *)
(* time to live says, and its segment is returned, once, by the host it is *)
(* addressed to (router.cc:34-66, router.hh:24-44, endtoend.cc:103-123).   *)
FollowsRoutes ==
  /\ \A frame \in ToSet(Frames) :
       frame.type = "IPv4" =>
         \E ip \in IPAddress : Owns(ip, frame.dst) /\ OnItsLeg(frame.payload, frame.src, ip)
  /\ \A n \in Interfaces : \A w \in Waiting(n) : OnItsLeg(w[2], n.ethernet_address_, w[1])
  /\ \A h \in Host : \A i \in 1..sent[h] : Copies(Outgoing[h][i]) <= 1
  /\ \A h \in Host : received[h] # << >> =>
       adapter[Other(h)].tcp.destination = HostIp[h]

(* No frame travels for ever: a datagram whose routers send it in a circle *)
(* dies (router.cc:34, 56), and, unless a frame was lost, whatever still   *)
(* waits then, waits for an address that nobody has.                       *)
Settles ==
  <>[] /\ Frames = << >>
       /\ \A n \in Interfaces : \A w \in Waiting(n) :
            faults > 0 \/ ~\E ethernet \in EthernetAddress : Owns(w[1], ethernet)

(* As long as nothing is lost, the first segment of each host is returned  *)
(* by the other, if the time to live is enough, however many addresses     *)
(* have to be asked for on the way and whenever they are forgotten         *)
(* (endtoend.cc:103-132, 222-303).                                         *)
Arrives ==
  [](faults = 0) =>
    \A h \in Host :
      sent[h] > 0 /\ Reaches(h, adapter[h].tcp.destination.ip)
        ~> Outgoing[h][1] \in ToSet(received[Other(h)])

=============================================================================
