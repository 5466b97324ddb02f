----------------------- MODULE NetworkInterfaceProofs -----------------------
(***************************************************************************)
(* Safety properties of NetworkInterfaceSpec for every number of hosts,    *)
(* addresses and datagrams and for every duration.                         *)
(***************************************************************************)
EXTENDS NetworkInterfaceSpec, SequenceTheorems, FiniteSetTheorems, TLAPS

\* Some host has both addresses.
Genuine(ip, address) == \E g \in Host : IsHost(g, ip, address)

\* The datagrams passed to send_datagram for a next hop; s is the variable sent.
Destined(s, ip) ==
  {dgram \in InternetDatagram \cap DOMAIN s : s[dgram].next_hop = ip}

\* The frames that carry a datagram to the host of its next hop, or whose ARP
\* message names the addresses of a host as its sender's.
Truthful(s) ==
  {frame \in EthernetFrame :
     /\ frame.type = "IPv4" => /\ frame.payload \in DOMAIN s
                               /\ Genuine(s[frame.payload].next_hop, frame.dst)
     /\ frame.type = "ARP" => Genuine(frame.payload.sender_ip_address,
                                      frame.payload.sender_ethernet_address)}

SoundMappings(mappings) ==
  /\ DOMAIN mappings \subseteq IPAddress
  /\ \A ip \in DOMAIN mappings :
       /\ mappings[ip] \in [address : EthernetAddress, age : 0..MappingLifetime - 1]
       /\ Genuine(ip, mappings[ip].address)

SoundQueues(queues, s) ==
  /\ DOMAIN queues \subseteq IPAddress
  /\ \A ip \in DOMAIN queues :
       queues[ip] \in [datagrams : Seq(Destined(s, ip)), age : Nat]

\* The interface of host h with these frames to send, queues and mappings.
InterfaceOf(h, frames, queues, mappings) ==
  [ethernet_address_ |-> EthernetOf[h], ip_address_ |-> IpOf[h],
   maybe_send_queue |-> frames,
   ip_addr_to_ethernet_datagram_queue |-> queues,
   ip_addr_to_ethernet_addr |-> mappings]

\* It holds what is true, and asks for no address it knows.
Sound(n, h, s) ==
  /\ n = InterfaceOf(h, n.maybe_send_queue, n.ip_addr_to_ethernet_datagram_queue,
                     n.ip_addr_to_ethernet_addr)
  /\ n.maybe_send_queue \in Seq(Truthful(s))
  /\ SoundQueues(n.ip_addr_to_ethernet_datagram_queue, s)
  /\ SoundMappings(n.ip_addr_to_ethernet_addr)
  /\ Known(n) \cap Asked(n) = {}

\* The inductive invariant.
IInv ==
  /\ DOMAIN interface = Host
  /\ \A h \in Host : Sound(interface[h], h, sent)
  /\ inbox \in [Host -> Seq(Truthful(sent))]
  /\ \A arrival \in received : /\ arrival[2] \in DOMAIN sent
                               /\ IpOf[arrival[1]] = sent[arrival[2]].next_hop

-----------------------------------------------------------------------------
(* Soundness of an interface made of its parts. *)
LEMMA SoundParts ==
  ASSUME NEW h, NEW s, NEW frames, NEW queues, NEW mappings
  PROVE  Sound(InterfaceOf(h, frames, queues, mappings), h, s)
         <=> /\ frames \in Seq(Truthful(s))
             /\ SoundQueues(queues, s) /\ SoundMappings(mappings)
             /\ DOMAIN mappings \cap DOMAIN queues = {}
<1> DEFINE n == InterfaceOf(h, frames, queues, mappings)
<1>1. /\ n.maybe_send_queue = frames
      /\ n.ip_addr_to_ethernet_datagram_queue = queues
      /\ n.ip_addr_to_ethernet_addr = mappings
  BY DEF InterfaceOf
<1> HIDE DEF n
<1>2. n = InterfaceOf(h, frames, queues, mappings)
  BY DEF n
<1>3. Known(n) \cap Asked(n) = DOMAIN mappings \cap DOMAIN queues
  BY <1>1 DEF Known, Asked
<1>4. Sound(n, h, s) <=> /\ frames \in Seq(Truthful(s))
                         /\ SoundQueues(queues, s) /\ SoundMappings(mappings)
                         /\ DOMAIN mappings \cap DOMAIN queues = {}
  BY <1>1, <1>2, <1>3 DEF Sound
<1>5. QED
  BY <1>4 DEF n

(* Its fields, and an interface some of whose parts are replaced. *)
LEMMA Fields ==
  ASSUME NEW h, NEW frames, NEW queues, NEW mappings
  PROVE  /\ InterfaceOf(h, frames, queues, mappings).maybe_send_queue = frames
         /\ InterfaceOf(h, frames, queues, mappings).ip_addr_to_ethernet_datagram_queue
              = queues
         /\ InterfaceOf(h, frames, queues, mappings).ip_addr_to_ethernet_addr = mappings
BY DEF InterfaceOf

LEMMA FieldsOf ==
  ASSUME NEW h, NEW frames, NEW queues, NEW mappings, NEW n,
         n = InterfaceOf(h, frames, queues, mappings)
  PROVE  /\ n.maybe_send_queue = frames
         /\ n.ip_addr_to_ethernet_datagram_queue = queues
         /\ n.ip_addr_to_ethernet_addr = mappings
BY Fields

LEMMA FramesReplaced ==
  ASSUME NEW h, NEW frames, NEW queues, NEW mappings, NEW f
  PROVE  [InterfaceOf(h, frames, queues, mappings) EXCEPT !.maybe_send_queue = f]
           = InterfaceOf(h, f, queues, mappings)
BY DEF InterfaceOf

LEMMA QueuesReplaced ==
  ASSUME NEW h, NEW frames, NEW queues, NEW mappings, NEW q
  PROVE  [InterfaceOf(h, frames, queues, mappings) EXCEPT
            !.ip_addr_to_ethernet_datagram_queue = q]
           = InterfaceOf(h, frames, q, mappings)
BY DEF InterfaceOf

LEMMA MappingsReplaced ==
  ASSUME NEW h, NEW frames, NEW queues, NEW mappings, NEW m
  PROVE  [InterfaceOf(h, frames, queues, mappings) EXCEPT !.ip_addr_to_ethernet_addr = m]
           = InterfaceOf(h, frames, queues, m)
BY DEF InterfaceOf

(* What the operations make of the parts. *)
LEMMA QueuedParts ==
  ASSUME NEW h, NEW frames, NEW queues, NEW mappings, NEW frame
  PROVE  Queued(InterfaceOf(h, frames, queues, mappings), frame)
         = InterfaceOf(h, Append(frames, frame), queues, mappings)
BY DEF Queued, InterfaceOf

LEMMA QueuedFields ==
  ASSUME NEW h, NEW frames, NEW queues, NEW mappings, NEW frame, NEW n,
         n = InterfaceOf(h, Append(frames, frame), queues, mappings)
  PROVE  /\ n.maybe_send_queue = Append(frames, frame)
         /\ n.ip_addr_to_ethernet_datagram_queue = queues
         /\ n.ip_addr_to_ethernet_addr = mappings
<1> DEFINE f == Append(frames, frame)
<1>1. n = InterfaceOf(h, f, queues, mappings)
  OBVIOUS
<1> HIDE DEF f
<1>2. /\ n.maybe_send_queue = f
      /\ n.ip_addr_to_ethernet_datagram_queue = queues
      /\ n.ip_addr_to_ethernet_addr = mappings
  BY <1>1, FieldsOf
<1>3. QED
  BY <1>2 DEF f

LEMMA AfterSendParts ==
  ASSUME NEW h, NEW frames, NEW queues, NEW mappings, NEW n,
         n = InterfaceOf(h, frames, queues, mappings)
  PROVE  AfterSendFrame(n) = InterfaceOf(h, Tail(frames), queues, mappings)
<1> DEFINE f == Tail(frames)
<1>1. n.maybe_send_queue = frames
  BY Fields
<1>2. AfterSendFrame(n) = [n EXCEPT !.maybe_send_queue = f]
  BY <1>1 DEF AfterSendFrame
<1> HIDE DEF f
<1>3. [n EXCEPT !.maybe_send_queue = f] = InterfaceOf(h, f, queues, mappings)
  BY FramesReplaced
<1>4. QED
  BY <1>2, <1>3, Zenon DEF f

\* What is left of the mappings that grow ms older.
Remembered(mappings, ms) ==
  RestrictValues(Aged(mappings, ms), LAMBDA e : e.age < MappingLifetime)

LEMMA TickParts ==
  ASSUME NEW h, NEW frames, NEW queues, NEW mappings, NEW n,
         n = InterfaceOf(h, frames, queues, mappings), NEW ms
  PROVE  InterfaceTick(n, ms)
         = InterfaceOf(h, frames, Aged(queues, ms), Remembered(mappings, ms))
<1> DEFINE q == Aged(queues, ms)
           m == Remembered(mappings, ms)
<1>1. /\ n.ip_addr_to_ethernet_datagram_queue = queues
      /\ n.ip_addr_to_ethernet_addr = mappings
  BY Fields
<1>2. InterfaceTick(n, ms) = [n EXCEPT !.ip_addr_to_ethernet_addr = m,
                                       !.ip_addr_to_ethernet_datagram_queue = q]
  BY <1>1 DEF InterfaceTick, Remembered
<1> HIDE DEF q, m
<1>3. [n EXCEPT !.ip_addr_to_ethernet_addr = m,
                !.ip_addr_to_ethernet_datagram_queue = q]
        = [[n EXCEPT !.ip_addr_to_ethernet_addr = m]
             EXCEPT !.ip_addr_to_ethernet_datagram_queue = q]
  OBVIOUS
<1>4. [n EXCEPT !.ip_addr_to_ethernet_addr = m] = InterfaceOf(h, frames, queues, m)
  BY MappingsReplaced
<1>5. [InterfaceOf(h, frames, queues, m) EXCEPT !.ip_addr_to_ethernet_datagram_queue = q]
        = InterfaceOf(h, frames, q, m)
  BY QueuesReplaced
<1>6. QED
  BY <1>2, <1>3, <1>4, <1>5, Zenon DEF q, m

LEMMA UpdateMapsParts ==
  ASSUME NEW h, NEW frames, NEW queues, NEW mappings, NEW n,
         n = InterfaceOf(h, frames, queues, mappings), NEW ip, NEW address
  PROVE  UpdateMaps(n, ip, address)
         = InterfaceOf(h, frames \o Released(n, ip, address),
                       Restrict(queues, DOMAIN queues \ {ip}),
                       WithEntry(mappings, ip, [address |-> address, age |-> 0]))
<1> DEFINE f == frames \o Released(n, ip, address)
           q == Restrict(queues, DOMAIN queues \ {ip})
           m == WithEntry(mappings, ip, [address |-> address, age |-> 0])
<1>1. /\ n.maybe_send_queue = frames
      /\ n.ip_addr_to_ethernet_datagram_queue = queues
      /\ n.ip_addr_to_ethernet_addr = mappings
  BY Fields
<1>2. UpdateMaps(n, ip, address)
        = [n EXCEPT !.ip_addr_to_ethernet_addr = m, !.maybe_send_queue = f,
                    !.ip_addr_to_ethernet_datagram_queue = q]
  BY <1>1 DEF UpdateMaps
<1> HIDE DEF f, q, m
<1>3. [n EXCEPT !.ip_addr_to_ethernet_addr = m, !.maybe_send_queue = f,
                !.ip_addr_to_ethernet_datagram_queue = q]
        = [[[n EXCEPT !.ip_addr_to_ethernet_addr = m] EXCEPT !.maybe_send_queue = f]
             EXCEPT !.ip_addr_to_ethernet_datagram_queue = q]
  OBVIOUS
<1>4. [n EXCEPT !.ip_addr_to_ethernet_addr = m] = InterfaceOf(h, frames, queues, m)
  BY MappingsReplaced
<1>5. [InterfaceOf(h, frames, queues, m) EXCEPT !.maybe_send_queue = f]
        = InterfaceOf(h, f, queues, m)
  BY FramesReplaced
<1>6. [InterfaceOf(h, f, queues, m) EXCEPT !.ip_addr_to_ethernet_datagram_queue = q]
        = InterfaceOf(h, f, q, m)
  BY QueuesReplaced
<1>7. QED
  BY <1>2, <1>3, <1>4, <1>5, <1>6, Zenon DEF f, q, m

LEMMA FrameQueued ==
  ASSUME NEW n, NEW h, NEW s, Sound(n, h, s), NEW frame \in Truthful(s)
  PROVE  Sound(Queued(n, frame), h, s)
<1>1. PICK frames, queues, mappings :
        n = InterfaceOf(h, frames, queues, mappings)
  BY DEF Sound
<1>2. /\ frames \in Seq(Truthful(s))
      /\ SoundQueues(queues, s) /\ SoundMappings(mappings)
      /\ DOMAIN mappings \cap DOMAIN queues = {}
  BY <1>1, SoundParts
<1>3. Append(frames, frame) \in Seq(Truthful(s))
  BY <1>2
<1>4. Queued(n, frame) = InterfaceOf(h, Append(frames, frame), queues, mappings)
  BY <1>1, QueuedParts
<1>5. QED
  BY <1>2, <1>3, <1>4, SoundParts

(* More datagrams sent: what was true stays true. *)
LEMMA Grown ==
  ASSUME NEW s, NEW dgram, dgram \notin DOMAIN s, NEW value
  PROVE  /\ Truthful(s) \subseteq Truthful(WithEntry(s, dgram, value))
         /\ \A ip : Destined(s, ip) \subseteq Destined(WithEntry(s, dgram, value), ip)
<1> DEFINE t == WithEntry(s, dgram, value)
<1>1. \A x \in DOMAIN s : x \in DOMAIN t /\ t[x] = s[x]
  BY DEF WithEntry
<1>2. Truthful(s) \subseteq Truthful(t)
  BY <1>1 DEF Truthful
<1>3. \A ip : Destined(s, ip) \subseteq Destined(t, ip)
  BY <1>1 DEF Destined
<1>4. QED
  BY <1>2, <1>3

LEMMA SoundGrown ==
  ASSUME NEW n, NEW h, NEW s, Sound(n, h, s), NEW dgram, dgram \notin DOMAIN s,
         NEW value
  PROVE  Sound(n, h, WithEntry(s, dgram, value))
<1> DEFINE t == WithEntry(s, dgram, value)
<1>1. n.maybe_send_queue \in Seq(Truthful(t))
  BY Grown, SeqMonotonic DEF Sound
<1>2. ASSUME NEW ip \in Asked(n)
      PROVE  n.ip_addr_to_ethernet_datagram_queue[ip] \in
               [datagrams : Seq(Destined(t, ip)), age : Nat]
  <2> DEFINE entry == n.ip_addr_to_ethernet_datagram_queue[ip]
  <2>1. entry \in [datagrams : Seq(Destined(s, ip)), age : Nat]
    BY <1>2 DEF Sound, SoundQueues, Asked
  <2>2. entry.datagrams \in Seq(Destined(t, ip))
    BY <2>1, Grown, SeqMonotonic
  <2>3. QED
    BY <2>1, <2>2
<1>3. SoundQueues(n.ip_addr_to_ethernet_datagram_queue, t)
  BY <1>2 DEF Sound, SoundQueues, Asked
<1>4. QED
  BY <1>1, <1>3 DEF Sound

-----------------------------------------------------------------------------
(* The addresses of a host are addresses. *)
LEMMA HostAddresses ==
  ASSUME NEW h \in Host
  PROVE  /\ EthernetOf[h] \in EthernetAddress \ {Broadcast, NoAddress}
         /\ IpOf[h] \in IPAddress
         /\ Genuine(IpOf[h], EthernetOf[h])
BY EthernetOfAssumption, IpOfAssumption DEF Genuine, IsHost

(* A datagram framed for its next hop. *)
LEMMA DatagramFramed ==
  ASSUME NEW h \in Host, NEW n, n.ethernet_address_ = EthernetOf[h], NEW s, NEW ip,
         NEW dgram \in Destined(s, ip), NEW address \in EthernetAddress,
         Genuine(ip, address)
  PROVE  MakeFrame(n, address, "IPv4", dgram) \in Truthful(s)
<1> DEFINE frame == MakeFrame(n, address, "IPv4", dgram)
<1>1. /\ dgram \in InternetDatagram /\ dgram \in DOMAIN s
      /\ s[dgram].next_hop = ip
  BY DEF Destined
<1>2. frame = [src |-> EthernetOf[h], dst |-> address, type |-> "IPv4",
               payload |-> dgram]
  BY DEF MakeFrame
<1>3. frame \in EthernetFrame
  BY <1>1, <1>2, HostAddresses DEF EthernetFrame
<1>4. frame.type = "IPv4" /\ frame.payload = dgram /\ frame.dst = address
  BY <1>2
<1>5. QED
  BY <1>1, <1>3, <1>4 DEF Truthful

(* An ARP message of a host names its own addresses. *)
LEMMA ArpFramed ==
  ASSUME NEW h \in Host, NEW n, n.ethernet_address_ = EthernetOf[h],
         n.ip_address_ = IpOf[h], NEW s, NEW opcode \in {"REQUEST", "REPLY"},
         NEW dst \in EthernetAddress, NEW address \in EthernetAddress,
         NEW ip \in IPAddress
  PROVE  MakeFrame(n, dst, "ARP", MakeArp(n, opcode, address, ip)) \in Truthful(s)
<1> DEFINE arp   == MakeArp(n, opcode, address, ip)
           frame == MakeFrame(n, dst, "ARP", arp)
<1>1. arp = [opcode |-> opcode, sender_ethernet_address |-> EthernetOf[h],
             sender_ip_address |-> IpOf[h], target_ethernet_address |-> address,
             target_ip_address |-> ip]
  BY DEF MakeArp
<1>2. arp \in ARPMessage
  BY <1>1, HostAddresses DEF ARPMessage
<1>3. frame = [src |-> EthernetOf[h], dst |-> dst, type |-> "ARP", payload |-> arp]
  BY DEF MakeFrame
<1>4. frame \in EthernetFrame
  BY <1>2, <1>3, HostAddresses DEF EthernetFrame
<1>5. /\ frame.type = "ARP"
      /\ frame.payload.sender_ip_address = IpOf[h]
      /\ frame.payload.sender_ethernet_address = EthernetOf[h]
  BY <1>1, <1>3
<1>6. QED
  BY <1>4, <1>5, HostAddresses DEF Truthful

-----------------------------------------------------------------------------
(* Each operation of an interface keeps it sound. *)
LEMMA OwnAddresses ==
  ASSUME NEW n, NEW h, NEW s, Sound(n, h, s)
  PROVE  n.ethernet_address_ = EthernetOf[h] /\ n.ip_address_ = IpOf[h]
BY DEF Sound, InterfaceOf

LEMMA RequestQueuedSound ==
  ASSUME NEW h \in Host, NEW n, NEW s, Sound(n, h, s), NEW ip \in IPAddress
  PROVE  Sound(RequestQueued(n, ip), h, s)
<1>1. MakeFrame(n, Broadcast, "ARP", MakeArp(n, "REQUEST", NoAddress, ip))
        \in Truthful(s)
  BY OwnAddresses, ArpFramed, BroadcastAssumption, NoAddressAssumption
<1>2. QED
  BY <1>1, FrameQueued DEF RequestQueued

LEMMA MappingSound ==
  ASSUME NEW mappings, SoundMappings(mappings), NEW ip \in IPAddress,
         NEW address \in EthernetAddress, Genuine(ip, address)
  PROVE  SoundMappings(WithEntry(mappings, ip, [address |-> address, age |-> 0]))
<1> DEFINE entry == [address |-> address, age |-> 0]
           after == WithEntry(mappings, ip, entry)
<1>1. DOMAIN after = DOMAIN mappings \cup {ip}
  BY DEF WithEntry
<1>2. 0 \in 0..MappingLifetime - 1
  BY TimesAssumption
<1>3. entry \in [address : EthernetAddress, age : 0..MappingLifetime - 1]
  BY <1>2
<1>4. after[ip] = entry
  BY DEF WithEntry
<1>5. \A k \in DOMAIN mappings : k # ip => after[k] = mappings[k]
  BY DEF WithEntry
<1> HIDE DEF after
<1>6. ASSUME NEW k \in DOMAIN after
      PROVE  /\ after[k] \in [address : EthernetAddress, age : 0..MappingLifetime - 1]
             /\ Genuine(k, after[k].address)
  <2>1. CASE k = ip
    BY <2>1, <1>3, <1>4
  <2>2. CASE k # ip
    BY <2>2, <1>1, <1>5 DEF SoundMappings
  <2>3. QED
    BY <2>1, <2>2
<1>7. DOMAIN after \subseteq IPAddress
  BY <1>1 DEF SoundMappings
<1>8. QED
  BY <1>6, <1>7 DEF SoundMappings, after

LEMMA QueueSound ==
  ASSUME NEW s, NEW queues, SoundQueues(queues, s), NEW ip \in IPAddress,
         NEW dgram \in Destined(s, ip)
  PROVE  SoundQueues(WithEntry(queues, ip, [datagrams |-> <<dgram>>, age |-> 0]), s)
<1> DEFINE entry == [datagrams |-> <<dgram>>, age |-> 0]
           after == WithEntry(queues, ip, entry)
<1>1. DOMAIN after = DOMAIN queues \cup {ip}
  BY DEF WithEntry
<1>2. <<dgram>> \in Seq(Destined(s, ip))
  OBVIOUS
<1>3. entry \in [datagrams : Seq(Destined(s, ip)), age : Nat]
  BY <1>2
<1>4. after[ip] = entry
  BY DEF WithEntry
<1>5. \A k \in DOMAIN queues : k # ip => after[k] = queues[k]
  BY DEF WithEntry
<1> HIDE DEF after, entry
<1>6. ASSUME NEW k \in DOMAIN after
      PROVE  after[k] \in [datagrams : Seq(Destined(s, k)), age : Nat]
  <2>1. CASE k = ip
    BY <2>1, <1>3, <1>4
  <2>2. CASE k # ip
    BY <2>2, <1>1, <1>5 DEF SoundQueues
  <2>3. QED
    BY <2>1, <2>2
<1>7. DOMAIN after \subseteq IPAddress
  BY <1>1 DEF SoundQueues
<1>8. QED
  BY <1>6, <1>7 DEF SoundQueues, after, entry

LEMMA SendDatagramSound ==
  ASSUME NEW h \in Host, NEW n, NEW s, Sound(n, h, s), NEW ip \in IPAddress,
         NEW dgram \in Destined(s, ip)
  PROVE  Sound(SendDatagram(n, dgram, ip), h, s)
<1>1. PICK frames, queues, mappings :
        n = InterfaceOf(h, frames, queues, mappings)
  BY DEF Sound
<1>2. /\ frames \in Seq(Truthful(s))
      /\ SoundQueues(queues, s) /\ SoundMappings(mappings)
      /\ DOMAIN mappings \cap DOMAIN queues = {}
  BY <1>1, SoundParts
<1>3. Known(n) = DOMAIN mappings /\ Asked(n) = DOMAIN queues
  BY <1>1 DEF Known, Asked, InterfaceOf
<1>4. CASE ip \in Known(n)
  <2> DEFINE address == n.ip_addr_to_ethernet_addr[ip].address
  <2>1. n.ip_addr_to_ethernet_addr = mappings
    BY <1>1 DEF InterfaceOf
  <2>2. address \in EthernetAddress /\ Genuine(ip, address)
    BY <2>1, <1>2, <1>3, <1>4 DEF SoundMappings
  <2>3. MakeFrame(n, address, "IPv4", dgram) \in Truthful(s)
    BY <2>2, OwnAddresses, DatagramFramed
  <2>4. SendDatagram(n, dgram, ip) = Queued(n, MakeFrame(n, address, "IPv4", dgram))
    BY <1>4 DEF SendDatagram
  <2>5. QED
    BY <2>3, <2>4, FrameQueued
<1>5. CASE ip \notin Known(n) /\ ip \in Asked(n)
  <2>1. SendDatagram(n, dgram, ip) \in {n, RequestQueued(n, ip)}
    BY <1>5 DEF SendDatagram
  <2>2. QED
    BY <2>1, RequestQueuedSound
<1>6. CASE ip \notin Known(n) /\ ip \notin Asked(n)
  <2> DEFINE entry == [datagrams |-> <<dgram>>, age |-> 0]
             m == InterfaceOf(h, frames, WithEntry(queues, ip, entry), mappings)
  <2>1. SendDatagram(n, dgram, ip) = RequestQueued(m, ip)
    BY <1>1, <1>6 DEF SendDatagram, InterfaceOf
  <2>2. SoundQueues(WithEntry(queues, ip, entry), s)
    BY <1>2, QueueSound
  <2>3. DOMAIN mappings \cap DOMAIN WithEntry(queues, ip, entry) = {}
    BY <1>2, <1>3, <1>6 DEF WithEntry
  <2>4. Sound(m, h, s)
    BY <1>2, <2>2, <2>3, SoundParts
  <2> HIDE DEF m
  <2>5. QED
    BY <2>1, <2>4, RequestQueuedSound
<1>7. QED
  BY <1>4, <1>5, <1>6

(* What waited for an address goes to it, as soon as it is known. *)
LEMMA ReleasedTruthful ==
  ASSUME NEW h \in Host, NEW n, NEW s, Sound(n, h, s), NEW ip \in IPAddress,
         NEW address \in EthernetAddress, Genuine(ip, address)
  PROVE  Released(n, ip, address) \in Seq(Truthful(s))
<1>1. CASE ip \in Asked(n)
  <2> DEFINE waiting == n.ip_addr_to_ethernet_datagram_queue[ip].datagrams
  <2>1. waiting \in Seq(Destined(s, ip))
    BY <1>1 DEF Sound, SoundQueues, Asked
  <2> HIDE DEF waiting
  <2>2. ASSUME NEW i \in 1..Len(waiting)
        PROVE  MakeFrame(n, address, "IPv4", waiting[i]) \in Truthful(s)
    <3>1. waiting[i] \in Destined(s, ip)
      BY <2>1, ElementOfSeq
    <3>2. QED
      BY <3>1, OwnAddresses, DatagramFramed
  <2>3. Len(waiting) \in Nat
    BY <2>1, LenProperties
  <2>4. [i \in 1..Len(waiting) |-> MakeFrame(n, address, "IPv4", waiting[i])]
          \in Seq(Truthful(s))
    BY <2>2, <2>3
  <2>5. QED
    BY <1>1, <2>4 DEF Released, waiting
<1>2. CASE ip \notin Asked(n)
  BY <1>2, EmptySeq DEF Released
<1>3. QED
  BY <1>1, <1>2

LEMMA UpdateMapsSound ==
  ASSUME NEW h \in Host, NEW n, NEW s, Sound(n, h, s), NEW ip \in IPAddress,
         NEW address \in EthernetAddress, Genuine(ip, address)
  PROVE  Sound(UpdateMaps(n, ip, address), h, s)
<1>1. PICK frames, queues, mappings :
        n = InterfaceOf(h, frames, queues, mappings)
  BY DEF Sound
<1>2. /\ frames \in Seq(Truthful(s))
      /\ SoundQueues(queues, s) /\ SoundMappings(mappings)
      /\ DOMAIN mappings \cap DOMAIN queues = {}
  BY <1>1, SoundParts
<1> DEFINE released == Released(n, ip, address)
           left     == Restrict(queues, DOMAIN queues \ {ip})
           learned  == WithEntry(mappings, ip, [address |-> address, age |-> 0])
<1>3. UpdateMaps(n, ip, address) = InterfaceOf(h, frames \o released, left, learned)
  BY <1>1, UpdateMapsParts
<1>4. released \in Seq(Truthful(s))
  BY ReleasedTruthful
<1>5. SoundMappings(learned)
  BY <1>2, MappingSound
<1>6. SoundQueues(left, s)
  BY <1>2 DEF SoundQueues, Restrict
<1>7. DOMAIN learned \cap DOMAIN left = {}
  BY <1>2 DEF WithEntry, Restrict
<1> HIDE DEF released, left, learned
<1>8. frames \o released \in Seq(Truthful(s))
  BY <1>2, <1>4, ConcatProperties
<1>9. QED
  BY <1>3, <1>5, <1>6, <1>7, <1>8, SoundParts

LEMMA ReceiveArpSound ==
  ASSUME NEW h \in Host, NEW n, NEW s, Sound(n, h, s), NEW arp \in ARPMessage,
         Genuine(arp.sender_ip_address, arp.sender_ethernet_address)
  PROVE  Sound(ReceiveArp(n, arp), h, s)
<1> DEFINE learned == UpdateMaps(n, arp.sender_ip_address, arp.sender_ethernet_address)
<1>1. arp.sender_ip_address \in IPAddress /\ arp.sender_ethernet_address \in EthernetAddress
  BY DEF ARPMessage
<1>2. Sound(learned, h, s)
  BY <1>1, UpdateMapsSound
<1>3. MakeFrame(n, arp.sender_ethernet_address, "ARP",
                MakeArp(n, "REPLY", arp.sender_ethernet_address,
                        arp.sender_ip_address)) \in Truthful(s)
  BY <1>1, OwnAddresses, ArpFramed
<1> HIDE DEF learned
<1>4. Sound(Queued(learned, MakeFrame(n, arp.sender_ethernet_address, "ARP",
                MakeArp(n, "REPLY", arp.sender_ethernet_address,
                        arp.sender_ip_address))), h, s)
  BY <1>2, <1>3, FrameQueued
<1>5. QED
  BY <1>2, <1>4 DEF ReceiveArp, learned

(* An IPv4 frame that is accepted was sent to its next hop. *)
LEMMA RecvFrameSound ==
  ASSUME NEW h \in Host, NEW n, NEW s, Sound(n, h, s), NEW frame \in Truthful(s)
  PROVE  /\ Sound(RecvFrame(n, frame).interface, h, s)
         /\ RecvFrame(n, frame).datagram # NoDatagram =>
              /\ RecvFrame(n, frame).datagram \in DOMAIN s
              /\ IpOf[h] = s[RecvFrame(n, frame).datagram].next_hop
<1>1. frame \in EthernetFrame
  BY DEF Truthful
<1>2. CASE frame.dst \notin {Broadcast, n.ethernet_address_}
  BY <1>2 DEF RecvFrame
<1>3. CASE frame.dst \in {Broadcast, n.ethernet_address_} /\ frame.type = "IPv4"
  <2>1. RecvFrame(n, frame) = [interface |-> n, datagram |-> frame.payload]
    BY <1>3 DEF RecvFrame
  <2>2. frame.payload \in DOMAIN s
    BY <1>3 DEF Truthful
  <2>3. PICK g \in Host : IsHost(g, s[frame.payload].next_hop, frame.dst)
    BY <1>3 DEF Truthful, Genuine
  <2>4. EthernetOf[g] = EthernetOf[h]
    BY <1>3, <2>3, OwnAddresses, HostAddresses DEF IsHost
  <2>5. g = h
    BY <2>4, AddressesAssumption
  <2>6. QED
    BY <2>1, <2>2, <2>3, <2>5 DEF IsHost
<1>4. CASE frame.dst \in {Broadcast, n.ethernet_address_} /\ frame.type # "IPv4"
  <2>1. RecvFrame(n, frame)
          = [interface |-> ReceiveArp(n, frame.payload), datagram |-> NoDatagram]
    BY <1>4 DEF RecvFrame
  <2>2. frame.type = "ARP" /\ frame.payload \in ARPMessage
    BY <1>1, <1>4 DEF EthernetFrame
  <2>3. Genuine(frame.payload.sender_ip_address, frame.payload.sender_ethernet_address)
    BY <2>2 DEF Truthful
  <2>4. QED
    BY <2>1, <2>2, <2>3, ReceiveArpSound
<1>5. QED
  BY <1>2, <1>3, <1>4

LEMMA Younger ==
  ASSUME NEW mappings, NEW ms \in Nat,
         \A ip \in DOMAIN mappings :
           mappings[ip] \in [address : EthernetAddress, age : 0..MappingLifetime - 1]
  PROVE  Remembered(mappings, ms)
         = [ip \in {k \in DOMAIN mappings : mappings[k].age + ms < MappingLifetime} |->
              [mappings[ip] EXCEPT !.age = @ + ms]]
<1> DEFINE aged == Aged(mappings, ms)
           kept == {ip \in DOMAIN mappings : mappings[ip].age + ms < MappingLifetime}
<1>1. DOMAIN aged = DOMAIN mappings
  BY DEF Aged
<1>2. \A ip \in DOMAIN mappings :
        /\ aged[ip] = [mappings[ip] EXCEPT !.age = @ + ms]
        /\ aged[ip].age = mappings[ip].age + ms
  BY DEF Aged
<1> HIDE DEF aged
<1>3. {ip \in DOMAIN aged : aged[ip].age < MappingLifetime} = kept
  BY <1>1, <1>2
<1>4. [ip \in kept |-> aged[ip]]
        = [ip \in kept |-> [mappings[ip] EXCEPT !.age = @ + ms]]
  BY <1>2
<1>5. RestrictValues(aged, LAMBDA e : e.age < MappingLifetime)
        = [ip \in {k \in DOMAIN aged : aged[k].age < MappingLifetime} |-> aged[ip]]
  BY DEF RestrictValues, Restrict
<1>6. QED
  BY <1>3, <1>4, <1>5 DEF aged, Remembered

LEMMA TickSound ==
  ASSUME NEW h \in Host, NEW n, NEW s, Sound(n, h, s), NEW ms \in Nat
  PROVE  Sound(InterfaceTick(n, ms), h, s)
<1>1. PICK frames, queues, mappings :
        n = InterfaceOf(h, frames, queues, mappings)
  BY DEF Sound
<1>2. /\ frames \in Seq(Truthful(s))
      /\ SoundQueues(queues, s) /\ SoundMappings(mappings)
      /\ DOMAIN mappings \cap DOMAIN queues = {}
  BY <1>1, SoundParts
<1> DEFINE kept == {ip \in DOMAIN mappings : mappings[ip].age + ms < MappingLifetime}
           fresh == [ip \in kept |-> [mappings[ip] EXCEPT !.age = @ + ms]]
<1>3. InterfaceTick(n, ms) = InterfaceOf(h, frames, Aged(queues, ms), fresh)
  <2>1. Remembered(mappings, ms) = fresh
    <3>1. \A ip \in DOMAIN mappings :
            mappings[ip] \in [address : EthernetAddress, age : 0..MappingLifetime - 1]
      BY <1>2 DEF SoundMappings
    <3>2. QED
      BY <3>1, Younger, Zenon
  <2> HIDE DEF fresh, kept
  <2>2. InterfaceTick(n, ms)
          = InterfaceOf(h, frames, Aged(queues, ms), Remembered(mappings, ms))
    BY <1>1, TickParts
  <2>3. QED
    BY <2>1, <2>2
<1>4. SoundMappings(fresh)
  <2>1. ASSUME NEW ip \in kept
        PROVE  /\ fresh[ip] \in [address : EthernetAddress, age : 0..MappingLifetime - 1]
               /\ Genuine(ip, fresh[ip].address)
    <3>1. /\ mappings[ip] \in [address : EthernetAddress, age : 0..MappingLifetime - 1]
          /\ Genuine(ip, mappings[ip].address)
      BY <1>2 DEF SoundMappings
    <3>2. fresh[ip] = [mappings[ip] EXCEPT !.age = @ + ms]
      OBVIOUS
    <3>3. fresh[ip].address = mappings[ip].address
      BY <3>1, <3>2
    <3>4. QED
      BY <3>1, <3>2, <3>3, TimesAssumption
  <2>2. DOMAIN fresh = kept
    OBVIOUS
  <2>3. kept \subseteq IPAddress
    BY <1>2 DEF SoundMappings
  <2> HIDE DEF fresh, kept
  <2>4. QED
    BY <2>1, <2>2, <2>3 DEF SoundMappings
<1>5. SoundQueues(Aged(queues, ms), s)
  BY <1>2 DEF SoundQueues, Aged
<1>6. DOMAIN fresh \cap DOMAIN Aged(queues, ms) = {}
  BY <1>2 DEF Aged
<1> HIDE DEF fresh
<1>7. QED
  BY <1>2, <1>3, <1>4, <1>5, <1>6, SoundParts

LEMMA AfterSendSound ==
  ASSUME NEW h, NEW n, NEW s, Sound(n, h, s), n.maybe_send_queue # << >>
  PROVE  /\ Sound(AfterSendFrame(n), h, s)
         /\ MaybeSendFrame(n) \in Truthful(s)
<1>1. PICK frames, queues, mappings :
        n = InterfaceOf(h, frames, queues, mappings)
  BY DEF Sound
<1>2. /\ frames \in Seq(Truthful(s))
      /\ SoundQueues(queues, s) /\ SoundMappings(mappings)
      /\ DOMAIN mappings \cap DOMAIN queues = {}
  BY <1>1, SoundParts
<1>3. n.maybe_send_queue = frames
  BY <1>1 DEF InterfaceOf
<1>4. Head(frames) \in Truthful(s) /\ Tail(frames) \in Seq(Truthful(s))
  BY <1>2, <1>3, HeadTailProperties
<1>5. AfterSendFrame(n) = InterfaceOf(h, Tail(frames), queues, mappings)
  BY <1>1, AfterSendParts
<1>6. QED
  BY <1>2, <1>3, <1>4, <1>5, SoundParts DEF MaybeSendFrame

-----------------------------------------------------------------------------
(* The invariant holds initially and every action keeps it. *)
LEMMA InitIInv == Init => IInv
<1> SUFFICES ASSUME Init PROVE IInv
  OBVIOUS
<1>1. ASSUME NEW h \in Host
      PROVE  Sound(interface[h], h, sent)
  <2> DEFINE none == [ip \in {} |-> << >>]
  <2>1. interface[h] = InterfaceOf(h, << >>, none, none)
    BY DEF Init, NewInterface, InterfaceOf
  <2>2. DOMAIN none = {}
    OBVIOUS
  <2> HIDE DEF none
  <2>3. SoundQueues(none, sent) /\ SoundMappings(none)
    BY <2>2 DEF SoundQueues, SoundMappings
  <2>4. QED
    BY <2>1, <2>2, <2>3, SoundParts, EmptySeq
<1>2. inbox \in [Host -> Seq(Truthful(sent))]
  BY EmptySeq DEF Init
<1>3. QED
  BY <1>1, <1>2 DEF Init, IInv

LEMMA SendsDatagramIInv ==
  ASSUME IInv, NEW h \in Host, NEW dgram \in InternetDatagram,
         NEW next_hop \in IPAddress, SendsDatagram(h, dgram, next_hop)
  PROVE  IInv'
<1> DEFINE value == [host |-> h, next_hop |-> next_hop]
<1>1. /\ dgram \notin DOMAIN sent
      /\ interface' = [interface EXCEPT ![h] = SendDatagram(interface[h], dgram, next_hop)]
      /\ sent' = WithEntry(sent, dgram, value)
      /\ inbox' = inbox /\ received' = received
  BY DEF SendsDatagram
<1>2. /\ DOMAIN sent' = DOMAIN sent \cup {dgram}
      /\ sent'[dgram] = value
      /\ \A x \in DOMAIN sent : sent'[x] = sent[x]
  BY <1>1 DEF WithEntry
<1> HIDE DEF value
<1>3. \A g \in Host : Sound(interface[g], g, sent')
  BY <1>1, SoundGrown DEF IInv
<1>4. dgram \in Destined(sent', next_hop)
  BY <1>2 DEF Destined, value
<1>5. Sound(SendDatagram(interface[h], dgram, next_hop), h, sent')
  BY <1>3, <1>4, SendDatagramSound
<1>6. DOMAIN interface' = Host /\ \A g \in Host : Sound(interface'[g], g, sent')
  BY <1>1, <1>3, <1>5 DEF IInv
<1>7. inbox' \in [Host -> Seq(Truthful(sent'))]
  <2>1. Truthful(sent) \subseteq Truthful(sent')
    BY <1>1, Grown
  <2>2. Seq(Truthful(sent)) \subseteq Seq(Truthful(sent'))
    BY <2>1, SeqMonotonic
  <2>3. QED
    BY <1>1, <2>2 DEF IInv
<1>8. \A arrival \in received' : /\ arrival[2] \in DOMAIN sent'
                                  /\ IpOf[arrival[1]] = sent'[arrival[2]].next_hop
  BY <1>1, <1>2 DEF IInv
<1>9. QED
  BY <1>6, <1>7, <1>8 DEF IInv

LEMMA TransmitsIInv ==
  ASSUME IInv, NEW h \in Host, NEW reached \in SUBSET (Host \ {h}), Transmits(h, reached)
  PROVE  IInv'
<1> DEFINE frame == MaybeSendFrame(interface[h])
<1>1. /\ interface[h].maybe_send_queue # << >>
      /\ interface' = [interface EXCEPT ![h] = AfterSendFrame(interface[h])]
      /\ inbox' = [g \in Host |-> IF g \in reached THEN Append(inbox[g], frame)
                                                   ELSE inbox[g]]
      /\ sent' = sent /\ received' = received
  BY DEF Transmits
<1>2. Sound(AfterSendFrame(interface[h]), h, sent) /\ frame \in Truthful(sent)
  BY <1>1, AfterSendSound DEF IInv
<1> HIDE DEF frame
<1>3. DOMAIN interface' = Host /\ \A g \in Host : Sound(interface'[g], g, sent)
  BY <1>1, <1>2 DEF IInv
<1>4. inbox' \in [Host -> Seq(Truthful(sent))]
  <2>1. ASSUME NEW g \in Host
        PROVE  inbox[g] \in Seq(Truthful(sent)) /\ Append(inbox[g], frame) \in Seq(Truthful(sent))
    BY <1>2, AppendProperties DEF IInv
  <2>2. QED
    BY <1>1, <2>1
<1>5. QED
  BY <1>1, <1>3, <1>4 DEF IInv

LEMMA ReceivesIInv ==
  ASSUME IInv, NEW h \in Host, Receives(h)
  PROVE  IInv'
<1> DEFINE frame == Head(inbox[h])
           result == RecvFrame(interface[h], frame)
<1>1. /\ inbox[h] # << >>
      /\ inbox' = [inbox EXCEPT ![h] = Tail(inbox[h])]
      /\ interface' = [interface EXCEPT ![h] = result.interface]
      /\ received' = IF result.datagram = NoDatagram THEN received
                     ELSE received \cup {<<h, result.datagram>>}
      /\ sent' = sent
  BY DEF Receives
<1>2. inbox[h] \in Seq(Truthful(sent))
  BY DEF IInv
<1>3. frame \in Truthful(sent) /\ Tail(inbox[h]) \in Seq(Truthful(sent))
  BY <1>1, <1>2, HeadTailProperties
<1>4. /\ Sound(result.interface, h, sent)
      /\ result.datagram # NoDatagram =>
           /\ result.datagram \in DOMAIN sent
           /\ IpOf[h] = sent[result.datagram].next_hop
  BY <1>3, RecvFrameSound DEF IInv
<1> HIDE DEF result, frame
<1>5. DOMAIN interface' = Host /\ \A g \in Host : Sound(interface'[g], g, sent)
  BY <1>1, <1>4 DEF IInv
<1>6. inbox' \in [Host -> Seq(Truthful(sent))]
  BY <1>1, <1>3 DEF IInv
<1>7. \A arrival \in received' : /\ arrival[2] \in DOMAIN sent
                                  /\ IpOf[arrival[1]] = sent[arrival[2]].next_hop
  BY <1>1, <1>4 DEF IInv
<1>8. QED
  BY <1>1, <1>5, <1>6, <1>7 DEF IInv

LEMMA TicksIInv ==
  ASSUME IInv, NEW h \in Host, Ticks(h)
  PROVE  IInv'
<1>1. /\ interface' = [interface EXCEPT ![h] = InterfaceTick(interface[h], 1)]
      /\ inbox' = inbox /\ sent' = sent /\ received' = received
  BY DEF Ticks
<1>2. Sound(InterfaceTick(interface[h], 1), h, sent)
  BY TickSound DEF IInv
<1>3. DOMAIN interface' = Host /\ \A g \in Host : Sound(interface'[g], g, sent)
  BY <1>1, <1>2 DEF IInv
<1>4. QED
  BY <1>1, <1>3 DEF IInv

LEMMA NextIInv == IInv /\ [Next]_vars => IInv'
<1> SUFFICES ASSUME IInv, [Next]_vars PROVE IInv'
  OBVIOUS
<1>1. CASE UNCHANGED vars
  BY <1>1 DEF vars, IInv
<1>2. CASE Next
  BY <1>2, SendsDatagramIInv, TransmitsIInv, ReceivesIInv, TicksIInv DEF Next
<1>3. QED
  BY <1>1, <1>2

(* What the invariant says of the properties. *)
LEMMA Typed == IInv => TypeOK
<1> SUFFICES ASSUME IInv PROVE TypeOK
  OBVIOUS
<1>1. Seq(Truthful(sent)) \subseteq Seq(EthernetFrame)
  <2>1. Truthful(sent) \subseteq EthernetFrame
    BY DEF Truthful
  <2>2. QED
    BY <2>1, SeqMonotonic
<1>2. \A ip : Seq(Destined(sent, ip)) \subseteq Seq(InternetDatagram)
  <2>1. \A ip : Destined(sent, ip) \subseteq InternetDatagram
    BY DEF Destined
  <2>2. QED
    BY <2>1, SeqMonotonic
<1>3. ASSUME NEW h \in Host
      PROVE  /\ interface[h].ethernet_address_ = EthernetOf[h]
             /\ interface[h].ip_address_ = IpOf[h]
             /\ interface[h].maybe_send_queue \in Seq(EthernetFrame)
             /\ \A ip \in Known(interface[h]) :
                  interface[h].ip_addr_to_ethernet_addr[ip] \in
                    [address : EthernetAddress, age : 0..MappingLifetime - 1]
             /\ \A ip \in Asked(interface[h]) :
                  interface[h].ip_addr_to_ethernet_datagram_queue[ip] \in
                    [datagrams : Seq(InternetDatagram), age : Nat]
             /\ Known(interface[h]) \cup Asked(interface[h]) \subseteq IPAddress
  <2> DEFINE n == interface[h]
  <2>1. Sound(n, h, sent)
    BY DEF IInv
  <2> HIDE DEF n
  <2>2. n.ethernet_address_ = EthernetOf[h] /\ n.ip_address_ = IpOf[h]
    BY <2>1, OwnAddresses
  <2>3. n.maybe_send_queue \in Seq(EthernetFrame)
    BY <2>1, <1>1 DEF Sound
  <2>4. \A ip \in Known(n) : n.ip_addr_to_ethernet_addr[ip] \in
                               [address : EthernetAddress, age : 0..MappingLifetime - 1]
    BY <2>1 DEF Sound, SoundMappings, Known
  <2>5. ASSUME NEW ip \in Asked(n)
        PROVE  n.ip_addr_to_ethernet_datagram_queue[ip] \in
                 [datagrams : Seq(InternetDatagram), age : Nat]
    <3>1. n.ip_addr_to_ethernet_datagram_queue[ip] \in
            [datagrams : Seq(Destined(sent, ip)), age : Nat]
      BY <2>1, <2>5 DEF Sound, SoundQueues, Asked
    <3>2. QED
      BY <3>1, <1>2
  <2>6. Known(n) \cup Asked(n) \subseteq IPAddress
    BY <2>1 DEF Sound, SoundQueues, SoundMappings, Known, Asked
  <2>7. QED
    BY <2>2, <2>3, <2>4, <2>5, <2>6 DEF n
<1>4. inbox \in [Host -> Seq(EthernetFrame)]
  BY <1>1 DEF IInv
<1>5. QED
  BY <1>3, <1>4, Zenon DEF TypeOK

LEMMA Reaches == IInv => ReachesNextHop
<1> SUFFICES ASSUME IInv PROVE ReachesNextHop
  OBVIOUS
<1>1. ASSUME NEW h \in Host, NEW ip \in Known(interface[h])
      PROVE  \E g \in Host :
               IsHost(g, ip, interface[h].ip_addr_to_ethernet_addr[ip].address)
  BY <1>1 DEF IInv, Sound, SoundMappings, Known, Genuine
<1>2. ASSUME NEW frames \in Seq(Truthful(sent)), NEW frame \in FramesOf(frames),
             frame.type = "IPv4"
      PROVE  \E g \in Host : IsHost(g, sent[frame.payload].next_hop, frame.dst)
  <2>1. frame \in Truthful(sent)
    BY ElementOfSeq DEF FramesOf
  <2>2. QED
    BY <1>2, <2>1 DEF Truthful, Genuine
<1>3. ASSUME NEW h \in Host
      PROVE  /\ interface[h].maybe_send_queue \in Seq(Truthful(sent))
             /\ inbox[h] \in Seq(Truthful(sent))
  BY DEF IInv, Sound
<1>4. \A arrival \in received : IpOf[arrival[1]] = sent[arrival[2]].next_hop
  BY DEF IInv
<1>5. QED
  BY <1>1, <1>2, <1>3, <1>4 DEF ReachesNextHop

LEMMA NoneWaits == IInv => NoneWaitsForKnown
BY DEF IInv, Sound, NoneWaitsForKnown

-----------------------------------------------------------------------------
(* An interface holds frames, addresses and datagrams, each where it       *)
(* belongs, and no address older than MappingLifetime, whatever frames     *)
(* arrive in whatever order (network_interface.cc:46-171).                 *)
THEOREM TypeCorrect == Spec => []TypeOK
<1>1. Spec => []IInv
  BY InitIInv, NextIInv, PTL DEF Spec
<1>2. QED
  BY <1>1, Typed, PTL

(* What any number of hosts learn of each other is true, and datagrams     *)
(* reach the host of their next hop only: ARP messages may be lost,        *)
(* overheard or answered late (network_interface.cc:52-61, 111-136, 155).  *)
THEOREM EveryNextHopReached == Spec => []ReachesNextHop
<1>1. Spec => []IInv
  BY InitIInv, NextIInv, PTL DEF Spec
<1>2. QED
  BY <1>1, Reaches, PTL

(* An address is never known and asked for at once: what waits for it is   *)
(* sent by the very message that teaches it                                *)
(* (network_interface.cc:55, 62-78, 135).                                  *)
THEOREM NothingStaysBehind == Spec => []NoneWaitsForKnown
<1>1. Spec => []IInv
  BY InitIInv, NextIInv, PTL DEF Spec
<1>2. QED
  BY <1>1, NoneWaits, PTL

-----------------------------------------------------------------------------
(* What the operations do to the frames, the queues and the mappings. *)

\* A request for ip at the end of the frames.
AskedFor(n, ip) ==
  Append(n.maybe_send_queue,
         MakeFrame(n, Broadcast, "ARP", MakeArp(n, "REQUEST", NoAddress, ip)))

(* send_datagram frames the datagram, asks for the address and lets it     *)
(* wait, asks again, or does nothing (network_interface.cc:46-80).         *)
SendsNow(n, m, dgram, ip) ==
  /\ ip \in Known(n)
  /\ m.maybe_send_queue
       = Append(n.maybe_send_queue,
                MakeFrame(n, n.ip_addr_to_ethernet_addr[ip].address, "IPv4", dgram))
  /\ m.ip_addr_to_ethernet_datagram_queue = n.ip_addr_to_ethernet_datagram_queue
  /\ m.ip_addr_to_ethernet_addr = n.ip_addr_to_ethernet_addr

AsksAgain(n, m, ip) ==
  /\ ip \notin Known(n) /\ ip \in Asked(n)
  /\ n.ip_addr_to_ethernet_datagram_queue[ip].age >= RequestInterval
  /\ m.maybe_send_queue = AskedFor(n, ip)
  /\ m.ip_addr_to_ethernet_datagram_queue = n.ip_addr_to_ethernet_datagram_queue
  /\ m.ip_addr_to_ethernet_addr = n.ip_addr_to_ethernet_addr

AsksFirst(n, m, dgram, ip) ==
  /\ ip \notin Known(n) /\ ip \notin Asked(n)
  /\ m.maybe_send_queue = AskedFor(n, ip)
  /\ m.ip_addr_to_ethernet_datagram_queue
       = WithEntry(n.ip_addr_to_ethernet_datagram_queue, ip,
                   [datagrams |-> <<dgram>>, age |-> 0])
  /\ m.ip_addr_to_ethernet_addr = n.ip_addr_to_ethernet_addr

LEMMA SendEffect ==
  ASSUME NEW n, NEW h, NEW s, Sound(n, h, s), NEW dgram, NEW ip,
         NEW m, m = SendDatagram(n, dgram, ip)
  PROVE  \/ SendsNow(n, m, dgram, ip)
         \/ m = n
         \/ AsksAgain(n, m, ip)
         \/ AsksFirst(n, m, dgram, ip)
<1>1. PICK frames, queues, mappings :
        n = InterfaceOf(h, frames, queues, mappings)
  BY DEF Sound
<1>2. /\ n.maybe_send_queue = frames
      /\ n.ip_addr_to_ethernet_datagram_queue = queues
      /\ n.ip_addr_to_ethernet_addr = mappings
  BY <1>1, Fields
<1>3. CASE ip \in Known(n)
  <2> DEFINE frame == MakeFrame(n, n.ip_addr_to_ethernet_addr[ip].address, "IPv4", dgram)
  <2>1. m = Queued(n, frame)
    BY <1>3 DEF SendDatagram
  <2>2. m = InterfaceOf(h, Append(frames, frame), queues, mappings)
    <3> HIDE DEF frame
    <3>1. QED
      BY <1>1, <2>1, QueuedParts
  <2>3. /\ m.maybe_send_queue = Append(frames, frame)
        /\ m.ip_addr_to_ethernet_datagram_queue = queues
        /\ m.ip_addr_to_ethernet_addr = mappings
    <3> HIDE DEF frame
    <3>1. QED
      BY <2>2, QueuedFields
  <2>4. SendsNow(n, m, dgram, ip)
    BY <1>2, <1>3, <2>3, Zenon DEF SendsNow
  <2>5. QED
    BY <2>4
<1> DEFINE request(x) == MakeFrame(x, Broadcast, "ARP",
                                   MakeArp(x, "REQUEST", NoAddress, ip))
<1>4. CASE ip \notin Known(n) /\ ip \in Asked(n)
  <2>1. CASE n.ip_addr_to_ethernet_datagram_queue[ip].age >= RequestInterval
    <3>1. m = Queued(n, request(n))
      BY <1>4, <2>1 DEF SendDatagram, RequestQueued
    <3>2. m = InterfaceOf(h, Append(frames, request(n)), queues, mappings)
      <4> HIDE DEF request
      <4>1. QED
        BY <1>1, <3>1, QueuedParts
    <3>3. /\ m.maybe_send_queue = Append(frames, request(n))
          /\ m.ip_addr_to_ethernet_datagram_queue = queues
          /\ m.ip_addr_to_ethernet_addr = mappings
      <4> HIDE DEF request
      <4>1. QED
        BY <3>2, QueuedFields
    <3>4. AsksAgain(n, m, ip)
      BY <1>2, <1>4, <2>1, <3>3, Zenon DEF AsksAgain, AskedFor
    <3>5. QED
      BY <3>4
  <2>2. CASE ~(n.ip_addr_to_ethernet_datagram_queue[ip].age >= RequestInterval)
    BY <1>4, <2>2 DEF SendDatagram
  <2>3. QED
    BY <2>1, <2>2
<1>5. CASE ip \notin Known(n) /\ ip \notin Asked(n)
  <2> DEFINE q == WithEntry(queues, ip, [datagrams |-> <<dgram>>, age |-> 0])
             l == InterfaceOf(h, frames, q, mappings)
  <2>1. m = RequestQueued([n EXCEPT !.ip_addr_to_ethernet_datagram_queue = q], ip)
    BY <1>2, <1>5 DEF SendDatagram
  <2>2. [n EXCEPT !.ip_addr_to_ethernet_datagram_queue = q] = l
    <3> HIDE DEF q
    <3>1. QED
      BY <1>1, QueuesReplaced
  <2>3. m = Queued(l, request(l))
    BY <2>1, <2>2 DEF RequestQueued
  <2>4. request(l) = request(n)
    BY <1>1 DEF MakeFrame, MakeArp, InterfaceOf
  <2>5. m = InterfaceOf(h, Append(frames, request(n)), q, mappings)
    <3> HIDE DEF request, q
    <3>1. QED
      BY <2>3, <2>4, QueuedParts
  <2>6. /\ m.maybe_send_queue = Append(frames, request(n))
        /\ m.ip_addr_to_ethernet_datagram_queue = q
        /\ m.ip_addr_to_ethernet_addr = mappings
    <3> HIDE DEF request, q
    <3>1. QED
      BY <2>5, QueuedFields
  <2>7. AsksFirst(n, m, dgram, ip)
    BY <1>2, <1>5, <2>6, Zenon DEF AsksFirst, AskedFor
  <2>8. QED
    BY <2>7
<1>6. QED
  BY <1>3, <1>4, <1>5

\* The reply, if the message asks for this host.
Replies(n, arp) ==
  IF arp.opcode = "REQUEST" /\ arp.target_ip_address = n.ip_address_
  THEN <<MakeFrame(n, arp.sender_ethernet_address, "ARP",
                   MakeArp(n, "REPLY", arp.sender_ethernet_address,
                           arp.sender_ip_address))>>
  ELSE << >>

(* recv_frame learns the sender of an ARP message, sends what waited for   *)
(* it and perhaps a reply (network_interface.cc:88-136).                   *)
Learns(n, m, arp) ==
  /\ m.maybe_send_queue
       = (n.maybe_send_queue \o
            Released(n, arp.sender_ip_address, arp.sender_ethernet_address))
           \o Replies(n, arp)
  /\ m.ip_addr_to_ethernet_datagram_queue
       = Restrict(n.ip_addr_to_ethernet_datagram_queue,
                  Asked(n) \ {arp.sender_ip_address})
  /\ m.ip_addr_to_ethernet_addr
       = WithEntry(n.ip_addr_to_ethernet_addr, arp.sender_ip_address,
                   [address |-> arp.sender_ethernet_address, age |-> 0])

LEMMA ReceiveEffect ==
  ASSUME NEW h \in Host, NEW n, NEW s, Sound(n, h, s), NEW arp \in ARPMessage,
         Genuine(arp.sender_ip_address, arp.sender_ethernet_address)
  PROVE  Learns(n, ReceiveArp(n, arp), arp)
<1> DEFINE ip       == arp.sender_ip_address
           address  == arp.sender_ethernet_address
           released == Released(n, ip, address)
           learned  == UpdateMaps(n, ip, address)
           reply    == MakeFrame(n, address, "ARP", MakeArp(n, "REPLY", address, ip))
           q        == Restrict(n.ip_addr_to_ethernet_datagram_queue, Asked(n) \ {ip})
           k        == WithEntry(n.ip_addr_to_ethernet_addr, ip,
                                 [address |-> address, age |-> 0])
           before   == n.maybe_send_queue \o released
<1>1. PICK frames, queues, mappings :
        n = InterfaceOf(h, frames, queues, mappings)
  BY DEF Sound
<1>2. /\ n.maybe_send_queue = frames
      /\ n.ip_addr_to_ethernet_datagram_queue = queues
      /\ n.ip_addr_to_ethernet_addr = mappings
  BY <1>1, Fields
<1>3. learned = InterfaceOf(h, before, q, k)
  BY <1>1, <1>2, UpdateMapsParts DEF Asked
<1>4. before \in Seq(Truthful(s))
  <2>1. ip \in IPAddress /\ address \in EthernetAddress
    BY DEF ARPMessage
  <2>2. released \in Seq(Truthful(s))
    BY <2>1, ReleasedTruthful
  <2> HIDE DEF released
  <2>3. QED
    BY <2>2, ConcatProperties DEF Sound
<1>5. CASE arp.opcode = "REQUEST" /\ arp.target_ip_address = n.ip_address_
  <2>1. ReceiveArp(n, arp) = Queued(learned, reply)
    BY <1>5 DEF ReceiveArp
  <2> HIDE DEF q, k, reply, before
  <2>2. ReceiveArp(n, arp) = InterfaceOf(h, Append(before, reply), q, k)
    BY <1>3, <2>1, QueuedParts
  <2>3. Append(before, reply) = before \o <<reply>>
    BY <1>4
  <2>4. Replies(n, arp) = <<reply>>
    BY <1>5 DEF Replies, reply
  <2>5. /\ ReceiveArp(n, arp).maybe_send_queue = Append(before, reply)
        /\ ReceiveArp(n, arp).ip_addr_to_ethernet_datagram_queue = q
        /\ ReceiveArp(n, arp).ip_addr_to_ethernet_addr = k
    BY <2>2, QueuedFields
  <2>6. QED
    BY <2>3, <2>4, <2>5, Zenon DEF Learns, before, q, k
<1>6. CASE ~(arp.opcode = "REQUEST" /\ arp.target_ip_address = n.ip_address_)
  <2>1. ReceiveArp(n, arp) = learned
    BY <1>6 DEF ReceiveArp
  <2>2. Replies(n, arp) = << >>
    BY <1>6 DEF Replies
  <2> HIDE DEF q, k, before, learned
  <2>3. before \o << >> = before
    BY <1>4
  <2>4. /\ ReceiveArp(n, arp).maybe_send_queue = before \o << >>
        /\ ReceiveArp(n, arp).ip_addr_to_ethernet_datagram_queue = q
        /\ ReceiveArp(n, arp).ip_addr_to_ethernet_addr = k
    BY <1>3, <2>1, <2>3, Fields
  <2>5. QED
    BY <2>2, <2>4, Zenon DEF Learns, before, q, k
<1>7. QED
  BY <1>5, <1>6

(* A tick makes all that is known and asked for older, and forgets what is *)
(* known for MappingLifetime (network_interface.cc:143-161).               *)
Ages(n, m, ms) ==
  /\ Asked(m) = Asked(n)
  /\ \A ip \in Asked(n) :
       m.ip_addr_to_ethernet_datagram_queue[ip].age
         = n.ip_addr_to_ethernet_datagram_queue[ip].age + ms
  /\ Known(m) = {ip \in Known(n) :
                   n.ip_addr_to_ethernet_addr[ip].age + ms < MappingLifetime}
  /\ \A ip \in Known(m) :
       m.ip_addr_to_ethernet_addr[ip].age = n.ip_addr_to_ethernet_addr[ip].age + ms

LEMMA TickEffect ==
  ASSUME NEW h \in Host, NEW n, NEW s, Sound(n, h, s), NEW ms \in Nat
  PROVE  Ages(n, InterfaceTick(n, ms), ms)
<1>1. PICK frames, queues, mappings :
        n = InterfaceOf(h, frames, queues, mappings)
  BY DEF Sound
<1>2. SoundQueues(queues, s) /\ SoundMappings(mappings)
  BY <1>1, SoundParts
<1>3. /\ n.ip_addr_to_ethernet_datagram_queue = queues
      /\ n.ip_addr_to_ethernet_addr = mappings
  BY <1>1, Fields
<1> DEFINE q == Aged(queues, ms)
           k == Remembered(mappings, ms)
           m == InterfaceTick(n, ms)
<1>4. DOMAIN q = DOMAIN queues /\ \A ip \in DOMAIN queues : q[ip].age = queues[ip].age + ms
  BY <1>2 DEF Aged, SoundQueues
<1>5. /\ DOMAIN k = {ip \in DOMAIN mappings : mappings[ip].age + ms < MappingLifetime}
      /\ \A ip \in DOMAIN k : k[ip].age = mappings[ip].age + ms
  <2>1. k = [ip \in {x \in DOMAIN mappings : mappings[x].age + ms < MappingLifetime} |->
               [mappings[ip] EXCEPT !.age = @ + ms]]
    BY <1>2, Younger DEF SoundMappings
  <2> HIDE DEF k
  <2>2. QED
    BY <1>2, <2>1 DEF SoundMappings
<1>6. m = InterfaceOf(h, frames, q, k)
  BY <1>1, TickParts
<1> HIDE DEF m, q, k
<1>7. m.ip_addr_to_ethernet_datagram_queue = q /\ m.ip_addr_to_ethernet_addr = k
  BY <1>6, FieldsOf
<1>8. Ages(n, m, ms)
  BY <1>3, <1>4, <1>5, <1>7 DEF Ages, Asked, Known
<1>9. QED
  BY <1>8 DEF m

-----------------------------------------------------------------------------
(* When an address is asked for. *)

\* Of the time since ip was first asked for: an interval has passed, or ip is still
\* asked for, or known, since then or later.
Recent(n, ip, passed) ==
  \/ passed >= RequestInterval
  \/ /\ ip \in Asked(n)
     /\ n.ip_addr_to_ethernet_datagram_queue[ip].age <= passed
  \/ ip \in Known(n) /\ n.ip_addr_to_ethernet_addr[ip].age <= passed

\* What the times at which ip was asked for say of the interface.
Timely(n, ip, times, now) ==
  /\ times \in Seq(Nat)
  /\ times = << >> => ip \notin Asked(n)
  /\ Len(times) >= 1 => times[1] <= now
  /\ Len(times) = 1 => Recent(n, ip, now - times[1])
  /\ Len(times) > 1 => times[2] - times[1] >= RequestInterval

\* The inductive invariant, with IInv.
TInv ==
  /\ clock \in [Host -> Nat]
  /\ requests \in [Host -> [IPAddress -> Seq(Nat)]]
  /\ \A h \in Host, ip \in IPAddress :
       Timely(interface[h], ip, requests[h][ip], clock[h])

LEMMA RequestLast ==
  ASSUME NEW n, NEW h, NEW s, Sound(n, h, s), NEW m, NEW ip,
         m.maybe_send_queue = AskedFor(n, ip)
  PROVE  Requested(n, m)
<1> DEFINE q == n.maybe_send_queue
           f == MakeFrame(n, Broadcast, "ARP", MakeArp(n, "REQUEST", NoAddress, ip))
<1>1. m.maybe_send_queue = Append(q, f)
  BY DEF AskedFor
<1>2. IsRequest(f)
  BY DEF IsRequest, MakeFrame, MakeArp
<1>3. q \in Seq(Truthful(s))
  BY DEF Sound
<1> HIDE DEF q, f
<1>4. Len(Append(q, f)) = Len(q) + 1 /\ Append(q, f)[Len(q) + 1] = f /\ Len(q) \in Nat
  BY <1>3
<1>5. QED
  BY <1>1, <1>2, <1>4 DEF Requested, q

LEMMA NoRequestLast ==
  ASSUME NEW n, NEW h, NEW s, Sound(n, h, s), NEW m, NEW dgram, NEW ip,
         m = n \/ SendsNow(n, m, dgram, ip)
  PROVE  ~Requested(n, m)
<1> DEFINE q == n.maybe_send_queue
           f == MakeFrame(n, n.ip_addr_to_ethernet_addr[ip].address, "IPv4", dgram)
<1>1. q \in Seq(Truthful(s))
  BY DEF Sound
<1>2. CASE m = n
  BY <1>1, <1>2 DEF Requested
<1>3. CASE SendsNow(n, m, dgram, ip)
  <2>1. m.maybe_send_queue = Append(q, f)
    BY <1>3 DEF SendsNow
  <2>2. ~IsRequest(f)
    BY DEF IsRequest, MakeFrame
  <2> HIDE DEF q, f
  <2>3. /\ Len(Append(q, f)) = Len(q) + 1 /\ Append(q, f)[Len(q) + 1] = f
    BY <1>1
  <2>4. QED
    BY <2>1, <2>2, <2>3 DEF Requested
<1>4. QED
  BY <1>2, <1>3

LEMMA TimelySend ==
  ASSUME NEW n, NEW h, NEW s, Sound(n, h, s), NEW dgram, NEW ip \in IPAddress,
         NEW m, m = SendDatagram(n, dgram, ip),
         NEW times, NEW now \in Nat, Timely(n, ip, times, now)
  PROVE  Timely(m, ip, IF Requested(n, m) THEN Append(times, now) ELSE times, now)
<1>1. times \in Seq(Nat)
  BY DEF Timely
<1> DEFINE longer == Append(times, now)
<1>2. /\ longer \in Seq(Nat) /\ Len(longer) = Len(times) + 1
      /\ longer[Len(times) + 1] = now
      /\ Len(times) >= 1 => longer[1] = times[1]
      /\ Len(times) >= 2 => longer[2] = times[2]
      /\ Len(times) \in Nat
      /\ Len(times) >= 1 => times[1] \in Nat
  BY <1>1
<1> HIDE DEF longer
<1>3. longer # << >>
  <2>1. Len(<< >>) = 0 /\ Len(longer) # 0
    BY <1>2
  <2>2. QED
    BY <2>1, Zenon
<1>4. ASSUME Len(times) = 0 => Recent(m, ip, now - now),
             Len(times) = 1 => now - times[1] >= RequestInterval
      PROVE  Timely(m, ip, longer, now)
  <2>1. CASE Len(times) = 0
    BY <1>2, <1>3, <1>4, <2>1 DEF Timely
  <2>2. CASE Len(times) = 1
    <3>1. longer[1] = times[1] /\ longer[2] = now /\ Len(longer) = 2
      BY <1>2, <2>2
    <3>2. times[1] <= now
      BY <2>2 DEF Timely
    <3>3. QED
      BY <1>2, <1>3, <1>4, <2>2, <3>1, <3>2 DEF Timely
  <2>3. CASE Len(times) > 1
    <3>1. longer[1] = times[1] /\ longer[2] = times[2] /\ Len(longer) > 1
      BY <1>2, <2>3
    <3>2. times[1] <= now /\ times[2] - times[1] >= RequestInterval
      BY <2>3, <1>2 DEF Timely
    <3>3. QED
      BY <1>2, <1>3, <2>3, <3>1, <3>2 DEF Timely
  <2>4. Len(times) = 0 \/ Len(times) = 1 \/ Len(times) > 1
    <3>1. Len(times) \in Nat
      BY <1>1, Zenon, LenProperties
    <3>2. \A l \in Nat : l = 0 \/ l = 1 \/ l > 1
      OBVIOUS
    <3>3. QED
      BY <3>1, <3>2, Zenon
  <2>5. QED
    BY <2>1, <2>2, <2>3, <2>4, Zenon
<1>5. \A ip2 \in Asked(n) : n.ip_addr_to_ethernet_datagram_queue[ip2].age \in Nat
  BY DEF Sound, SoundQueues, Asked
<1>6. CASE m = n
  BY <1>6, NoRequestLast
<1>7. CASE SendsNow(n, m, dgram, ip)
  <2>1. ~Requested(n, m)
    BY <1>7, NoRequestLast
  <2>2. QED
    BY <1>7, <2>1 DEF SendsNow, Timely, Recent, Asked, Known
<1>8. CASE AsksAgain(n, m, ip)
  <2>1. Requested(n, m)
    BY <1>8, RequestLast DEF AsksAgain
  <2>2. Len(times) # 0
    BY <1>1, <1>8 DEF AsksAgain, Timely
  <2>3. Len(times) = 1 => now - times[1] >= RequestInterval
    BY <1>1, <1>5, <1>8, TimesAssumption DEF AsksAgain, Timely, Recent
  <2>4. Timely(m, ip, longer, now)
    BY <1>2, <1>4, <2>2, <2>3
  <2>5. QED
    BY <2>1, <2>4 DEF longer
<1>9. CASE AsksFirst(n, m, dgram, ip)
  <2>1. Requested(n, m)
    BY <1>9, RequestLast DEF AsksFirst
  <2>2. /\ ip \in Asked(m)
        /\ m.ip_addr_to_ethernet_datagram_queue[ip].age = 0
    BY <1>9 DEF AsksFirst, WithEntry, Asked
  <2>3. Len(times) = 1 => now - times[1] >= RequestInterval
    BY <1>1, <1>9 DEF AsksFirst, Timely, Recent
  <2>4. Timely(m, ip, longer, now)
    <3>1. Recent(m, ip, now - now)
      BY <2>2 DEF Recent
    <3>2. QED
      BY <1>4, <2>3, <3>1
  <2>5. QED
    BY <2>1, <2>4 DEF longer
<1>10. QED
  BY <1>6, <1>7, <1>8, <1>9, SendEffect

(* Other addresses are not touched by a datagram sent. *)
LEMMA TimelyOther ==
  ASSUME NEW n, NEW h, NEW s, Sound(n, h, s), NEW dgram, NEW ip \in IPAddress,
         NEW m, m = SendDatagram(n, dgram, ip), NEW other, other # ip,
         NEW times, NEW now, Timely(n, other, times, now)
  PROVE  Timely(m, other, times, now)
<1>1. /\ other \in Asked(m) <=> other \in Asked(n)
      /\ other \in Asked(n) => m.ip_addr_to_ethernet_datagram_queue[other]
                                 = n.ip_addr_to_ethernet_datagram_queue[other]
      /\ m.ip_addr_to_ethernet_addr = n.ip_addr_to_ethernet_addr
  <2>1. CASE AsksFirst(n, m, dgram, ip)
    BY <2>1 DEF AsksFirst, WithEntry, Asked
  <2>2. CASE SendsNow(n, m, dgram, ip) \/ m = n \/ AsksAgain(n, m, ip)
    BY <2>2 DEF SendsNow, AsksAgain, Asked
  <2>3. QED
    BY <2>1, <2>2, SendEffect
<1>2. QED
  BY <1>1 DEF Timely, Recent, Known

LEMMA TimelyReceive ==
  ASSUME NEW n, NEW m, NEW arp, Learns(n, m, arp), NEW ip, NEW times, NEW now \in Nat,
         Timely(n, ip, times, now)
  PROVE  Timely(m, ip, times, now)
<1>1. Asked(m) = Asked(n) \ {arp.sender_ip_address}
  BY DEF Learns, Asked, Restrict
<1>2. CASE ip = arp.sender_ip_address
  <2>1. ip \in Known(m) /\ m.ip_addr_to_ethernet_addr[ip].age = 0
    BY <1>2 DEF Learns, WithEntry, Known
  <2>2. Len(times) = 1 => Recent(m, ip, now - times[1])
    BY <2>1 DEF Recent, Timely
  <2>3. QED
    BY <1>1, <1>2, <2>2 DEF Timely
<1>3. CASE ip # arp.sender_ip_address
  <2>1. /\ ip \in Asked(m) <=> ip \in Asked(n)
        /\ ip \in Asked(n) => m.ip_addr_to_ethernet_datagram_queue[ip]
                                = n.ip_addr_to_ethernet_datagram_queue[ip]
        /\ ip \in Known(m) <=> ip \in Known(n)
        /\ ip \in Known(n) => m.ip_addr_to_ethernet_addr[ip]
                                = n.ip_addr_to_ethernet_addr[ip]
    BY <1>1, <1>3 DEF Learns, WithEntry, Asked, Known, Restrict
  <2>2. QED
    BY <2>1 DEF Timely, Recent
<1>4. QED
  BY <1>2, <1>3

LEMMA TimelyTick ==
  ASSUME NEW n, NEW h, NEW s, Sound(n, h, s), NEW m, Ages(n, m, 1),
         NEW ip, NEW times, NEW now \in Nat, Timely(n, ip, times, now)
  PROVE  Timely(m, ip, times, now + 1)
<1>1. \A i \in Asked(n) : n.ip_addr_to_ethernet_datagram_queue[i].age \in Nat
  BY DEF Sound, SoundQueues, Asked
<1>2. \A i \in Known(n) : n.ip_addr_to_ethernet_addr[i].age \in Nat
  BY TimesAssumption DEF Sound, SoundMappings, Known
<1>3. times \in Seq(Nat)
  BY DEF Timely
<1>4. ASSUME Len(times) = 1
      PROVE  Recent(m, ip, (now + 1) - times[1])
  <2>1. times[1] \in Nat /\ times[1] <= now /\ Recent(n, ip, now - times[1])
    BY <1>3, <1>4 DEF Timely
  <2>2. QED
    BY <1>1, <1>2, <2>1, TimesAssumption DEF Recent, Ages
<1>5. Len(times) >= 1 => times[1] <= now + 1
  BY <1>3 DEF Timely
<1>6. times = << >> => ip \notin Asked(m)
  BY DEF Timely, Ages
<1>7. QED
  BY <1>3, <1>4, <1>5, <1>6 DEF Timely

LEMMA InitTInv == Init => TInv
<1> SUFFICES ASSUME Init PROVE TInv
  OBVIOUS
<1>1. clock = [h \in Host |-> 0] /\ requests = [h \in Host |-> [ip \in IPAddress |-> << >>]]
  BY DEF Init
<1>2. ASSUME NEW h \in Host, NEW ip \in IPAddress
      PROVE  Timely(interface[h], ip, << >>, 0)
  <2>1. Asked(interface[h]) = {}
    BY DEF Init, NewInterface, Asked
  <2>2. << >> \in Seq(Nat) /\ Len(<< >>) = 0
    OBVIOUS
  <2>3. QED
    BY <2>1, <2>2 DEF Timely
<1>3. requests \in [Host -> [IPAddress -> Seq(Nat)]] /\ clock \in [Host -> Nat]
  BY <1>1
<1>4. QED
  BY <1>1, <1>2, <1>3 DEF TInv

LEMMA SendsDatagramTInv ==
  ASSUME IInv, TInv, NEW h \in Host, NEW dgram \in InternetDatagram,
         NEW next_hop \in IPAddress, SendsDatagram(h, dgram, next_hop)
  PROVE  TInv'
<1> DEFINE n     == interface[h]
           m     == SendDatagram(n, dgram, next_hop)
           times == requests[h][next_hop]
           longer == IF Requested(n, m) THEN Append(times, clock[h]) ELSE times
<1>1. Sound(n, h, sent)
  BY DEF IInv
<1>2. clock' = clock /\ interface' = [interface EXCEPT ![h] = m]
  BY DEF SendsDatagram
<1>3. interface'[h] = m /\ \A g \in Host \ {h} : interface'[g] = interface[g]
  BY <1>2 DEF IInv
<1>4. requests' = [requests EXCEPT ![h] = [requests[h] EXCEPT ![next_hop] = longer]]
  <2>1. requests' = IF Requested(n, m)
                    THEN [requests EXCEPT ![h][next_hop] = Append(@, clock[h])]
                    ELSE requests
    BY <1>3 DEF SendsDatagram
  <2> HIDE DEF n, m
  <2>2. CASE Requested(n, m)
    BY <2>1, <2>2
  <2>3. CASE ~Requested(n, m)
    BY <2>1, <2>3 DEF TInv
  <2>4. QED
    BY <2>2, <2>3
<1>5. Timely(m, next_hop, longer, clock[h])
  <2> DEFINE now == clock[h]
  <2>1. Timely(n, next_hop, times, now) /\ now \in Nat
    BY DEF TInv
  <2> HIDE DEF n, times, now
  <2>2. QED
    BY <1>1, <2>1, TimelySend DEF now
<1>6. \A ip \in IPAddress \ {next_hop} : Timely(m, ip, requests[h][ip], clock[h])
  <2>1. \A ip \in IPAddress : Timely(n, ip, requests[h][ip], clock[h])
    BY DEF TInv
  <2> HIDE DEF n
  <2>2. QED
    BY <1>1, <2>1, TimelyOther
<1> HIDE DEF m, longer
<1>7. longer \in Seq(Nat)
  BY <1>5 DEF Timely
<1>8. /\ requests' \in [Host -> [IPAddress -> Seq(Nat)]]
      /\ requests'[h][next_hop] = longer
      /\ \A ip \in IPAddress \ {next_hop} : requests'[h][ip] = requests[h][ip]
      /\ \A g \in Host \ {h} : requests'[g] = requests[g]
  BY <1>4, <1>7 DEF TInv
<1>9. ASSUME NEW g \in Host, NEW ip \in IPAddress
      PROVE  Timely(interface'[g], ip, requests'[g][ip], clock'[g])
  <2>1. CASE g # h
    BY <1>2, <1>3, <1>8, <2>1 DEF TInv
  <2>2. CASE g = h /\ ip = next_hop
    BY <1>2, <1>3, <1>5, <1>8, <2>2
  <2>3. CASE g = h /\ ip # next_hop
    BY <1>2, <1>3, <1>6, <1>8, <2>3
  <2>4. QED
    BY <2>1, <2>2, <2>3
<1>10. QED
  BY <1>2, <1>8, <1>9 DEF TInv

LEMMA TransmitsTInv ==
  ASSUME IInv, TInv, NEW h \in Host, NEW reached \in SUBSET (Host \ {h}), Transmits(h, reached)
  PROVE  TInv'
<1> DEFINE n == interface[h]
           m == AfterSendFrame(n)
<1>1. /\ clock' = clock /\ requests' = requests
      /\ interface' = [interface EXCEPT ![h] = m]
  BY DEF Transmits
<1>2. Asked(m) = Asked(n) /\ Known(m) = Known(n)
  BY DEF AfterSendFrame, Asked, Known
<1>3. /\ m.ip_addr_to_ethernet_datagram_queue = n.ip_addr_to_ethernet_datagram_queue
      /\ m.ip_addr_to_ethernet_addr = n.ip_addr_to_ethernet_addr
  BY DEF AfterSendFrame
<1> HIDE DEF m
<1>4. ASSUME NEW g \in Host, NEW ip \in IPAddress
      PROVE  Timely(interface'[g], ip, requests[g][ip], clock[g])
  <2>1. CASE g # h
    BY <1>1, <2>1 DEF TInv, IInv
  <2>2. CASE g = h
    <3>1. interface'[h] = m /\ Timely(n, ip, requests[h][ip], clock[h])
      BY <1>1 DEF TInv, IInv
    <3> HIDE DEF n
    <3>2. Timely(m, ip, requests[h][ip], clock[h])
      BY <1>2, <1>3, <3>1 DEF Timely, Recent
    <3>3. QED
      BY <2>2, <3>1, <3>2
  <2>3. QED
    BY <2>1, <2>2
<1>5. QED
  BY <1>1, <1>4 DEF TInv

\* A frame received changes nothing, or is an ARP message from which the host learns.
LEMMA RecvEffect ==
  ASSUME NEW h \in Host, NEW n, NEW s, Sound(n, h, s), NEW frame \in Truthful(s),
         RecvFrame(n, frame).interface # n
  PROVE  /\ frame.type = "ARP"
         /\ Learns(n, RecvFrame(n, frame).interface, frame.payload)
<1>1. CASE frame.dst \notin {Broadcast, n.ethernet_address_} \/ frame.type = "IPv4"
  BY <1>1 DEF RecvFrame
<1>2. CASE /\ frame.dst \in {Broadcast, n.ethernet_address_}
           /\ frame.type # "IPv4"
  <2>1. RecvFrame(n, frame).interface = ReceiveArp(n, frame.payload)
    BY <1>2 DEF RecvFrame
  <2>2. frame.type = "ARP" /\ frame.payload \in ARPMessage
    BY <1>2 DEF Truthful, EthernetFrame
  <2>3. Genuine(frame.payload.sender_ip_address, frame.payload.sender_ethernet_address)
    BY <2>2 DEF Truthful
  <2>4. Learns(n, ReceiveArp(n, frame.payload), frame.payload)
    BY <2>2, <2>3, ReceiveEffect
  <2>5. QED
    BY <2>1, <2>2, <2>4
<1>3. QED
  BY <1>1, <1>2

LEMMA ReceivesTInv ==
  ASSUME IInv, TInv, NEW h \in Host, Receives(h)
  PROVE  TInv'
<1> DEFINE frame == Head(inbox[h])
           n     == interface[h]
           m     == RecvFrame(n, frame).interface
<1>1. /\ inbox[h] # << >> /\ clock' = clock /\ requests' = requests
      /\ interface' = [interface EXCEPT ![h] = m]
  BY DEF Receives
<1>2. Sound(n, h, sent) /\ inbox[h] \in Seq(Truthful(sent))
  BY DEF IInv
<1>3. frame \in Truthful(sent)
  BY <1>1, <1>2, HeadTailProperties
<1>4. m # n => Learns(n, m, frame.payload)
  <2> HIDE DEF n, frame
  <2>1. QED
    BY <1>2, <1>3, RecvEffect
<1> HIDE DEF m, frame
<1>5. ASSUME NEW g \in Host, NEW ip \in IPAddress
      PROVE  Timely(interface'[g], ip, requests[g][ip], clock[g])
  <2>1. CASE g # h
    BY <1>1, <2>1 DEF TInv, IInv
  <2>2. CASE g = h
    <3>1. /\ interface'[h] = m /\ clock[h] \in Nat
          /\ Timely(n, ip, requests[h][ip], clock[h])
      BY <1>1 DEF TInv, IInv
    <3> HIDE DEF n
    <3>2. Timely(m, ip, requests[h][ip], clock[h])
      <4> DEFINE times == requests[h][ip]
                 now   == clock[h]
                 arp   == frame.payload
      <4>1. now \in Nat /\ Timely(n, ip, times, now) /\ (m # n => Learns(n, m, arp))
        BY <1>4, <3>1
      <4> HIDE DEF times, now, arp
      <4>2. Timely(m, ip, times, now)
        BY <4>1, TimelyReceive
      <4>3. QED
        BY <4>2 DEF times, now
    <3>3. QED
      BY <2>2, <3>1, <3>2
  <2>3. QED
    BY <2>1, <2>2
<1>6. QED
  BY <1>1, <1>5 DEF TInv

LEMMA TicksTInv ==
  ASSUME IInv, TInv, NEW h \in Host, Ticks(h)
  PROVE  TInv'
<1> DEFINE n == interface[h]
           m == InterfaceTick(n, 1)
<1>1. /\ clock' = [clock EXCEPT ![h] = clock[h] + 1] /\ requests' = requests
      /\ interface' = [interface EXCEPT ![h] = m]
  BY DEF Ticks
<1>2. Sound(n, h, sent)
  BY DEF IInv
<1>3. Ages(n, m, 1)
  BY <1>2, TickEffect
<1> HIDE DEF m
<1>4. clock' \in [Host -> Nat]
  BY <1>1 DEF TInv
<1>5. ASSUME NEW g \in Host, NEW ip \in IPAddress
      PROVE  Timely(interface'[g], ip, requests[g][ip], clock'[g])
  <2>1. CASE g # h
    BY <1>1, <2>1 DEF TInv, IInv
  <2>2. CASE g = h
    <3> DEFINE times == requests[h][ip]
               now   == clock[h]
    <3>1. interface'[h] = m /\ clock'[h] = now + 1
      BY <1>1 DEF TInv, IInv
    <3>2. now \in Nat /\ Timely(n, ip, times, now)
      BY DEF TInv
    <3> HIDE DEF n, times, now
    <3>3. Timely(m, ip, times, now + 1)
      BY <1>2, <1>3, <3>2, TimelyTick
    <3>4. QED
      BY <2>2, <3>1, <3>3 DEF times
  <2>3. QED
    BY <2>1, <2>2
<1>6. QED
  BY <1>1, <1>4, <1>5 DEF TInv

LEMMA NextTInv == IInv /\ TInv /\ [Next]_vars => TInv'
<1> SUFFICES ASSUME IInv, TInv, [Next]_vars PROVE TInv'
  OBVIOUS
<1>1. CASE UNCHANGED vars
  BY <1>1 DEF vars, TInv
<1>2. CASE Next
  BY <1>2, SendsDatagramTInv, TransmitsTInv, ReceivesTInv, TicksTInv DEF Next
<1>3. QED
  BY <1>1, <1>2

(* Nothing makes the first request for an address be repeated early:       *)
(* neither the answer that never comes, nor one that comes late, nor the   *)
(* address learned and forgotten in between                                *)
(* (network_interface.cc:66-78, 126-135, 143-161).                         *)
THEOREM FirstRequestWaits == Spec => []FirstRequestAlone
<1>1. TInv => FirstRequestAlone
  BY DEF TInv, Timely, FirstRequestAlone
<1>2. Spec => [](IInv /\ TInv)
  BY InitIInv, NextIInv, InitTInv, NextTInv, PTL DEF Spec
<1>3. QED
  BY <1>1, <1>2, PTL

-----------------------------------------------------------------------------
(* Where a datagram is. *)

\* The frames that carry a datagram to one of some addresses.
Carries(frame, addresses, dgram) ==
  frame.type = "IPv4" /\ frame.payload = dgram /\ frame.dst \in addresses

Bears(frames, addresses, dgram) ==
  \E i \in 1..Len(frames) : Carries(frames[i], addresses, dgram)

BearsOnce(frames, addresses, dgram) ==
  \A i, j \in 1..Len(frames) :
    Carries(frames[i], addresses, dgram) /\ Carries(frames[j], addresses, dgram) => i = j

LEMMA BearsAppended ==
  ASSUME NEW S, NEW frames \in Seq(S), NEW frame, NEW addresses, NEW dgram
  PROVE  /\ Bears(Append(frames, frame), addresses, dgram)
            <=> Bears(frames, addresses, dgram) \/ Carries(frame, addresses, dgram)
         /\ /\ BearsOnce(frames, addresses, dgram)
            /\ ~(Bears(frames, addresses, dgram) /\ Carries(frame, addresses, dgram))
            => BearsOnce(Append(frames, frame), addresses, dgram)
<1> DEFINE longer == Append(frames, frame)
<1>1. /\ Len(frames) \in Nat /\ Len(longer) = Len(frames) + 1
      /\ longer[Len(frames) + 1] = frame
      /\ \A i \in 1..Len(frames) : longer[i] = frames[i]
  OBVIOUS
<1> HIDE DEF longer
<1>2. \A i \in 1..Len(longer) : i \in 1..Len(frames) \/ i = Len(frames) + 1
  BY <1>1
<1>3. 1..Len(frames) \subseteq 1..Len(longer) /\ Len(frames) + 1 \in 1..Len(longer)
  BY <1>1
<1>4. Bears(longer, addresses, dgram)
      <=> Bears(frames, addresses, dgram) \/ Carries(frame, addresses, dgram)
  BY <1>1, <1>2, <1>3, Zenon DEF Bears
<1>5. ASSUME BearsOnce(frames, addresses, dgram),
             ~(Bears(frames, addresses, dgram) /\ Carries(frame, addresses, dgram))
      PROVE  BearsOnce(longer, addresses, dgram)
  BY <1>1, <1>2, <1>5, Zenon DEF BearsOnce, Bears
<1>6. QED
  BY <1>4, <1>5 DEF longer

LEMMA BearsTail ==
  ASSUME NEW S, NEW frames \in Seq(S), frames # << >>, NEW addresses, NEW dgram
  PROVE  /\ Bears(frames, addresses, dgram)
            <=> \/ Bears(Tail(frames), addresses, dgram)
                \/ Carries(Head(frames), addresses, dgram)
         /\ BearsOnce(frames, addresses, dgram)
            => /\ BearsOnce(Tail(frames), addresses, dgram)
               /\ ~(/\ Bears(Tail(frames), addresses, dgram)
                    /\ Carries(Head(frames), addresses, dgram))
<1> DEFINE rest == Tail(frames)
           first == Head(frames)
<1>1. /\ Len(frames) \in Nat \ {0} /\ Len(rest) = Len(frames) - 1
      /\ first = frames[1]
      /\ \A i \in 1..Len(rest) : rest[i] = frames[i + 1]
  OBVIOUS
<1> HIDE DEF rest, first
<1>2. /\ 1 \in 1..Len(frames)
      /\ \A i \in 1..Len(rest) : i + 1 \in 1..Len(frames) /\ i + 1 # 1
      /\ \A i, j \in 1..Len(rest) : i + 1 = j + 1 => i = j
      /\ \A j \in 1..Len(frames) : j = 1 \/ \E i \in 1..Len(rest) : j = i + 1
  <2>1. \A j \in 1..Len(frames) : j = 1 \/ (j - 1 \in 1..Len(rest) /\ j = (j - 1) + 1)
    BY <1>1
  <2>2. QED
    BY <1>1, <2>1
<1>3. Bears(frames, addresses, dgram)
      <=> Bears(rest, addresses, dgram) \/ Carries(first, addresses, dgram)
  <2>1. ASSUME Bears(frames, addresses, dgram)
        PROVE  Bears(rest, addresses, dgram) \/ Carries(first, addresses, dgram)
    <3>1. PICK j \in 1..Len(frames) : Carries(frames[j], addresses, dgram)
      BY <2>1 DEF Bears
    <3>2. CASE j = 1
      BY <1>1, <3>1, <3>2
    <3>3. ASSUME NEW i \in 1..Len(rest), j = i + 1
          PROVE  Bears(rest, addresses, dgram)
      BY <1>1, <3>1, <3>3 DEF Bears
    <3>4. QED
      BY <1>2, <3>2, <3>3, Zenon
  <2>2. ASSUME Bears(rest, addresses, dgram)
        PROVE  Bears(frames, addresses, dgram)
    BY <1>1, <1>2, <2>2, Zenon DEF Bears
  <2>3. Carries(first, addresses, dgram) => Bears(frames, addresses, dgram)
    BY <1>1, <1>2, Zenon DEF Bears
  <2>4. QED
    BY <2>1, <2>2, <2>3
<1>4. ASSUME BearsOnce(frames, addresses, dgram)
      PROVE  /\ BearsOnce(rest, addresses, dgram)
             /\ ~(Bears(rest, addresses, dgram) /\ Carries(first, addresses, dgram))
  BY <1>1, <1>2, <1>4, Zenon DEF BearsOnce, Bears
<1>5. QED
  BY <1>3, <1>4 DEF rest, first

\* A datagram waits at an interface.
Waits(n, ip, dgram) ==
  /\ ip \in Asked(n)
  /\ dgram \in FramesOf(n.ip_addr_to_ethernet_datagram_queue[ip].datagrams)

\* The places it can be at: the queue of host h for address x, the frames of
\* host h, its inbox (in a frame for it), or received there.
Held(dgram, kind, h, x) ==
  \/ kind = "waiting" /\ Waits(interface[h], x, dgram)
  \/ /\ kind = "queued" /\ x = 0
     /\ Bears(interface[h].maybe_send_queue, EthernetAddress, dgram)
  \/ kind = "arriving" /\ x = 0 /\ Bears(inbox[h], {EthernetOf[h]}, dgram)
  \/ kind = "received" /\ x = 0 /\ <<h, dgram>> \in received

AtOnePlace(dgram) ==
  \A kind, kind2, x, x2 : \A h, h2 \in Host :
    Held(dgram, kind, h, x) /\ Held(dgram, kind2, h2, x2)
      => kind = kind2 /\ h = h2 /\ x = x2

OnceThere(dgram) ==
  \A h \in Host : /\ BearsOnce(interface[h].maybe_send_queue, EthernetAddress, dgram)
                  /\ BearsOnce(inbox[h], {EthernetOf[h]}, dgram)

\* One datagram waits for each address asked for.
OneWaits(n) ==
  \A ip \in Asked(n) : Len(n.ip_addr_to_ethernet_datagram_queue[ip].datagrams) = 1

\* The inductive invariant, with IInv.
UInv ==
  /\ DOMAIN sent \subseteq InternetDatagram
  /\ \A dgram \in InternetDatagram : AtOnePlace(dgram) /\ OnceThere(dgram)
  /\ \A h \in Host : OneWaits(interface[h])

(* What the operations do to the places of a datagram at an interface. *)
LEMMA SendPlaces ==
  ASSUME NEW n, NEW h, NEW s, Sound(n, h, s), NEW dgram, NEW ip,
         NEW m, m = SendDatagram(n, dgram, ip), NEW d
  PROVE  /\ \A x : Waits(m, x, d)
                   => Waits(n, x, d) \/ (AsksFirst(n, m, dgram, ip) /\ d = dgram /\ x = ip)
         /\ Bears(m.maybe_send_queue, EthernetAddress, d)
            => \/ Bears(n.maybe_send_queue, EthernetAddress, d)
               \/ SendsNow(n, m, dgram, ip) /\ d = dgram
         /\ /\ BearsOnce(n.maybe_send_queue, EthernetAddress, d)
            /\ ~(d = dgram /\ Bears(n.maybe_send_queue, EthernetAddress, d))
            => BearsOnce(m.maybe_send_queue, EthernetAddress, d)
         /\ OneWaits(n) => OneWaits(m)
<1> DEFINE q == n.maybe_send_queue
           f == MakeFrame(n, n.ip_addr_to_ethernet_addr[ip].address, "IPv4", dgram)
           r == MakeFrame(n, Broadcast, "ARP", MakeArp(n, "REQUEST", NoAddress, ip))
<1>1. q \in Seq(Truthful(s))
  BY DEF Sound
<1>2. /\ Carries(f, EthernetAddress, d) => d = dgram
      /\ ~Carries(r, EthernetAddress, d)
  BY DEF Carries, MakeFrame
<1>3. CASE m = n
  BY <1>3
<1>4. CASE SendsNow(n, m, dgram, ip)
  <2>1. m.maybe_send_queue = Append(q, f)
    BY <1>4 DEF SendsNow
  <2>2. /\ \A x : Waits(m, x, d) <=> Waits(n, x, d)
        /\ OneWaits(n) => OneWaits(m)
    BY <1>4 DEF SendsNow, Waits, OneWaits, Asked
  <2> HIDE DEF q, f
  <2>3. /\ Bears(m.maybe_send_queue, EthernetAddress, d)
           => Bears(q, EthernetAddress, d) \/ d = dgram
        /\ BearsOnce(q, EthernetAddress, d) /\ ~(d = dgram /\ Bears(q, EthernetAddress, d))
           => BearsOnce(m.maybe_send_queue, EthernetAddress, d)
    BY <1>1, <1>2, <2>1, BearsAppended
  <2>4. QED
    BY <1>4, <2>2, <2>3 DEF q
<1>5. CASE AsksAgain(n, m, ip) \/ AsksFirst(n, m, dgram, ip)
  <2>1. m.maybe_send_queue = Append(q, r)
    BY <1>5 DEF AsksAgain, AsksFirst, AskedFor
  <2> HIDE DEF q, r
  <2>2. /\ Bears(m.maybe_send_queue, EthernetAddress, d) => Bears(q, EthernetAddress, d)
        /\ BearsOnce(q, EthernetAddress, d)
           => BearsOnce(m.maybe_send_queue, EthernetAddress, d)
    BY <1>1, <1>2, <2>1, BearsAppended
  <2>3. CASE AsksAgain(n, m, ip)
    <3>1. /\ \A x : Waits(m, x, d) <=> Waits(n, x, d)
          /\ OneWaits(n) => OneWaits(m)
      BY <2>3 DEF AsksAgain, Waits, OneWaits, Asked
    <3>2. QED
      BY <2>2, <3>1 DEF q
  <2>4. CASE AsksFirst(n, m, dgram, ip)
    <3>1. /\ Asked(m) = Asked(n) \cup {ip}
          /\ m.ip_addr_to_ethernet_datagram_queue[ip].datagrams = <<dgram>>
          /\ \A x \in Asked(n) : m.ip_addr_to_ethernet_datagram_queue[x]
                                   = n.ip_addr_to_ethernet_datagram_queue[x]
      BY <2>4 DEF AsksFirst, WithEntry, Asked
    <3>2. FramesOf(<<dgram>>) = {dgram} /\ Len(<<dgram>>) = 1
      BY DEF FramesOf
    <3>3. \A x : Waits(m, x, d) => Waits(n, x, d) \/ (d = dgram /\ x = ip)
      BY <2>4, <3>1, <3>2 DEF Waits, AsksFirst
    <3>4. OneWaits(n) => OneWaits(m)
      BY <3>1, <3>2 DEF OneWaits
    <3>5. QED
      BY <2>2, <2>4, <3>3, <3>4 DEF q
  <2>5. QED
    BY <1>5, <2>3, <2>4
<1>6. QED
  BY <1>3, <1>4, <1>5, SendEffect

\* What waits for the address learned, if anything does, is one frame.
LEMMA ReleasedOne ==
  ASSUME NEW n, NEW h, NEW s, Sound(n, h, s), OneWaits(n),
         NEW ip \in IPAddress, NEW address \in EthernetAddress, ip \in Asked(n)
  PROVE  \E w : /\ n.ip_addr_to_ethernet_datagram_queue[ip].datagrams = <<w>>
                /\ Released(n, ip, address) = <<MakeFrame(n, address, "IPv4", w)>>
<1> DEFINE waiting == n.ip_addr_to_ethernet_datagram_queue[ip].datagrams
           w       == waiting[1]
           f(x)    == MakeFrame(n, address, "IPv4", x)
<1>1. waiting \in Seq(Destined(s, ip)) /\ Len(waiting) = 1
  BY DEF Sound, SoundQueues, Asked, OneWaits
<1>2. Released(n, ip, address) = [i \in 1..Len(waiting) |-> f(waiting[i])]
  BY DEF Released
<1> HIDE DEF waiting, f
<1>3. waiting = <<w>>
  BY <1>1
<1>4. [i \in 1..Len(waiting) |-> f(waiting[i])] = <<f(w)>>
  BY <1>1
<1>5. QED
  BY <1>2, <1>3, <1>4 DEF waiting, f

LEMMA LearnPlaces ==
  ASSUME NEW n, NEW h \in Host, NEW s, Sound(n, h, s), OneWaits(n), NEW arp \in ARPMessage,
         Genuine(arp.sender_ip_address, arp.sender_ethernet_address),
         NEW m, Learns(n, m, arp), NEW d
  PROVE  /\ \A x : Waits(m, x, d) <=> Waits(n, x, d) /\ x # arp.sender_ip_address
         /\ Bears(m.maybe_send_queue, EthernetAddress, d)
            => \/ Bears(n.maybe_send_queue, EthernetAddress, d)
               \/ Waits(n, arp.sender_ip_address, d)
         /\ /\ BearsOnce(n.maybe_send_queue, EthernetAddress, d)
            /\ ~(/\ Bears(n.maybe_send_queue, EthernetAddress, d)
                 /\ Waits(n, arp.sender_ip_address, d))
            => BearsOnce(m.maybe_send_queue, EthernetAddress, d)
         /\ OneWaits(m)
<1> DEFINE ip       == arp.sender_ip_address
           address  == arp.sender_ethernet_address
           q        == n.maybe_send_queue
           released == Released(n, ip, address)
           grown    == q \o released
           reply    == MakeFrame(n, address, "ARP", MakeArp(n, "REPLY", address, ip))
<1>1. ip \in IPAddress /\ address \in EthernetAddress
  BY DEF ARPMessage
<1>2. q \in Seq(Truthful(s))
  BY DEF Sound
<1>3. /\ Asked(m) = Asked(n) \ {ip}
      /\ \A x \in Asked(m) : m.ip_addr_to_ethernet_datagram_queue[x]
                               = n.ip_addr_to_ethernet_datagram_queue[x]
  BY DEF Learns, Restrict, Asked
<1>4. /\ \A x : Waits(m, x, d) <=> Waits(n, x, d) /\ x # ip
      /\ OneWaits(m)
  BY <1>3 DEF Waits, OneWaits
<1>5. /\ m.maybe_send_queue = grown \o Replies(n, arp)
      /\ Replies(n, arp) \in {<< >>, <<reply>>}
      /\ ~Carries(reply, EthernetAddress, d)
  BY DEF Learns, Replies, Carries, MakeFrame
<1>6. /\ released \in Seq(Truthful(s))
      /\ grown \in Seq(Truthful(s))
      /\ Bears(grown, EthernetAddress, d) => Bears(q, EthernetAddress, d) \/ Waits(n, ip, d)
      /\ /\ BearsOnce(q, EthernetAddress, d)
         /\ ~(Bears(q, EthernetAddress, d) /\ Waits(n, ip, d))
         => BearsOnce(grown, EthernetAddress, d)
  <2>1. released \in Seq(Truthful(s))
    BY <1>1, ReleasedTruthful
  <2>2. CASE ip \notin Asked(n)
    <3>1. released = << >>
      BY <2>2 DEF Released
    <3> HIDE DEF released, q
    <3>2. grown = q
      BY <1>2, <3>1
    <3>3. QED
      BY <1>2, <2>1, <3>2
  <2>3. CASE ip \in Asked(n)
    <3>1. PICK w : /\ n.ip_addr_to_ethernet_datagram_queue[ip].datagrams = <<w>>
                   /\ released = <<MakeFrame(n, address, "IPv4", w)>>
      BY <1>1, <2>3, ReleasedOne
    <3> DEFINE f == MakeFrame(n, address, "IPv4", w)
    <3>2. Carries(f, EthernetAddress, d) => d = w
      BY DEF Carries, MakeFrame
    <3>3. FramesOf(<<w>>) = {w}
      BY DEF FramesOf
    <3>4. d = w => Waits(n, ip, d)
      BY <2>3, <3>1, <3>3 DEF Waits
    <3>5. released = <<f>>
      BY <3>1
    <3> HIDE DEF released, q, f
    <3>6. grown = Append(q, f) /\ grown \in Seq(Truthful(s))
      BY <1>2, <2>1, <3>5, ConcatProperties
    <3>7. QED
      BY <1>2, <2>1, <3>2, <3>4, <3>6, BearsAppended
  <2>4. QED
    BY <2>2, <2>3
<1> HIDE DEF q, grown, released, reply, ip
<1>7. /\ Bears(m.maybe_send_queue, EthernetAddress, d) => Bears(grown, EthernetAddress, d)
      /\ BearsOnce(grown, EthernetAddress, d)
         => BearsOnce(m.maybe_send_queue, EthernetAddress, d)
  <2>1. CASE Replies(n, arp) = << >>
    <3>1. m.maybe_send_queue = grown
      BY <1>5, <1>6, <2>1
    <3>2. QED
      BY <3>1
  <2>2. CASE Replies(n, arp) = <<reply>>
    <3>1. m.maybe_send_queue = Append(grown, reply)
      BY <1>5, <1>6, <2>2
    <3>2. QED
      BY <1>5, <1>6, <3>1, BearsAppended
  <2>3. QED
    BY <1>5, <2>1, <2>2
<1>8. QED
  BY <1>4, <1>6, <1>7 DEF q, ip

LEMMA TickPlaces ==
  ASSUME NEW h \in Host, NEW n, NEW s, Sound(n, h, s), NEW ms \in Nat,
         NEW m, m = InterfaceTick(n, ms)
  PROVE  /\ m.maybe_send_queue = n.maybe_send_queue
         /\ Asked(m) = Asked(n)
         /\ \A ip \in Asked(n) :
              m.ip_addr_to_ethernet_datagram_queue[ip].datagrams
                = n.ip_addr_to_ethernet_datagram_queue[ip].datagrams
<1>1. PICK frames, queues, mappings :
        n = InterfaceOf(h, frames, queues, mappings)
  BY DEF Sound
<1>2. SoundQueues(queues, s)
  BY <1>1, SoundParts
<1>3. n.maybe_send_queue = frames /\ n.ip_addr_to_ethernet_datagram_queue = queues
  BY <1>1, Fields
<1> DEFINE q == Aged(queues, ms)
           k == Remembered(mappings, ms)
<1>4. /\ DOMAIN q = DOMAIN queues
      /\ \A ip \in DOMAIN queues : q[ip].datagrams = queues[ip].datagrams
  BY <1>2 DEF Aged, SoundQueues
<1>5. m = InterfaceOf(h, frames, q, k)
  BY <1>1, TickParts
<1> HIDE DEF q, k
<1>6. m.maybe_send_queue = frames /\ m.ip_addr_to_ethernet_datagram_queue = q
  BY <1>5, FieldsOf
<1>7. QED
  BY <1>3, <1>4, <1>6 DEF Asked

-----------------------------------------------------------------------------
(* A datagram that is anywhere was sent, and every action keeps it at one  *)
(* place.                                                                  *)
LEMMA HeldSent ==
  ASSUME IInv, NEW d, NEW kind, NEW h \in Host, NEW x, Held(d, kind, h, x)
  PROVE  d \in DOMAIN sent
<1>1. Sound(interface[h], h, sent) /\ inbox[h] \in Seq(Truthful(sent))
  BY DEF IInv
<1>2. ASSUME NEW frames \in Seq(Truthful(sent)), NEW addresses, Bears(frames, addresses, d)
      PROVE  d \in DOMAIN sent
  <2>1. PICK i \in 1..Len(frames) : Carries(frames[i], addresses, d)
    BY <1>2 DEF Bears
  <2>2. frames[i] \in Truthful(sent)
    BY <1>2, ElementOfSeq
  <2>3. QED
    BY <2>1, <2>2 DEF Carries, Truthful
<1>3. CASE Waits(interface[h], x, d)
  <2> DEFINE waiting == interface[h].ip_addr_to_ethernet_datagram_queue[x].datagrams
  <2>1. waiting \in Seq(Destined(sent, x))
    BY <1>1, <1>3 DEF Sound, SoundQueues, Asked, Waits
  <2>2. PICK i \in 1..Len(waiting) : d = waiting[i]
    BY <1>3 DEF Waits, FramesOf
  <2> HIDE DEF waiting
  <2>3. d \in Destined(sent, x)
    BY <2>1, <2>2, ElementOfSeq
  <2>4. QED
    BY <2>3 DEF Destined
<1>4. CASE \/ Bears(interface[h].maybe_send_queue, EthernetAddress, d)
           \/ Bears(inbox[h], {EthernetOf[h]}, d)
  BY <1>1, <1>2, <1>4 DEF Sound
<1>5. CASE <<h, d>> \in received
  BY <1>5 DEF IInv
<1>6. QED
  BY <1>3, <1>4, <1>5 DEF Held

LEMMA InitUInv == Init => UInv
<1> SUFFICES ASSUME Init PROVE UInv
  OBVIOUS
<1>1. ASSUME NEW h \in Host
      PROVE  /\ interface[h].maybe_send_queue = << >> /\ inbox[h] = << >>
             /\ Asked(interface[h]) = {}
  BY DEF Init, NewInterface, Asked
<1>2. received = {}
  BY DEF Init
<1>3. \A addresses, d : ~Bears(<< >>, addresses, d) /\ BearsOnce(<< >>, addresses, d)
  BY DEF Bears, BearsOnce
<1>4. \A d, kind, x : \A h \in Host : ~Held(d, kind, h, x)
  BY <1>1, <1>2, <1>3 DEF Held, Waits
<1>5. DOMAIN sent \subseteq InternetDatagram
  BY DEF Init
<1>6. QED
  BY <1>1, <1>3, <1>4, <1>5 DEF UInv, AtOnePlace, OnceThere, OneWaits

LEMMA SendsDatagramUInv ==
  ASSUME IInv, UInv, NEW h \in Host, NEW dgram \in InternetDatagram,
         NEW next_hop \in IPAddress, SendsDatagram(h, dgram, next_hop)
  PROVE  UInv'
<1> DEFINE n == interface[h]
           m == SendDatagram(n, dgram, next_hop)
           first == AsksFirst(n, m, dgram, next_hop)
           now   == SendsNow(n, m, dgram, next_hop)
<1>1. /\ dgram \notin DOMAIN sent /\ inbox' = inbox /\ received' = received
      /\ interface' = [interface EXCEPT ![h] = m]
  BY DEF SendsDatagram
<1>2. Sound(n, h, sent)
  BY DEF IInv
<1>3. interface'[h] = m /\ \A g \in Host \ {h} : interface'[g] = interface[g]
  BY <1>1 DEF IInv
<1>4. ~(first /\ now)
  BY DEF AsksFirst, SendsNow
<1> HIDE DEF n
<1>5. \A d :
        /\ \A x : Waits(m, x, d) => Waits(n, x, d) \/ (first /\ d = dgram /\ x = next_hop)
        /\ Bears(m.maybe_send_queue, EthernetAddress, d)
           => Bears(n.maybe_send_queue, EthernetAddress, d) \/ (now /\ d = dgram)
        /\ /\ BearsOnce(n.maybe_send_queue, EthernetAddress, d)
           /\ ~(d = dgram /\ Bears(n.maybe_send_queue, EthernetAddress, d))
           => BearsOnce(m.maybe_send_queue, EthernetAddress, d)
        /\ OneWaits(n) => OneWaits(m)
  BY <1>2, SendPlaces
<1> HIDE DEF m, first, now
<1>6. ASSUME NEW d, NEW kind, NEW x, NEW g \in Host, Held(d, kind, g, x)'
      PROVE  \/ Held(d, kind, g, x)
             \/ /\ d = dgram /\ g = h
                /\ \/ first /\ kind = "waiting" /\ x = next_hop
                   \/ now /\ kind = "queued" /\ x = 0
  <2>1. CASE g # h
    BY <1>1, <1>3, <1>6, <2>1 DEF Held
  <2>2. CASE g = h
    BY <1>1, <1>3, <1>5, <1>6, <2>2 DEF Held, n
  <2>3. QED
    BY <2>1, <2>2
<1>7. \A kind, x : \A g \in Host : ~Held(dgram, kind, g, x)
  BY <1>1, HeldSent
<1>8. ASSUME NEW d \in InternetDatagram
      PROVE  AtOnePlace(d)'
  <2>1. AtOnePlace(d)
    BY DEF UInv
  <2>2. CASE d = dgram
    BY <1>4, <1>6, <1>7, <2>2 DEF AtOnePlace
  <2>3. CASE d # dgram
    BY <1>6, <2>1, <2>3 DEF AtOnePlace
  <2>4. QED
    BY <2>2, <2>3
<1>9. ASSUME NEW d \in InternetDatagram
      PROVE  OnceThere(d)'
  <2>1. OnceThere(d)
    BY DEF UInv
  <2>2. d = dgram => ~Bears(n.maybe_send_queue, EthernetAddress, d)
    BY <1>7 DEF Held, n
  <2>3. BearsOnce(m.maybe_send_queue, EthernetAddress, d)
    BY <1>5, <2>1, <2>2 DEF OnceThere, n
  <2>4. QED
    BY <1>1, <1>3, <2>1, <2>3 DEF OnceThere
<1>10. \A g \in Host : OneWaits(interface'[g])
  BY <1>3, <1>5 DEF UInv, n
<1>11. DOMAIN sent' \subseteq InternetDatagram
  BY DEF SendsDatagram, WithEntry, UInv
<1>12. QED
  BY <1>8, <1>9, <1>10, <1>11 DEF UInv

LEMMA TicksUInv ==
  ASSUME IInv, UInv, NEW h \in Host, Ticks(h)
  PROVE  UInv'
<1> DEFINE n == interface[h]
           m == InterfaceTick(n, 1)
<1>1. /\ inbox' = inbox /\ received' = received /\ sent' = sent
      /\ interface' = [interface EXCEPT ![h] = m]
  BY DEF Ticks
<1>2. interface'[h] = m /\ \A g \in Host \ {h} : interface'[g] = interface[g]
  BY <1>1 DEF IInv
<1>3. Sound(n, h, sent)
  BY DEF IInv
<1> HIDE DEF n
<1>4. /\ m.maybe_send_queue = n.maybe_send_queue
      /\ Asked(m) = Asked(n)
      /\ \A ip \in Asked(n) :
           m.ip_addr_to_ethernet_datagram_queue[ip].datagrams
             = n.ip_addr_to_ethernet_datagram_queue[ip].datagrams
  BY <1>3, TickPlaces
<1> HIDE DEF m
<1>5. \A x, d : Waits(m, x, d) <=> Waits(n, x, d)
  BY <1>4 DEF Waits
<1>6. ASSUME NEW d, NEW kind, NEW x, NEW g \in Host, Held(d, kind, g, x)'
      PROVE  Held(d, kind, g, x)
  <2>1. CASE g # h
    BY <1>1, <1>2, <1>6, <2>1 DEF Held
  <2>2. CASE g = h
    BY <1>1, <1>2, <1>4, <1>5, <1>6, <2>2 DEF Held, n
  <2>3. QED
    BY <2>1, <2>2
<1>7. \A d \in InternetDatagram : AtOnePlace(d)'
  BY <1>6 DEF UInv, AtOnePlace
<1>8. \A d \in InternetDatagram : OnceThere(d)'
  BY <1>1, <1>2, <1>4 DEF UInv, OnceThere, n
<1>9. \A g \in Host : OneWaits(interface'[g])
  BY <1>2, <1>4 DEF UInv, OneWaits, n
<1>10. QED
  BY <1>1, <1>7, <1>8, <1>9 DEF UInv

LEMMA TransmitsUInv ==
  ASSUME IInv, UInv, NEW h \in Host, NEW reached \in SUBSET (Host \ {h}), Transmits(h, reached)
  PROVE  UInv'
<1> DEFINE n == interface[h]
           q == n.maybe_send_queue
           m == AfterSendFrame(n)
           f == Head(q)
<1>1. /\ q # << >> /\ received' = received /\ sent' = sent
      /\ interface' = [interface EXCEPT ![h] = m]
      /\ inbox' = [g \in Host |-> IF g \in reached THEN Append(inbox[g], f) ELSE inbox[g]]
  BY DEF Transmits, MaybeSendFrame
<1>2. interface'[h] = m /\ \A g \in Host \ {h} : interface'[g] = interface[g]
  BY <1>1 DEF IInv
<1>3. q \in Seq(Truthful(sent)) /\ f \in Truthful(sent)
  BY <1>1, AfterSendSound DEF IInv, Sound, MaybeSendFrame
<1>4. /\ m.maybe_send_queue = Tail(q)
      /\ m.ip_addr_to_ethernet_datagram_queue = n.ip_addr_to_ethernet_datagram_queue
  <2>1. PICK frames, queues, mappings :
          n = InterfaceOf(h, frames, queues, mappings)
    BY DEF IInv, Sound
  <2>2. q = frames /\ n.ip_addr_to_ethernet_datagram_queue = queues
    BY <2>1, Fields
  <2> DEFINE rest == Tail(frames)
  <2>3. m = InterfaceOf(h, rest, queues, mappings)
    BY <2>1, AfterSendParts
  <2> HIDE DEF m, rest
  <2>4. m.maybe_send_queue = rest /\ m.ip_addr_to_ethernet_datagram_queue = queues
    BY <2>3, FieldsOf
  <2>5. QED
    BY <2>2, <2>4 DEF rest
<1> HIDE DEF m
<1>5. /\ \A x, d : Waits(m, x, d) <=> Waits(n, x, d)
      /\ OneWaits(n) => OneWaits(m)
  BY <1>4 DEF Waits, OneWaits, Asked
<1> HIDE DEF f, q
<1>6. \A d :
        /\ Bears(q, EthernetAddress, d)
           <=> Bears(Tail(q), EthernetAddress, d) \/ Carries(f, EthernetAddress, d)
        /\ BearsOnce(q, EthernetAddress, d)
           => /\ BearsOnce(Tail(q), EthernetAddress, d)
              /\ ~(Bears(Tail(q), EthernetAddress, d) /\ Carries(f, EthernetAddress, d))
  BY <1>1, <1>3, BearsTail DEF f
<1>7. ASSUME NEW g \in Host, NEW d
      PROVE  /\ Bears(inbox'[g], {EthernetOf[g]}, d)
                => \/ Bears(inbox[g], {EthernetOf[g]}, d)
                   \/ Carries(f, {EthernetOf[g]}, d)
             /\ /\ BearsOnce(inbox[g], {EthernetOf[g]}, d)
                /\ ~(/\ Bears(inbox[g], {EthernetOf[g]}, d)
                     /\ Carries(f, {EthernetOf[g]}, d))
                => BearsOnce(inbox'[g], {EthernetOf[g]}, d)
  <2>1. CASE g \notin reached
    <3>1. inbox'[g] = inbox[g]
      BY <1>1, <2>1
    <3>2. QED
      BY <3>1
  <2>2. CASE g \in reached
    <3>1. inbox'[g] = Append(inbox[g], f) /\ inbox[g] \in Seq(Truthful(sent))
      BY <1>1, <2>2 DEF IInv
    <3>2. QED
      BY <3>1, BearsAppended
  <2>3. QED
    BY <2>1, <2>2
<1>8. \A d : \A g \in Host : Carries(f, {EthernetOf[g]}, d) => Carries(f, EthernetAddress, d)
  BY HostAddresses DEF Carries
<1>9. \A d : Carries(f, EthernetAddress, d) => Held(d, "queued", h, 0)
  BY <1>6 DEF Held, n, q
<1>10. ASSUME NEW d, NEW kind, NEW x, NEW g \in Host, Held(d, kind, g, x)'
       PROVE  \/ /\ Held(d, kind, g, x)
                 /\ kind = "queued" /\ g = h => Bears(Tail(q), EthernetAddress, d)
              \/ kind = "arriving" /\ x = 0 /\ Carries(f, {EthernetOf[g]}, d)
  <2>1. CASE kind = "queued" /\ g = h
    BY <1>2, <1>4, <1>6, <1>10, <2>1 DEF Held, n, q
  <2>2. CASE kind = "queued" /\ g # h
    BY <1>2, <1>10, <2>2 DEF Held
  <2>3. CASE kind = "waiting"
    BY <1>2, <1>5, <1>10, <2>3 DEF Held, n
  <2>4. CASE kind = "arriving"
    BY <1>7, <1>10, <2>4 DEF Held
  <2>5. CASE kind = "received"
    BY <1>1, <1>10, <2>5 DEF Held
  <2>6. QED
    BY <1>10, <2>1, <2>2, <2>3, <2>4, <2>5 DEF Held
<1>11. ASSUME NEW d \in InternetDatagram
       PROVE  AtOnePlace(d)' /\ OnceThere(d)'
  <2>1. AtOnePlace(d) /\ OnceThere(d)
    BY DEF UInv
  <2>2. \A g \in Host : ~(/\ Bears(inbox[g], {EthernetOf[g]}, d)
                          /\ Carries(f, {EthernetOf[g]}, d))
    <3>1. ASSUME NEW g \in Host, Bears(inbox[g], {EthernetOf[g]}, d),
                 Carries(f, {EthernetOf[g]}, d)
          PROVE  FALSE
      <4>1. Held(d, "arriving", g, 0) /\ Held(d, "queued", h, 0)
        BY <1>8, <1>9, <3>1 DEF Held
      <4>2. QED
        BY <2>1, <4>1 DEF AtOnePlace
    <3>2. QED
      BY <3>1
  <2>3. OnceThere(d)'
    BY <1>2, <1>4, <1>6, <1>7, <2>1, <2>2 DEF OnceThere, n, q
  <2>4. CASE ~Carries(f, EthernetAddress, d)
    <3>1. \A kind, x : \A g \in Host : Held(d, kind, g, x)' => Held(d, kind, g, x)
      BY <1>8, <1>10, <2>4
    <3>2. QED
      BY <2>1, <2>3, <3>1 DEF AtOnePlace
  <2>5. CASE Carries(f, EthernetAddress, d)
    <3>1. ~Bears(Tail(q), EthernetAddress, d)
      BY <1>6, <2>1, <2>5 DEF OnceThere, n, q
    <3>2. ASSUME NEW kind, NEW x, NEW g \in Host, Held(d, kind, g, x)'
          PROVE  kind = "arriving" /\ x = 0 /\ Carries(f, {EthernetOf[g]}, d)
      <4>1. Held(d, kind, g, x) => kind = "queued" /\ g = h
        BY <1>9, <2>1, <2>5 DEF AtOnePlace
      <4>2. QED
        BY <1>10, <3>1, <3>2, <4>1
    <3>3. \A g, g2 \in Host : Carries(f, {EthernetOf[g]}, d) /\ Carries(f, {EthernetOf[g2]}, d)
                                => g = g2
      BY AddressesAssumption DEF Carries
    <3>4. ASSUME NEW kind, NEW kind2, NEW x, NEW x2, NEW g \in Host, NEW g2 \in Host,
                 Held(d, kind, g, x)', Held(d, kind2, g2, x2)'
          PROVE  kind = kind2 /\ g = g2 /\ x = x2
      <4>1. /\ kind = "arriving" /\ x = 0 /\ Carries(f, {EthernetOf[g]}, d)
            /\ kind2 = "arriving" /\ x2 = 0 /\ Carries(f, {EthernetOf[g2]}, d)
        BY <3>2, <3>4
      <4>2. QED
        BY <3>3, <4>1
    <3>5. AtOnePlace(d)'
      BY <3>4 DEF AtOnePlace
    <3>6. QED
      BY <2>3, <3>5
  <2>6. QED
    BY <2>4, <2>5
<1>12. \A g \in Host : OneWaits(interface'[g])
  BY <1>2, <1>5 DEF UInv, n
<1>13. QED
  BY <1>1, <1>11, <1>12 DEF UInv

LEMMA ReceivesUInv ==
  ASSUME IInv, UInv, NEW h \in Host, Receives(h)
  PROVE  UInv'
<1> DEFINE n == interface[h]
           f == Head(inbox[h])
           result == RecvFrame(n, f)
           m == result.interface
           mine == {EthernetOf[h]}
<1>1. /\ inbox[h] # << >> /\ sent' = sent
      /\ interface' = [interface EXCEPT ![h] = m]
      /\ inbox' = [inbox EXCEPT ![h] = Tail(inbox[h])]
      /\ received' = IF result.datagram = NoDatagram THEN received
                     ELSE received \cup {<<h, result.datagram>>}
  BY DEF Receives
<1>2. /\ interface'[h] = m /\ \A g \in Host \ {h} : interface'[g] = interface[g]
      /\ inbox'[h] = Tail(inbox[h]) /\ \A g \in Host \ {h} : inbox'[g] = inbox[g]
  BY <1>1 DEF IInv
<1>3. inbox[h] \in Seq(Truthful(sent)) /\ Sound(n, h, sent) /\ OneWaits(n)
  BY DEF IInv, UInv
<1>4. f \in Truthful(sent)
  BY <1>1, <1>3, HeadTailProperties
<1>5. \A d :
        /\ Bears(inbox[h], mine, d) <=> Bears(inbox'[h], mine, d) \/ Carries(f, mine, d)
        /\ BearsOnce(inbox[h], mine, d)
           => /\ BearsOnce(inbox'[h], mine, d)
              /\ ~(Bears(inbox'[h], mine, d) /\ Carries(f, mine, d))
  BY <1>1, <1>2, <1>3, BearsTail
<1>6. ASSUME NEW d
      PROVE  /\ \A g \in Host : Bears(inbox'[g], {EthernetOf[g]}, d)
                                  => Bears(inbox[g], {EthernetOf[g]}, d)
             /\ \A g \in Host : BearsOnce(inbox[g], {EthernetOf[g]}, d)
                                  => BearsOnce(inbox'[g], {EthernetOf[g]}, d)
  BY <1>2, <1>5
<1> HIDE DEF f
<1>7. CASE m = n /\ result.datagram = NoDatagram
  <2> HIDE DEF n, m, result
  <2>1. (\A g \in Host : interface'[g] = interface[g]) /\ received' = received
    BY <1>1, <1>2, <1>7 DEF n
  <2>2. ASSUME NEW d, NEW kind, NEW x, NEW g \in Host, Held(d, kind, g, x)'
        PROVE  Held(d, kind, g, x)
    BY <1>6, <2>1, <2>2 DEF Held
  <2>3. \A d \in InternetDatagram : AtOnePlace(d)'
    BY <2>2 DEF UInv, AtOnePlace
  <2>4. \A d \in InternetDatagram : OnceThere(d)'
    BY <1>6, <2>1 DEF UInv, OnceThere
  <2>5. QED
    BY <1>1, <2>1, <2>3, <2>4 DEF UInv
<1>8. CASE /\ f.dst \in {Broadcast, n.ethernet_address_} /\ f.type = "IPv4"
  <2> DEFINE e == f.payload
  <2>1. m = n /\ result.datagram = e
    BY <1>8 DEF RecvFrame
  <2>2. e \in InternetDatagram /\ f.dst = EthernetOf[h]
    <3>1. n.ethernet_address_ = EthernetOf[h]
      BY <1>3, OwnAddresses
    <3>2. e \in InternetDatagram /\ f.dst # Broadcast
      BY <1>4, <1>8, HostAddresses DEF Truthful, EthernetFrame, ARPMessage, Genuine, IsHost
    <3>3. QED
      BY <1>8, <3>1, <3>2
  <2>3. \A d : Carries(f, mine, d) <=> d = e
    BY <1>8, <2>2 DEF Carries
  <2> HIDE DEF n, m, result, e
  <2>4. /\ \A g \in Host : interface'[g] = interface[g]
        /\ received' = received \cup {<<h, e>>}
    BY <1>1, <1>2, <2>1, <2>2, NoDatagramAssumption DEF n
  <2>5. Held(e, "arriving", h, 0)
    BY <1>5, <2>3 DEF Held
  <2>6. ASSUME NEW d, NEW kind, NEW x, NEW g \in Host, Held(d, kind, g, x)'
        PROVE  \/ Held(d, kind, g, x)
               \/ d = e /\ kind = "received" /\ g = h /\ x = 0
    BY <1>6, <2>4, <2>6 DEF Held
  <2>7. ASSUME NEW d, d = e, NEW kind, NEW x, NEW g \in Host, Held(d, kind, g, x)'
        PROVE  kind = "received" /\ g = h /\ x = 0
    <3>1. CASE Held(d, kind, g, x)
      <4>1. AtOnePlace(d) /\ OnceThere(d)
        BY <2>2, <2>7 DEF UInv
      <4>2. kind = "arriving" /\ g = h
        BY <2>5, <2>7, <3>1, <4>1 DEF AtOnePlace
      <4>3. ~Bears(inbox'[h], mine, d)
        BY <1>5, <2>3, <2>7, <4>1 DEF OnceThere
      <4>4. QED
        BY <2>7, <4>2, <4>3 DEF Held
    <3>2. QED
      BY <2>6, <2>7, <3>1
  <2>8. ASSUME NEW d \in InternetDatagram
        PROVE  AtOnePlace(d)'
    <3>1. CASE d = e
      BY <2>7, <3>1 DEF AtOnePlace
    <3>2. CASE d # e
      BY <2>6, <3>2 DEF UInv, AtOnePlace
    <3>3. QED
      BY <3>1, <3>2
  <2>9. \A d \in InternetDatagram : OnceThere(d)'
    BY <1>6, <2>4 DEF UInv, OnceThere
  <2>10. QED
    BY <1>1, <2>4, <2>8, <2>9 DEF UInv
<1>9. CASE m # n
  <2> DEFINE ip == f.payload.sender_ip_address
  <2>1. f.type = "ARP" /\ Learns(n, m, f.payload)
    <3> HIDE DEF n
    <3>1. QED
      BY <1>3, <1>4, <1>9, RecvEffect
  <2>2. result.datagram = NoDatagram
    BY <2>1 DEF RecvFrame
  <2>3. /\ f.payload \in ARPMessage
        /\ Genuine(f.payload.sender_ip_address, f.payload.sender_ethernet_address)
    BY <1>4, <2>1 DEF Truthful, EthernetFrame
  <2> HIDE DEF n, m, result
  <2>4. \A d :
          /\ \A x : Waits(m, x, d) <=> Waits(n, x, d) /\ x # ip
          /\ Bears(m.maybe_send_queue, EthernetAddress, d)
             => Bears(n.maybe_send_queue, EthernetAddress, d) \/ Waits(n, ip, d)
          /\ /\ BearsOnce(n.maybe_send_queue, EthernetAddress, d)
             /\ ~(Bears(n.maybe_send_queue, EthernetAddress, d) /\ Waits(n, ip, d))
             => BearsOnce(m.maybe_send_queue, EthernetAddress, d)
          /\ OneWaits(m)
    BY <1>3, <2>1, <2>3, LearnPlaces
  <2> HIDE DEF ip
  <2>5. received' = received
    BY <1>1, <2>2
  <2>6. ASSUME NEW d, NEW kind, NEW x, NEW g \in Host, Held(d, kind, g, x)'
        PROVE  \/ /\ Held(d, kind, g, x)
                  /\ ~(kind = "waiting" /\ g = h /\ x = ip)
               \/ Waits(n, ip, d) /\ kind = "queued" /\ g = h /\ x = 0
    <3>1. CASE g # h
      BY <1>2, <2>5, <2>6, <3>1 DEF Held
    <3>2. CASE g = h
      BY <1>2, <1>6, <2>4, <2>5, <2>6, <3>2 DEF Held, n
    <3>3. QED
      BY <3>1, <3>2
  <2>7. ASSUME NEW d \in InternetDatagram
        PROVE  AtOnePlace(d)' /\ OnceThere(d)'
    <3>1. AtOnePlace(d) /\ OnceThere(d)
      BY DEF UInv
    <3>2. CASE Waits(n, ip, d)
      <4>1. Held(d, "waiting", h, ip)
        BY <3>2 DEF Held, n
      <4>2. \A kind, x : \A g \in Host :
              Held(d, kind, g, x) => kind = "waiting" /\ g = h /\ x = ip
        BY <3>1, <4>1 DEF AtOnePlace
      <4>3. \A kind, x : \A g \in Host :
              Held(d, kind, g, x)' => kind = "queued" /\ g = h /\ x = 0
        BY <2>6, <4>2
      <4>4. ~Bears(n.maybe_send_queue, EthernetAddress, d)
        <5>1. Bears(n.maybe_send_queue, EthernetAddress, d) => Held(d, "queued", h, 0)
          BY DEF Held, n
        <5>2. QED
          BY <4>2, <5>1
      <4>5. BearsOnce(m.maybe_send_queue, EthernetAddress, d)
        BY <2>4, <3>1, <4>4 DEF OnceThere, n
      <4>6. AtOnePlace(d)'
        BY <4>3 DEF AtOnePlace
      <4>7. OnceThere(d)'
        BY <1>2, <1>6, <3>1, <4>5 DEF OnceThere
      <4>8. QED
        BY <4>6, <4>7
    <3>3. CASE ~Waits(n, ip, d)
      <4>1. BearsOnce(m.maybe_send_queue, EthernetAddress, d)
        BY <2>4, <3>1, <3>3 DEF OnceThere, n
      <4>2. AtOnePlace(d)'
        BY <2>6, <3>1, <3>3 DEF AtOnePlace
      <4>3. OnceThere(d)'
        BY <1>2, <1>6, <3>1, <4>1 DEF OnceThere
      <4>4. QED
        BY <4>2, <4>3
    <3>4. QED
      BY <3>2, <3>3
  <2>8. \A g \in Host : OneWaits(interface'[g])
    BY <1>2, <2>4 DEF UInv
  <2>9. QED
    BY <1>1, <2>7, <2>8 DEF UInv
<1>10. m # n \/ result.datagram = NoDatagram
       \/ (f.dst \in {Broadcast, n.ethernet_address_} /\ f.type = "IPv4")
  BY DEF RecvFrame
<1>11. QED
  BY <1>7, <1>8, <1>9, <1>10

LEMMA NextUInv == IInv /\ UInv /\ [Next]_vars => UInv'
<1> SUFFICES ASSUME IInv, UInv, [Next]_vars PROVE UInv'
  OBVIOUS
<1>1. CASE UNCHANGED vars
  <2>1. /\ interface' = interface /\ inbox' = inbox /\ received' = received
        /\ sent' = sent
    BY <1>1 DEF vars
  <2>2. \A d, kind, x : \A h \in Host : Held(d, kind, h, x)' <=> Held(d, kind, h, x)
    BY <2>1 DEF Held
  <2>3. \A d \in InternetDatagram : AtOnePlace(d)'
    BY <2>2 DEF UInv, AtOnePlace
  <2>4. \A d \in InternetDatagram : OnceThere(d)'
    BY <2>1 DEF UInv, OnceThere
  <2>5. QED
    BY <2>1, <2>3, <2>4 DEF UInv
<1>2. CASE Next
  BY <1>2, SendsDatagramUInv, TransmitsUInv, ReceivesUInv, TicksUInv DEF Next
<1>3. QED
  BY <1>1, <1>2

(* The copies of a datagram, counted. *)
LEMMA FewInSet ==
  ASSUME NEW S, \A x, y \in S : x = y
  PROVE  \/ S = {} /\ Cardinality(S) = 0
         \/ S # {} /\ Cardinality(S) = 1
<1>1. CASE S = {}
  BY <1>1, FS_EmptySet
<1>2. CASE S # {}
  <2>1. PICK x \in S : TRUE
    BY <1>2
  <2>2. S = {x}
    BY <2>1
  <2>3. QED
    BY <2>2, FS_Singleton
<1>3. QED
  BY <1>1, <1>2

LEMMA OneCopy ==
  ASSUME UInv, IInv, NEW d \in InternetDatagram
  PROVE  Copies(d) <= 1
<1> DEFINE W == {p \in Host \X IPAddress : d \in FramesOf(Waiting(p[1], p[2]))}
           Q(h) == Carriers(interface[h].maybe_send_queue, d)
           A(h) == {i \in Carriers(inbox[h], d) : inbox[h][i].dst = EthernetOf[h]}
           QQ == UNION {{h} \X Q(h) : h \in Host}
           AA == UNION {{h} \X A(h) : h \in Host}
           R  == {h \in Host : <<h, d>> \in received}
<1>1. AtOnePlace(d) /\ OnceThere(d)
  BY DEF UInv
<1>2. \A p \in W : p[1] \in Host /\ Held(d, "waiting", p[1], p[2])
  <2>1. FramesOf(<< >>) = {}
    BY DEF FramesOf
  <2>2. QED
    BY <2>1 DEF Waiting, Held, Waits
<1>3. ASSUME NEW h \in Host
      PROVE  /\ Q(h) # {} => Held(d, "queued", h, 0)
             /\ \A i, j \in Q(h) : i = j
  <2> DEFINE q == interface[h].maybe_send_queue
  <2>1. q \in Seq(Truthful(sent))
    BY DEF IInv, Sound
  <2>2. \A i \in Q(h) : i \in 1..Len(q) /\ Carries(q[i], EthernetAddress, d)
    <3>1. ASSUME NEW i \in 1..Len(q)
          PROVE  q[i].type = "IPv4" => q[i].dst \in EthernetAddress
      <4>1. q[i] \in Truthful(sent)
        BY <2>1, ElementOfSeq
      <4>2. QED
        BY <4>1 DEF Truthful, EthernetFrame
    <3>2. QED
      BY <3>1 DEF Carriers, Carries
  <2>3. QED
    BY <1>1, <2>2 DEF Held, Bears, OnceThere, BearsOnce
<1>4. ASSUME NEW h \in Host
      PROVE  /\ A(h) # {} => Held(d, "arriving", h, 0)
             /\ \A i, j \in A(h) : i = j
  <2>1. \A i \in A(h) : i \in 1..Len(inbox[h]) /\ Carries(inbox[h][i], {EthernetOf[h]}, d)
    BY DEF Carriers, Carries
  <2>2. QED
    BY <1>1, <2>1 DEF Held, Bears, OnceThere, BearsOnce
<1>5. \A h \in R : h \in Host /\ Held(d, "received", h, 0)
  BY DEF Held
<1> HIDE DEF Q, A
<1>6. \A x \in QQ : \E h \in Host : Held(d, "queued", h, 0) /\ x \in {h} \X Q(h)
  BY <1>3
<1>7. \A x \in AA : \E h \in Host : Held(d, "arriving", h, 0) /\ x \in {h} \X A(h)
  BY <1>4
<1>8. /\ \A x, y \in W : x = y
      /\ \A x, y \in QQ : x = y
      /\ \A x, y \in AA : x = y
      /\ \A x, y \in R : x = y
  <2>1. \A x, y \in W : x = y
    BY <1>1, <1>2 DEF AtOnePlace
  <2>2. \A x, y \in QQ : x = y
    BY <1>1, <1>3, <1>6 DEF AtOnePlace
  <2>3. \A x, y \in AA : x = y
    BY <1>1, <1>4, <1>7 DEF AtOnePlace
  <2>4. \A x, y \in R : x = y
    BY <1>1, <1>5 DEF AtOnePlace
  <2>5. QED
    BY <2>1, <2>2, <2>3, <2>4
<1>9. /\ W # {} => QQ = {} /\ AA = {} /\ R = {}
      /\ QQ # {} => AA = {} /\ R = {}
      /\ AA # {} => R = {}
  BY <1>1, <1>2, <1>5, <1>6, <1>7 DEF AtOnePlace
<1>10. Copies(d) = Cardinality(W) + Cardinality(QQ) + Cardinality(AA) + Cardinality(R)
  BY DEF Copies, Q, A
<1> HIDE DEF W, QQ, AA, R
<1>11. /\ (W = {} /\ Cardinality(W) = 0) \/ (W # {} /\ Cardinality(W) = 1)
       /\ (QQ = {} /\ Cardinality(QQ) = 0) \/ (QQ # {} /\ Cardinality(QQ) = 1)
       /\ (AA = {} /\ Cardinality(AA) = 0) \/ (AA # {} /\ Cardinality(AA) = 1)
       /\ (R = {} /\ Cardinality(R) = 0) \/ (R # {} /\ Cardinality(R) = 1)
  BY <1>8, FewInSet
<1>12. QED
  BY <1>9, <1>10, <1>11

(* A datagram handed to an interface is never in two places: an answer     *)
(* sends what waits and forgets it in one step, a second answer finds      *)
(* nothing left to send, and no frame reaches two hosts that take it       *)
(* (network_interface.cc:46-80, 88-136).                                   *)
THEOREM NothingDuplicated == Spec => []SentOnce
<1>1. IInv /\ UInv => SentOnce
  BY OneCopy DEF SentOnce, UInv
<1>2. Spec => [](IInv /\ UInv)
  BY InitIInv, NextIInv, InitUInv, NextUInv, PTL DEF Spec
<1>3. QED
  BY <1>1, <1>2, PTL

=============================================================================
