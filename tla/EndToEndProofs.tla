--------------------------- MODULE EndToEndProofs ---------------------------
(***************************************************************************)
(* EndToEndSpec keeps FollowsRoutes, for every number and content of       *)
(* routes, segments and addresses.                                         *)
(***************************************************************************)
EXTENDS EndToEndSpec, SequenceTheorems, FiniteSetTheorems, TLAPS

(* What is there to be forwarded.  `to' holds, for each host, the addresses *)
(* it sends to: none as long as it listens.                                *)
Address == [ip : IPAddress, port : Nat]

Segment == UNION {ToSet(Outgoing[h]) : h \in Host}

Datagram == [src : Address, dst : Address, segment : Segment, ttl : 1..DefaultTtl]

\* The datagrams that a device with the Ethernet address src may send to next.
OnTheWay(src, next, to) ==
  {d \in Datagram : /\ \E h \in Host : d.src = HostIp[h] /\ d.dst \in to[h]
                    /\ OnItsLeg(d, src, next)}

DataFrame(to) ==
  {f \in [src : EthernetAddress, dst : EthernetAddress, type : {"IPv4"}, payload : Datagram] :
     \E ip \in IPAddress : Owns(ip, f.dst) /\ f.payload \in OnTheWay(f.src, ip, to)}

ArpFrame ==
  {f \in [src : EthernetAddress, dst : EthernetAddress, type : {"ARP"}, payload : ARPMessage] :
     Owns(f.payload.sender_ip_address, f.payload.sender_ethernet_address)}

Frame(to) == DataFrame(to) \cup ArpFrame

-----------------------------------------------------------------------------
(* What every state is like. *)

HasFields(r, fields) == fields \subseteq DOMAIN r

InterfaceFields ==
  {"ethernet_address_", "ip_address_", "maybe_send_queue",
   "ip_addr_to_ethernet_datagram_queue", "ip_addr_to_ethernet_addr"}

\* What an interface has learned is true; of each queue one datagram is left.
GoodInterface(n, ethernet, ip, to) ==
  /\ HasFields(n, InterfaceFields)
  /\ n.ethernet_address_ = ethernet /\ n.ip_address_ = ip
  /\ n.maybe_send_queue \in Seq(Frame(to))
  /\ \A i \in Known(n) :
       /\ i \in IPAddress
       /\ n.ip_addr_to_ethernet_addr[i] \in [address : EthernetAddress, age : Nat]
       /\ Owns(i, n.ip_addr_to_ethernet_addr[i].address)
  /\ \A i \in Asked(n) :
       /\ i \in IPAddress
       /\ n.ip_addr_to_ethernet_datagram_queue[i] \in
            [datagrams : Seq(OnTheWay(ethernet, i, to)), age : Nat]
       /\ Len(n.ip_addr_to_ethernet_datagram_queue[i].datagrams) = 1

Table(g) ==
  [i \in DOMAIN Routes[g] |->
     [mask |-> Mask(Routes[g][i].length), route_prefix_ |-> Routes[g][i].prefix,
      prefix_length_ |-> Routes[g][i].length, next_hop_ |-> Routes[g][i].next_hop,
      interface_num_ |-> Routes[g][i].interface_num]]

GoodRouter(r, g, to) ==
  /\ HasFields(r, {"interfaces_", "route_table_"})
  /\ r.route_table_ = Table(g)
  /\ r.interfaces_ = <<r.interfaces_[1], r.interfaces_[2]>>
  /\ \A s \in Sides :
       /\ GoodInterface(r.interfaces_[s], RouterEthernet[g][s], RouterIp[g][s], to)
       /\ "datagrams_in_" \in DOMAIN r.interfaces_[s]

ThreadQueues == {"router_to_host", "router_to_internet", "from_host", "from_internet",
                 "to_host", "to_internet"}

FrameRules == <<FromHost, ToHost, ToInternet, FromInternet>>

GoodThread(x, g, to) ==
  /\ HasFields(x, {"router", "host_side", "internet_side", "frame_rules"} \cup ThreadQueues)
  /\ GoodRouter(x.router, g, to)
  /\ \A s \in Sides : x.router.interfaces_[s].datagrams_in_ = << >>
  /\ x.host_side = HostSide /\ x.internet_side = InternetSide
  /\ x.frame_rules = FrameRules
  /\ \A q \in ThreadQueues : x[q] \in Seq(Frame(to))

\* The connection of a host's adapter.
Tcp(h) ==
  IF h = Client THEN {NewAdapter(HostIp[h], destination) : destination \in Destinations}
  ELSE {SetListening(NewAdapter(HostIp[h], [ip |-> 0, port |-> 0]), TRUE),
        NewAdapter(HostIp[h], HostIp[Client])}

GoodAdapter(a, h, to) ==
  /\ HasFields(a, {"interface", "next_hop", "tcp", "written"})
  /\ GoodInterface(a.interface, HostEthernet[h], HostIp[h].ip, to)
  /\ a.next_hop = RouterIp[h][HostSide]
  /\ a.tcp \in Tcp(h)
  /\ a.written \in Seq(Frame(to))

\* The places at which a segment can be.
Carried(q, seg) ==
  Cardinality({i \in DOMAIN q : q[i].type = "IPv4" /\ q[i].payload.segment = seg})

Kept(n, seg) ==
  Cardinality({i \in Asked(n) :
                 n.ip_addr_to_ethernet_datagram_queue[i].datagrams[1].segment = seg})

AtInterface(n, seg) == Carried(n.maybe_send_queue, seg) + Kept(n, seg)

AtRouter(r, seg) == AtInterface(r.interfaces_[1], seg) + AtInterface(r.interfaces_[2], seg)

AtThread(x, seg) ==
  Carried(x.from_host, seg) + Carried(x.to_host, seg) + Carried(x.from_internet, seg)
  + Carried(x.router_to_host, seg) + Carried(x.router_to_internet, seg)
  + Carried(x.to_internet, seg) + AtRouter(x.router, seg)

Returned(q, seg) == Cardinality({i \in DOMAIN q : q[i] = seg})

\* Where a host's own devices and its thread have it.
AtHost(a, x, q, seg) == AtInterface(a.interface, seg) + AtThread(x, seg) + Returned(q, seg)

Everywhere(seg) ==
  AtHost(adapter[Client], thread[Client], received[Client], seg)
  + AtHost(adapter[Other(Client)], thread[Other(Client)], received[Other(Client)], seg)

Targets == [h \in Host |-> IF adapter[h].tcp.listening THEN {} ELSE {adapter[h].tcp.destination}]

Inv ==
  /\ DOMAIN adapter = Host /\ DOMAIN thread = Host
  /\ sent \in [Host -> Nat] /\ received \in [Host -> Seq(Segment)]
  /\ \A h \in Host : sent[h] <= Len(Outgoing[h])
  /\ \A h \in Host : /\ GoodAdapter(adapter[h], h, Targets)
                     /\ adapter[h].written = << >>
                     /\ adapter[h].interface.maybe_send_queue = << >>
  /\ \A h \in Host : /\ GoodThread(thread[h], h, Targets)
                     /\ thread[h].to_internet = << >>
                     /\ \A s \in Sides :
                          thread[h].router.interfaces_[s].maybe_send_queue = << >>
  /\ \A h \in Host : received[h] # << >> => HostIp[h] \in Targets[Other(h)]
  /\ \A h \in Host : \A i \in DOMAIN Outgoing[h] :
       Everywhere(Outgoing[h][i]) <= IF i <= sent[h] THEN 1 ELSE 0


-----------------------------------------------------------------------------
(* A set of natural numbers that is not empty has a smallest element. *)
LEMMA LeastNumber ==
  ASSUME NEW T \in SUBSET Nat, T # {}
  PROVE  \E m \in T : \A k \in T : m <= k
<1> DEFINE X == {0..k - 1 : k \in T}
<1>1. X \subseteq FiniteSubsetsOf(Nat)
  <2>1. ASSUME NEW k \in T
        PROVE  0..k - 1 \in FiniteSubsetsOf(Nat)
    <3>1. k \in Nat /\ k - 1 \in Int
      OBVIOUS
    <3>2. IsFiniteSet(0..k - 1)
      BY <3>1, FS_Interval
    <3>3. QED
      BY <3>1, <3>2 DEF FiniteSubsetsOf
  <2>2. QED
    BY <2>1
<1>2. X # {}
  OBVIOUS
<1>3. IsWellFoundedOn(StrictSubsetOrdering(Nat), FiniteSubsetsOf(Nat))
  BY FS_StrictSubsetOrderingWellFounded
<1>4. PICK x \in X : \A y \in X : ~(<<y, x>> \in StrictSubsetOrdering(Nat))
  <2> HIDE DEF X
  <2>1. QED
    BY <1>1, <1>2, <1>3, WFMin
<1>5. PICK m \in T : x = 0..m - 1
  OBVIOUS
<1>6. ASSUME NEW k \in T, k < m
      PROVE  FALSE
  <2>1. k \in Nat /\ m \in Nat
    OBVIOUS
  <2>2. 0..k - 1 \subseteq 0..m - 1 /\ k \in 0..m - 1 /\ k \notin 0..k - 1
    BY <1>6, <2>1
  <2>3. <<0..k - 1, 0..m - 1>> \in StrictSubsetOrdering(Nat)
    BY <2>1, <2>2 DEF StrictSubsetOrdering
  <2>4. QED
    BY <1>4, <1>5, <2>3
<1>7. QED
  BY <1>6

(* Induction: a set of numbers from 0 to n that holds 0 and with each but  *)
(* the last the next one holds all.                                        *)
LEMMA UpTo ==
  ASSUME NEW n \in Nat, NEW T, 0 \in T,
         \A k \in 0..n - 1 : k \in T => k + 1 \in T
  PROVE  \A k \in 0..n : k \in T
<1> DEFINE Missing == {k \in Nat : k <= n /\ k \notin T}
<1>1. CASE Missing = {}
  BY <1>1
<1>2. CASE Missing # {}
  <2>1. PICK m \in Missing : \A k \in Missing : m <= k
    <3>1. Missing \in SUBSET Nat
      OBVIOUS
    <3> HIDE DEF Missing
    <3>2. QED
      BY <1>2, <3>1, LeastNumber
  <2>2. m \in Nat /\ m <= n /\ m \notin T /\ m # 0
    OBVIOUS
  <2>3. m - 1 \in 0..n - 1 /\ m - 1 \notin Missing /\ (m - 1) + 1 = m
    BY <2>1, <2>2
  <2>4. m - 1 \in T
    BY <2>2, <2>3
  <2>5. QED
    BY <2>2, <2>3, <2>4
<1>3. QED
  BY <1>1, <1>2

(* A function defined from 0 to n by its value before. *)
Recurs(f, n, S, base, step) == /\ f \in [0..n -> S]
                               /\ f[0] = base
                               /\ \A k \in 1..n : f[k] = step[f[k - 1]]

LEMMA Recursion ==
  ASSUME NEW n \in Nat, NEW S, NEW base \in S, NEW step \in [S -> S]
  PROVE  \E f : Recurs(f, n, S, base, step)
<1> DEFINE Is(f, m) == /\ f \in [0..m -> S]
                       /\ f[0] = base
                       /\ \A k \in 1..m : f[k] = step[f[k - 1]]
           T == {m \in 0..n : \E f : Is(f, m)}
<1>1. 0 \in T
  <2> DEFINE f == [k \in 0..0 |-> base]
  <2>1. \A k \in 0..0 : k = 0
    OBVIOUS
  <2>2. Is(f, 0)
    BY <2>1
  <2>3. 0 \in 0..n
    OBVIOUS
  <2> HIDE DEF f
  <2>4. QED
    BY <2>2, <2>3
<1>2. ASSUME NEW m \in 0..n - 1, m \in T
      PROVE  m + 1 \in T
  <2>1. PICK f : Is(f, m)
    BY <1>2
  <2> DEFINE g == [k \in 0..m + 1 |-> IF k = m + 1 THEN step[f[m]] ELSE f[k]]
  <2>2. m \in Nat /\ \A k \in 0..m + 1 : k = m + 1 \/ k \in 0..m
    OBVIOUS
  <2>3. g \in [0..m + 1 -> S] /\ g[0] = base
    BY <2>1, <2>2
  <2>4. ASSUME NEW k \in 1..m + 1
        PROVE  g[k] = step[g[k - 1]]
    <3>1. k - 1 \in 0..m /\ k - 1 # m + 1 /\ k \in 0..m + 1
      BY <2>2
    <3>2. g[k - 1] = f[k - 1]
      BY <3>1
    <3>3. CASE k = m + 1
      BY <3>1, <3>2, <3>3
    <3>4. CASE k # m + 1
      <4>1. k \in 1..m /\ g[k] = f[k]
        BY <2>2, <3>1, <3>4
      <4>2. QED
        BY <2>1, <3>2, <4>1
    <3>5. QED
      BY <3>3, <3>4
  <2> HIDE DEF g
  <2>5. QED
    BY <2>2, <2>3, <2>4
<1>3. \A m \in 0..n : m \in T
  <2> HIDE DEF T
  <2>1. QED
    BY <1>1, <1>2, UpTo
<1>4. QED
  BY <1>3 DEF Recurs

-----------------------------------------------------------------------------
(* Counting the elements of sequences. *)
Hits(q, W) == Cardinality({i \in DOMAIN q : q[i] \in W})

LEMMA HitsEmpty ==
  ASSUME NEW W
  PROVE  Hits(<< >>, W) = 0
<1>1. {i \in DOMAIN << >> : << >>[i] \in W} = {}
  OBVIOUS
<1>2. QED
  BY <1>1, FS_EmptySet DEF Hits

LEMMA HitsType ==
  ASSUME NEW U, NEW q \in Seq(U), NEW W
  PROVE  /\ IsFiniteSet({i \in DOMAIN q : q[i] \in W})
         /\ Hits(q, W) \in Nat
<1>1. Len(q) \in Nat /\ DOMAIN q = 1..Len(q)
  OBVIOUS
<1>2. IsFiniteSet(DOMAIN q)
  BY <1>1, FS_Interval
<1>3. {i \in DOMAIN q : q[i] \in W} \in SUBSET DOMAIN q
  OBVIOUS
<1>4. IsFiniteSet({i \in DOMAIN q : q[i] \in W})
  BY <1>2, <1>3, FS_Subset
<1>5. QED
  BY <1>4, FS_CardinalityType DEF Hits

LEMMA HitsOne ==
  ASSUME NEW f, NEW W
  PROVE  Hits(<<f>>, W) = IF f \in W THEN 1 ELSE 0
<1>1. {i \in DOMAIN <<f>> : <<f>>[i] \in W} = IF f \in W THEN {1} ELSE {}
  OBVIOUS
<1>2. QED
  BY <1>1, FS_EmptySet, FS_Singleton DEF Hits

LEMMA HitsConcat ==
  ASSUME NEW U, NEW p \in Seq(U), NEW q \in Seq(U), NEW W
  PROVE  Hits(p \o q, W) = Hits(p, W) + Hits(q, W)
<1> DEFINE P == {i \in DOMAIN p : p[i] \in W}
           Q == {i \in DOMAIN q : q[i] \in W}
           R == {i \in DOMAIN (p \o q) : (p \o q)[i] \in W}
           M == {i + Len(p) : i \in Q}
           f == [i \in Q |-> i + Len(p)]
<1>1. /\ Len(p) \in Nat /\ DOMAIN p = 1..Len(p)
      /\ Len(q) \in Nat /\ DOMAIN q = 1..Len(q)
      /\ p \o q \in Seq(U) /\ Len(p \o q) = Len(p) + Len(q)
      /\ DOMAIN (p \o q) = 1..Len(p) + Len(q)
  OBVIOUS
<1>2. \A i \in 1..Len(p) + Len(q) :
        (p \o q)[i] = IF i <= Len(p) THEN p[i] ELSE q[i - Len(p)]
  BY ConcatProperties
<1>3. R = P \cup M
  <2>1. ASSUME NEW i \in R
        PROVE  i \in P \cup M
    <3>1. i \in 1..Len(p) + Len(q)
      BY <1>1
    <3>2. CASE i <= Len(p)
      BY <1>1, <1>2, <3>1, <3>2
    <3>3. CASE ~(i <= Len(p))
      <4>1. i - Len(p) \in Q /\ i = (i - Len(p)) + Len(p)
        BY <1>1, <1>2, <3>1, <3>3
      <4>2. QED
        BY <4>1
    <3>4. QED
      BY <3>2, <3>3
  <2>2. P \subseteq R
    BY <1>1, <1>2
  <2>3. ASSUME NEW i \in Q
        PROVE  i + Len(p) \in R
    <3>1. /\ i + Len(p) \in 1..Len(p) + Len(q) /\ ~(i + Len(p) <= Len(p))
          /\ (i + Len(p)) - Len(p) = i
      BY <1>1
    <3>2. QED
      BY <1>1, <1>2, <3>1
  <2>4. QED
    BY <2>1, <2>2, <2>3
<1>4. P \cap M = {}
  BY <1>1
<1>5. /\ IsFiniteSet(P) /\ IsFiniteSet(Q)
      /\ Cardinality(P) \in Nat /\ Cardinality(Q) \in Nat
  BY HitsType DEF Hits
<1>6. IsFiniteSet(M) /\ Cardinality(M) = Cardinality(Q)
  <2>1. f \in [Q -> M] /\ \A i, j \in Q : f[i] = f[j] => i = j
    BY <1>1
  <2>2. \A m \in M : \E i \in Q : f[i] = m
    OBVIOUS
  <2>3. f \in Bijection(Q, M)
    BY <2>1, <2>2 DEF Bijection, Injection, Surjection, IsInjective
  <2>4. ExistsBijection(Q, M)
    BY <2>3 DEF ExistsBijection
  <2> HIDE DEF Q, M
  <2>5. QED
    BY <1>5, <2>4, FS_Bijection
<1>7. Cardinality(P \cup M) = Cardinality(P) + Cardinality(Q)
  <2> HIDE DEF P, Q, M
  <2>1. Cardinality(P \cap M) = 0
    BY <1>4, FS_EmptySet
  <2>2. Cardinality(P \cup M) = Cardinality(P) + Cardinality(M) - Cardinality(P \cap M)
    BY <1>5, <1>6, FS_Union
  <2>3. QED
    BY <1>5, <1>6, <2>1, <2>2
<1>8. QED
  BY <1>3, <1>7 DEF Hits

-----------------------------------------------------------------------------
(* Addresses are numbers of AddressBits bits. *)
LEMMA TwoToStep ==
  /\ TwoTo[0] = 1
  /\ \A n \in 0..AddressBits - 1 : TwoTo[n + 1] = 2 * TwoTo[n]
  /\ \A n \in 0..AddressBits : TwoTo[n] \in Nat \ {0}
<1> DEFINE step == [x \in Nat \ {0} |-> 2 * x]
<1>0. AddressBits \in Nat
  BY AddressBitsAssumption
<1>1. step \in [Nat \ {0} -> Nat \ {0}]
  OBVIOUS
<1>2. PICK f : Recurs(f, AddressBits, Nat \ {0}, 1, step)
  <2> DEFINE S   == Nat \ {0}
             one == 1
  <2>1. one \in S /\ step \in [S -> S]
    BY <1>1
  <2> HIDE DEF step, S, one
  <2>2. \E f : Recurs(f, AddressBits, S, one, step)
    BY <1>0, <2>1, Recursion
  <2>3. QED
    BY <2>2 DEF S, one
<1>3. f = [k \in 0..AddressBits |-> IF k = 0 THEN 1 ELSE 2 * f[k - 1]]
  <2>1. ASSUME NEW k \in 0..AddressBits, k # 0
        PROVE  f[k] = 2 * f[k - 1]
    <3>1. k - 1 \in 0..AddressBits /\ k \in 1..AddressBits
      BY <1>0, <2>1
    <3>2. QED
      BY <1>2, <3>1 DEF Recurs
  <2>2. f = [k \in 0..AddressBits |-> f[k]] /\ f[0] = 1
    BY <1>2 DEF Recurs
  <2> HIDE DEF step
  <2>3. QED
    BY <2>1, <2>2
<1>4. TwoTo = [k \in 0..AddressBits |-> IF k = 0 THEN 1 ELSE 2 * TwoTo[k - 1]]
  BY <1>3 DEF TwoTo
<1>5. TwoTo[0] = 1
  BY <1>0, <1>4
<1>6. \A n \in 0..AddressBits - 1 : TwoTo[n + 1] = 2 * TwoTo[n]
  <2>1. ASSUME NEW n \in 0..AddressBits - 1
        PROVE  TwoTo[n + 1] = 2 * TwoTo[n]
    <3>1. n + 1 \in 0..AddressBits /\ n + 1 # 0 /\ (n + 1) - 1 = n
      BY <1>0
    <3>2. QED
      BY <1>4, <3>1
  <2>2. QED
    BY <2>1
<1>7. \A n \in 0..AddressBits : TwoTo[n] \in Nat \ {0}
  <2> DEFINE T == {n \in 0..AddressBits : TwoTo[n] \in Nat \ {0}}
  <2>1. 0 \in T
    BY <1>0, <1>5
  <2>2. ASSUME NEW n \in 0..AddressBits - 1, n \in T
        PROVE  n + 1 \in T
    <3>1. TwoTo[n] \in Nat \ {0} /\ TwoTo[n + 1] = 2 * TwoTo[n]
      BY <1>6, <2>2
    <3>2. n + 1 \in 0..AddressBits
      BY <1>0
    <3>3. QED
      BY <3>1, <3>2
  <2> HIDE DEF T
  <2>3. \A n \in 0..AddressBits : n \in T
    BY <1>0, <2>1, <2>2, UpTo
  <2>4. QED
    BY <2>3 DEF T
<1>8. QED
  BY <1>5, <1>6, <1>7

LEMMA Division ==
  ASSUME NEW x \in Nat, NEW m \in Nat \ {0}
  PROVE  /\ x \div m \in Nat /\ x % m \in 0..m - 1
         /\ x = m * (x \div m) + (x % m)
OBVIOUS

LEMMA Quotient ==
  ASSUME NEW m \in Nat \ {0}, NEW a \in Nat, NEW b \in Nat,
         NEW r \in 0..m - 1, NEW s \in 0..m - 1, m * a + r = m * b + s
  PROVE  a = b
<1>1. m * a \in Nat /\ m * b \in Nat
  OBVIOUS
<1>2. CASE a < b
  <2>1. b = a + (b - a) /\ b - a \in Nat /\ b - a >= 1
    BY <1>2
  <2>2. m * b = m * a + m * (b - a) /\ m * (b - a) >= m
    BY <2>1
  <2>3. QED
    BY <1>1, <2>2
<1>3. CASE b < a
  <2>1. a = b + (a - b) /\ a - b \in Nat /\ a - b >= 1
    BY <1>3
  <2>2. m * a = m * b + m * (a - b) /\ m * (a - b) >= m
    BY <2>1
  <2>3. QED
    BY <1>1, <2>2
<1>4. QED
  BY <1>2, <1>3

(* The quotient by half the divisor has one bit more. *)
LEMMA Halved ==
  ASSUME NEW x \in Nat, NEW m \in Nat \ {0}
  PROVE  x \div m = 2 * (x \div (2 * m)) + ((x \div m) % 2)
<1> DEFINE q == x \div m
           r == x % m
           p == x \div (2 * m)
           s == x % (2 * m)
<1>1. q \in Nat /\ r \in 0..m - 1 /\ x = m * q + r
  BY Division
<1>2. p \in Nat /\ s \in 0..2 * m - 1 /\ x = (2 * m) * p + s
  <2>1. 2 * m \in Nat \ {0}
    OBVIOUS
  <2>2. QED
    BY <2>1, Division
<1> HIDE DEF q, r, p, s
<1>3. (2 * m) * p = m * (2 * p) /\ m * (2 * p + 1) = m * (2 * p) + m
  BY <1>2
<1>4. CASE s < m
  <2>1. m * q + r = m * (2 * p) + s /\ s \in 0..m - 1 /\ 2 * p \in Nat
    BY <1>1, <1>2, <1>3, <1>4
  <2>2. q = 2 * p
    BY <1>1, <2>1, Quotient
  <2>3. QED
    BY <1>2, <2>2 DEF q, p
<1>5. CASE ~(s < m)
  <2>1. /\ s - m \in 0..m - 1 /\ 2 * p + 1 \in Nat
        /\ m * q + r = m * (2 * p + 1) + (s - m)
    BY <1>1, <1>2, <1>3, <1>5
  <2>2. q = 2 * p + 1
    BY <1>1, <2>1, Quotient
  <2>3. QED
    BY <1>2, <2>2 DEF q, p
<1>6. QED
  BY <1>4, <1>5

(* Two addresses agree in their first bits if they agree without the rest. *)
LEMMA SameBits ==
  ASSUME NEW x \in IPAddress, NEW y \in IPAddress, NEW n \in 0..AddressBits
  PROVE  (\A i \in 1..n : Bit(x, i) = Bit(y, i))
           <=> x \div TwoTo[AddressBits - n] = y \div TwoTo[AddressBits - n]
<1> DEFINE Same(k) == \A i \in 1..k : Bit(x, i) = Bit(y, i)
           T == {k \in 0..AddressBits :
                   Same(k) <=> x \div TwoTo[AddressBits - k] = y \div TwoTo[AddressBits - k]}
<1>1. /\ AddressBits \in Nat /\ x \in Nat /\ y \in Nat
      /\ x < TwoTo[AddressBits] /\ y < TwoTo[AddressBits]
      /\ TwoTo[AddressBits] \in Nat \ {0}
  <2>1. AddressBits \in Nat /\ IPAddress = 0..TwoTo[AddressBits] - 1
    BY AddressBitsAssumption DEF AddressSpace
  <2>2. TwoTo[AddressBits] \in Nat \ {0}
    BY <2>1, TwoToStep
  <2>3. QED
    BY <2>1, <2>2
<1>2. 0 \in T
  <2>1. ASSUME NEW z \in Nat, z < TwoTo[AddressBits]
        PROVE  z \div TwoTo[AddressBits] = 0
    <3> DEFINE m == TwoTo[AddressBits]
    <3>1. m \in Nat \ {0} /\ z < m
      BY <1>1, <2>1
    <3> HIDE DEF m
    <3>2. /\ z \div m \in Nat /\ z % m \in 0..m - 1 /\ z = m * (z \div m) + (z % m)
      BY <3>1, Division
    <3>3. m * 0 + z = m * (z \div m) + (z % m) /\ z \in 0..m - 1
      BY <3>1, <3>2
    <3>4. 0 = z \div m
      BY <3>1, <3>2, <3>3, Quotient
    <3>5. QED
      BY <3>4 DEF m
  <2>2. AddressBits - 0 = AddressBits /\ 0 \in 0..AddressBits
    BY <1>1
  <2>3. x \div TwoTo[AddressBits] = y \div TwoTo[AddressBits]
    BY <1>1, <2>1
  <2>4. Same(0)
    OBVIOUS
  <2>5. QED
    BY <2>2, <2>3, <2>4
<1>3. ASSUME NEW k \in 0..AddressBits - 1, k \in T
      PROVE  k + 1 \in T
  <2> DEFINE m == TwoTo[AddressBits - (k + 1)]
  <2>1. /\ AddressBits - (k + 1) \in 0..AddressBits - 1 /\ k + 1 \in 0..AddressBits
        /\ (AddressBits - (k + 1)) + 1 = AddressBits - k
        /\ k \in Nat
    BY <1>1
  <2>2. m \in Nat \ {0} /\ TwoTo[AddressBits - k] = 2 * m
    <3>1. AddressBits - (k + 1) \in 0..AddressBits
      BY <1>1
    <3>2. QED
      BY <2>1, <3>1, TwoToStep
  <2>3. Bit(x, k + 1) = (x \div m) % 2 /\ Bit(y, k + 1) = (y \div m) % 2
    BY DEF Bit
  <2>4. Same(k + 1) <=> Same(k) /\ Bit(x, k + 1) = Bit(y, k + 1)
    <3>1. \A i \in 1..k + 1 : i \in 1..k \/ i = k + 1
      BY <2>1
    <3>2. k + 1 \in 1..k + 1 /\ \A i \in 1..k : i \in 1..k + 1
      BY <2>1
    <3>3. QED
      BY <3>1, <3>2
  <2>5. Same(k) <=> x \div (2 * m) = y \div (2 * m)
    BY <1>3, <2>2
  <2> HIDE DEF m, Same
  <2>6. /\ x \div m = 2 * (x \div (2 * m)) + ((x \div m) % 2)
        /\ y \div m = 2 * (y \div (2 * m)) + ((y \div m) % 2)
    BY <1>1, <2>2, Halved
  <2>7. /\ x \div (2 * m) \in Nat /\ y \div (2 * m) \in Nat
        /\ x \div m \in Nat /\ y \div m \in Nat
    <3>1. 2 * m \in Nat \ {0}
      BY <2>2
    <3>2. QED
      BY <1>1, <2>2, <3>1, Division
  <2>8. (x \div m = y \div m)
          <=> x \div (2 * m) = y \div (2 * m) /\ (x \div m) % 2 = (y \div m) % 2
    <3> DEFINE qx == x \div m
               qy == y \div m
               px == x \div (2 * m)
               py == y \div (2 * m)
    <3>1. qx = 2 * px + (qx % 2) /\ qy = 2 * py + (qy % 2)
      BY <2>6
    <3>2. qx \in Nat /\ qy \in Nat /\ px \in Nat /\ py \in Nat
      BY <2>7
    <3> HIDE DEF qx, qy, px, py
    <3>3. qx = qy <=> px = py /\ qx % 2 = qy % 2
      BY <3>1, <3>2
    <3>4. QED
      BY <3>3 DEF qx, qy, px, py
  <2>9. Same(k + 1) <=> x \div m = y \div m
    BY <2>3, <2>4, <2>5, <2>8
  <2>10. QED
    BY <2>1, <2>9 DEF m
<1> HIDE DEF T
<1>4. \A k \in 0..AddressBits : k \in T
  BY <1>1, <1>2, <1>3, UpTo
<1>5. QED
  BY <1>4 DEF T

(* A route of the table matches an address if its prefix does, bit by bit. *)
LEMMA MatchesPrefix ==
  ASSUME NEW g \in Host, NEW i \in DOMAIN Routes[g], NEW ip \in IPAddress
  PROVE  Matches(Table(g)[i], ip) <=> AppliesTo(Routes[g][i], ip)
<1> DEFINE route == Routes[g][i]
           m     == TwoTo[AddressBits - route.length]
<1>1. /\ route.prefix \in IPAddress /\ route.length \in 0..AddressBits
      /\ route.prefix % m = 0
  <2>1. /\ Routes[g] \in Seq([prefix : IPAddress, length : 0..AddressBits,
                              next_hop : IPAddress \cup {Direct}, interface_num : Sides])
        /\ \A r \in ToSet(Routes[g]) : r.prefix % TwoTo[AddressBits - r.length] = 0
    BY RoutesAssumption
  <2>2. route \in ToSet(Routes[g])
    BY DEF ToSet
  <2>3. route \in [prefix : IPAddress, length : 0..AddressBits,
                  next_hop : IPAddress \cup {Direct}, interface_num : Sides]
    <3> DEFINE R == [prefix : IPAddress, length : 0..AddressBits,
                     next_hop : IPAddress \cup {Direct}, interface_num : Sides]
    <3>1. Routes[g] \in Seq(R)
      BY <2>1
    <3> HIDE DEF R
    <3>2. Routes[g][i] \in R
      BY <3>1
    <3>3. QED
      BY <3>2 DEF R
  <2> HIDE DEF route
  <2>4. QED
    BY <2>1, <2>2, <2>3
<1>2. Table(g)[i].mask = Mask(route.length) /\ Table(g)[i].route_prefix_ = route.prefix
  BY DEF Table
<1>3. /\ AddressBits \in Nat /\ m \in Nat \ {0} /\ AddressSpace - Mask(route.length) = m
      /\ ip \in Nat /\ route.prefix \in Nat
  <2>1. AddressBits \in Nat /\ IPAddress = 0..AddressSpace - 1
    BY AddressBitsAssumption
  <2>2. AddressBits - route.length \in 0..AddressBits /\ AddressBits \in 0..AddressBits
    BY <1>1, <2>1
  <2>3. m \in Nat \ {0} /\ AddressSpace \in Nat
    BY <2>2, TwoToStep DEF AddressSpace
  <2>4. AddressSpace - Mask(route.length) = m
    <3>1. CASE route.length = 0
      <4>1. AddressBits - route.length = AddressBits /\ Mask(route.length) = 0
        BY <2>1, <3>1 DEF Mask
      <4>2. QED
        BY <2>3, <4>1 DEF AddressSpace
    <3>2. CASE route.length # 0
      <4>1. Mask(route.length) = AddressSpace - m
        BY <3>2 DEF Mask
      <4> HIDE DEF m
      <4>2. QED
        BY <2>3, <4>1
    <3>3. QED
      BY <3>1, <3>2
  <2>5. QED
    BY <1>1, <2>1, <2>3, <2>4
<1>4. Matches(Table(g)[i], ip) <=> ip - (ip % m) = route.prefix
  BY <1>2, <1>3 DEF Matches
<1>5. AppliesTo(route, ip) <=> route.prefix \div m = ip \div m
  BY <1>1, SameBits DEF AppliesTo
<1> HIDE DEF m, route
<1>6. /\ ip = m * (ip \div m) + (ip % m) /\ ip \div m \in Nat /\ ip % m \in 0..m - 1
      /\ route.prefix = m * (route.prefix \div m) + (route.prefix % m)
      /\ route.prefix \div m \in Nat
  BY <1>3, Division
<1>7. ip - (ip % m) = m * (ip \div m) /\ route.prefix = m * (route.prefix \div m)
  <2>1. m * (ip \div m) \in Nat /\ m * (route.prefix \div m) \in Nat
    BY <1>3, <1>6
  <2>2. QED
    BY <1>1, <1>6, <2>1 DEF m, route
<1>8. m * (ip \div m) = m * (route.prefix \div m) <=> ip \div m = route.prefix \div m
  <2>1. ASSUME m * (ip \div m) = m * (route.prefix \div m)
        PROVE  ip \div m = route.prefix \div m
    <3>1. 0 \in 0..m - 1 /\ m * (ip \div m) + 0 = m * (route.prefix \div m) + 0
      BY <1>3, <1>6, <2>1
    <3>2. QED
      BY <1>3, <1>6, <3>1, Quotient, ZenonT(60)
  <2>2. QED
    BY <2>1
<1>9. QED
  BY <1>4, <1>5, <1>7, <1>8 DEF route

-----------------------------------------------------------------------------
(* Folds.  The library's FoldLeft chooses a function on the sets of        *)
(* indexes; it has to be shown that there is one.                          *)
LEMMA MaxOf ==
  ASSUME NEW n \in Nat, NEW s \in SUBSET (1..n), s # {}
  PROVE  Max(s) \in s /\ \A i \in s : i <= Max(s)
<1> DEFINE T == {n - i : i \in s}
<1>1. T \in SUBSET Nat /\ T # {}
  <2>1. \A i \in s : i \in 1..n /\ n - i \in Nat
    OBVIOUS
  <2>2. QED
    BY <2>1
<1>2. PICK m \in T : \A k \in T : m <= k
  <2> HIDE DEF T
  <2>1. QED
    BY <1>1, LeastNumber
<1>3. PICK i \in s : m = n - i
  OBVIOUS
<1>4. \A j \in s : i >= j
  <2>1. ASSUME NEW j \in s
        PROVE  i >= j
    <3>1. n - j \in T
      OBVIOUS
    <3>2. m <= n - j
      BY <1>2, <3>1
    <3>3. QED
      BY <1>3, <3>2
  <2>2. QED
    BY <2>1
<1>5. Max(s) \in s /\ \A j \in s : Max(s) >= j
  BY <1>4 DEF Max
<1>6. QED
  BY <1>5

FoldsOver(it, n, S, base, step) ==
  /\ it \in [SUBSET (1..n) -> S]
  /\ it[{}] = base
  /\ \A s \in SUBSET (1..n) :
       s # {} => it[s] = step[<<it[s \ {Max(s)}], Max(s)>>]

LEMMA FoldExists ==
  ASSUME NEW n \in Nat, NEW S, NEW base \in S, NEW step \in [S \X (1..n) -> S]
  PROVE  \E it : FoldsOver(it, n, S, base, step)
<1> DEFINE T == {m \in 0..n : \E it : FoldsOver(it, m, S, base, step)}
<1>1. 0 \in T
  <2> DEFINE it == [s \in SUBSET (1..0) |-> base]
  <2>1. \A s \in SUBSET (1..0) : s = {}
    OBVIOUS
  <2>2. {} \in SUBSET (1..0)
    OBVIOUS
  <2>3. it \in [SUBSET (1..0) -> S] /\ it[{}] = base
    BY <2>2
  <2> HIDE DEF it
  <2>4. FoldsOver(it, 0, S, base, step)
    BY <2>1, <2>3 DEF FoldsOver
  <2>5. 0 \in 0..n
    OBVIOUS
  <2>6. QED
    BY <2>4, <2>5
<1>2. ASSUME NEW m \in 0..n - 1, m \in T
      PROVE  m + 1 \in T
  <2>1. PICK it : FoldsOver(it, m, S, base, step)
    BY <1>2
  <2>2. it \in [SUBSET (1..m) -> S] /\ it[{}] = base
    BY <2>1 DEF FoldsOver
  <2> DEFINE new == [s \in SUBSET (1..m + 1) |->
                       IF m + 1 \in s THEN step[<<it[s \ {m + 1}], m + 1>>] ELSE it[s]]
  <2>3. m \in Nat /\ m + 1 \in 1..n /\ m + 1 \in 0..n
    OBVIOUS
  <2>4. \A s \in SUBSET (1..m + 1) :
          /\ s \ {m + 1} \in SUBSET (1..m)
          /\ m + 1 \notin s => s \in SUBSET (1..m)
    BY <2>3
  <2>5. new \in [SUBSET (1..m + 1) -> S]
    <3>1. ASSUME NEW s \in SUBSET (1..m + 1)
          PROVE  new[s] \in S
      <4>1. CASE m + 1 \in s
        <5>1. it[s \ {m + 1}] \in S
          BY <2>2, <2>4
        <5>2. <<it[s \ {m + 1}], m + 1>> \in S \X (1..n)
          BY <2>3, <5>1
        <5>3. QED
          BY <4>1, <5>2
      <4>2. CASE m + 1 \notin s
        BY <2>2, <2>4, <4>2
      <4>3. QED
        BY <4>1, <4>2
    <3>2. QED
      BY <3>1
  <2>6. new[{}] = base
    BY <2>2
  <2>7. ASSUME NEW s \in SUBSET (1..m + 1), s # {}
        PROVE  new[s] = step[<<new[s \ {Max(s)}], Max(s)>>]
    <3>1. Max(s) \in s /\ \A i \in s : i <= Max(s)
      <4>1. m + 1 \in Nat
        BY <2>3
      <4>2. QED
        BY <2>7, <4>1, MaxOf
    <3>2. s \ {Max(s)} \in SUBSET (1..m + 1)
      OBVIOUS
    <3>3. CASE m + 1 \in s
      <4>1. Max(s) = m + 1
        <5>1. Max(s) \in 1..m + 1 /\ m + 1 <= Max(s)
          BY <3>1, <3>3
        <5>2. QED
          BY <2>3, <5>1
      <4>2. new[s \ {m + 1}] = it[s \ {m + 1}]
        BY <3>2, <4>1
      <4>3. QED
        BY <3>3, <4>1, <4>2
    <3>4. CASE m + 1 \notin s
      <4>1. s \in SUBSET (1..m) /\ m + 1 \notin s \ {Max(s)}
        BY <2>4, <3>4
      <4>2. new[s] = it[s] /\ new[s \ {Max(s)}] = it[s \ {Max(s)}]
        BY <3>2, <3>4, <4>1
      <4>3. it[s] = step[<<it[s \ {Max(s)}], Max(s)>>]
        BY <2>1, <2>7, <4>1 DEF FoldsOver
      <4>4. QED
        BY <4>2, <4>3
    <3>5. QED
      BY <3>3, <3>4
  <2> HIDE DEF new
  <2>8. FoldsOver(new, m + 1, S, base, step)
    BY <2>5, <2>6, <2>7 DEF FoldsOver
  <2>9. QED
    BY <2>3, <2>8
<1>3. \A m \in 0..n : m \in T
  <2> HIDE DEF T
  <2>1. QED
    BY <1>1, <1>2, UpTo
<1>4. QED
  BY <1>3

(* The value of a fold is reached through the values for its first indexes. *)
LEMMA FoldPrefix ==
  ASSUME NEW k \in Nat
  PROVE  /\ 1..0 = {} /\ 1..k + 1 # {} /\ Max(1..k + 1) = k + 1
         /\ (1..k + 1) \ {Max(1..k + 1)} = 1..k
<1>1. 1..k + 1 \in SUBSET (1..k + 1) /\ k + 1 \in 1..k + 1 /\ k + 1 \in Nat
  OBVIOUS
<1>2. Max(1..k + 1) \in 1..k + 1 /\ \A i \in 1..k + 1 : i <= Max(1..k + 1)
  BY <1>1, MaxOf
<1>3. Max(1..k + 1) = k + 1
  BY <1>1, <1>2
<1>4. QED
  BY <1>3

-----------------------------------------------------------------------------
(* The routing table. *)
LEMMA RoutesType ==
  ASSUME NEW g \in Host
  PROVE  /\ Len(Routes[g]) \in Nat /\ DOMAIN Routes[g] = 1..Len(Routes[g])
         /\ \A i \in 1..Len(Routes[g]) :
              /\ Routes[g][i].prefix \in IPAddress
              /\ Routes[g][i].length \in 0..AddressBits
              /\ Routes[g][i].next_hop \in IPAddress \cup {Direct}
              /\ Routes[g][i].interface_num \in Sides
              /\ Routes[g][i] \in ToSet(Routes[g])
<1> DEFINE R == [prefix : IPAddress, length : 0..AddressBits,
                 next_hop : IPAddress \cup {Direct}, interface_num : Sides]
<1>1. Routes[g] \in Seq(R)
  BY RoutesAssumption
<1>2. /\ Len(Routes[g]) \in Nat /\ DOMAIN Routes[g] = 1..Len(Routes[g])
      /\ \A i \in 1..Len(Routes[g]) : Routes[g][i] \in R
  <2> HIDE DEF R
  <2>1. QED
    BY <1>1
<1>3. \A i \in 1..Len(Routes[g]) : Routes[g][i] \in ToSet(Routes[g])
  BY <1>2 DEF ToSet
<1>4. QED
  BY <1>2, <1>3

(* LongestMatch looks at the records one after the other. *)
Better(table, ip, best, k) ==
  IF Matches(table[k], ip) /\ best.prefix_length_ < table[k].prefix_length_
  THEN table[k] ELSE best

LEMMA LongestMatchSteps ==
  ASSUME NEW table, NEW n \in Nat, DOMAIN table = 1..n, NEW ip
  PROVE  \E f : /\ f[0] = NoRoute
                /\ \A k \in 0..n - 1 : f[k + 1] = Better(table, ip, f[k], k + 1)
                /\ LongestMatch(table, ip) = f[n]
<1> DEFINE S     == {NoRoute} \cup {table[k] : k \in 1..n}
           step  == [p \in S \X (1..n) |-> Better(table, ip, p[1], p[2])]
           Is(f) == f = [s \in SUBSET (1..n) |->
                           IF s = {} THEN NoRoute
                           ELSE Better(table, ip, f[s \ {Max(s)}], Max(s))]
           F     == CHOOSE f : Is(f)
<1>1. NoRoute \in S /\ step \in [S \X (1..n) -> S]
  BY DEF Better
<1>2. \E f : Is(f)
  <2>1. PICK it : FoldsOver(it, n, S, NoRoute, step)
    <3> HIDE DEF S, step
    <3>1. QED
      BY <1>1, FoldExists
  <2>2. ASSUME NEW s \in SUBSET (1..n), s # {}
        PROVE  it[s] = Better(table, ip, it[s \ {Max(s)}], Max(s))
    <3>1. Max(s) \in 1..n /\ s \ {Max(s)} \in SUBSET (1..n)
      BY <2>2, MaxOf
    <3>2. it[s \ {Max(s)}] \in S /\ it[s] = step[<<it[s \ {Max(s)}], Max(s)>>]
      BY <2>1, <2>2, <3>1 DEF FoldsOver
    <3>3. QED
      BY <3>1, <3>2
  <2>3. it = [s \in SUBSET (1..n) |-> it[s]] /\ it[{}] = NoRoute
    BY <2>1 DEF FoldsOver
  <2>4. Is(it)
    BY <2>2, <2>3
  <2>5. QED
    BY <2>4
<1>3. Is(F)
  BY <1>2
<1> HIDE DEF F
<1> DEFINE f == [k \in 0..n |-> F[1..k]]
<1>4. f[0] = NoRoute
  <2>1. 1..0 = {} /\ 1..0 \in SUBSET (1..n) /\ 0 \in 0..n
    OBVIOUS
  <2>2. QED
    BY <1>3, <2>1
<1>5. ASSUME NEW k \in 0..n - 1
      PROVE  f[k + 1] = Better(table, ip, f[k], k + 1)
  <2>1. k \in Nat /\ k \in 0..n /\ k + 1 \in 0..n /\ 1..k + 1 \in SUBSET (1..n)
    OBVIOUS
  <2>2. /\ 1..k + 1 # {} /\ Max(1..k + 1) = k + 1
        /\ (1..k + 1) \ {Max(1..k + 1)} = 1..k
    BY <2>1, FoldPrefix
  <2>3. F[1..k + 1] = Better(table, ip, F[1..k], k + 1)
    BY <1>3, <2>1, <2>2
  <2>4. QED
    BY <2>1, <2>3
<1>6. LongestMatch(table, ip) = F[1..n]
  BY DEF LongestMatch, FoldLeft, MapThenFoldSet, Better, F
<1>7. LongestMatch(table, ip) = f[n]
  BY <1>6
<1> HIDE DEF f
<1>8. QED
  BY <1>4, <1>5, <1>7

(* Router::route (router.cc:38-54) chooses the first of the longest routes *)
(* whose prefix, bit by bit, is that of the address, and none only if no   *)
(* route applies.                                                          *)
THEOREM LongestMatchFound ==
  ASSUME NEW g \in Host, NEW ip \in IPAddress
  PROVE  \/ /\ LongestMatch(Table(g), ip) = NoRoute
            /\ BestRoutes(g, ip) = {}
         \/ \E i \in DOMAIN Routes[g] :
              /\ LongestMatch(Table(g), ip) = Table(g)[i]
              /\ Routes[g][i] \in BestRoutes(g, ip)
              /\ \A j \in 1..i - 1 : Routes[g][j] \notin BestRoutes(g, ip)
<1> DEFINE n     == Len(Routes[g])
           T     == Table(g)
           On(j) == AppliesTo(Routes[g][j], ip)
           L(j)  == Routes[g][j].length
           First(i, k) == /\ On(i)
                          /\ \A j \in 1..k : On(j) => L(j) <= L(i)
                          /\ \A j \in 1..i - 1 : On(j) => L(j) < L(i)
<1>1. /\ n \in Nat /\ DOMAIN Routes[g] = 1..n /\ DOMAIN T = 1..n
      /\ \A j \in 1..n : L(j) \in Nat /\ T[j].prefix_length_ = L(j)
  BY RoutesType DEF Table
<1>2. \A j \in 1..n : Matches(T[j], ip) <=> On(j)
  BY <1>1, MatchesPrefix
<1>3. PICK f : /\ f[0] = NoRoute
               /\ \A k \in 0..n - 1 : f[k + 1] = Better(T, ip, f[k], k + 1)
               /\ LongestMatch(T, ip) = f[n]
  <2> HIDE DEF n, T
  <2>1. QED
    BY <1>1, LongestMatchSteps
<1> DEFINE K == {k \in 0..n : \/ f[k] = NoRoute /\ \A j \in 1..k : ~On(j)
                              \/ \E i \in 1..k : f[k] = T[i] /\ First(i, k)}
<1> HIDE DEF n, T, On, L
<1>4. 0 \in K
  BY <1>1, <1>3
<1>5. ASSUME NEW k \in 0..n - 1, k \in K
      PROVE  k + 1 \in K
  <2>1. /\ k \in Nat /\ k + 1 \in 1..n /\ k + 1 \in 0..n
        /\ \A j \in 1..k + 1 : j \in 1..k \/ j = k + 1
        /\ \A j \in 1..k : j \in 1..k + 1 /\ j \in 1..n
    BY <1>1
  <2>2. f[k + 1] = IF On(k + 1) /\ f[k].prefix_length_ < L(k + 1) THEN T[k + 1] ELSE f[k]
    BY <1>1, <1>2, <1>3, <2>1 DEF Better
  <2>3. CASE f[k] = NoRoute /\ \A j \in 1..k : ~On(j)
    <3>1. f[k].prefix_length_ = -1 /\ -1 < L(k + 1)
      BY <1>1, <2>1, <2>3 DEF NoRoute
    <3>2. CASE On(k + 1)
      <4>1. f[k + 1] = T[k + 1]
        BY <2>2, <3>1, <3>2
      <4>2. First(k + 1, k + 1)
        BY <1>1, <2>1, <2>3, <3>2
      <4>3. k + 1 \in 1..k + 1
        BY <2>1
      <4>4. QED
        BY <2>1, <4>1, <4>2, <4>3
    <3>3. CASE ~On(k + 1)
      BY <2>1, <2>2, <2>3, <3>3
    <3>4. QED
      BY <3>2, <3>3
  <2>4. ASSUME NEW i \in 1..k, f[k] = T[i], First(i, k)
        PROVE  k + 1 \in K
    <3>1. /\ f[k].prefix_length_ = L(i) /\ L(i) \in Nat /\ L(k + 1) \in Nat
          /\ \A j \in 1..k : L(j) \in Nat
      BY <1>1, <2>1, <2>4
    <3>2. CASE On(k + 1) /\ L(i) < L(k + 1)
      <4>1. f[k + 1] = T[k + 1] /\ k + 1 \in 1..k + 1
        BY <2>1, <2>2, <3>1, <3>2
      <4>2. \A j \in 1..k : On(j) => L(j) < L(k + 1)
        BY <2>4, <3>1, <3>2
      <4>3. First(k + 1, k + 1)
        BY <2>1, <3>1, <3>2, <4>2
      <4>4. QED
        BY <2>1, <4>1, <4>3
    <3>3. CASE ~(On(k + 1) /\ L(i) < L(k + 1))
      <4>1. f[k + 1] = T[i] /\ i \in 1..k + 1
        BY <2>1, <2>2, <2>4, <3>1, <3>3
      <4>2. First(i, k + 1)
        BY <2>1, <2>4, <3>1, <3>3
      <4>3. QED
        BY <2>1, <4>1, <4>2
    <3>4. QED
      BY <3>2, <3>3
  <2>5. QED
    BY <1>5, <2>3, <2>4
<1>6. n \in K
  <2> HIDE DEF K
  <2>1. n \in Nat
    BY <1>1
  <2>2. \A k \in 0..n : k \in K
    BY <1>4, <1>5, <2>1, UpTo
  <2>3. QED
    BY <2>1, <2>2
<1>7. BestRoutes(g, ip) = {Routes[g][i] : i \in {i \in 1..n : /\ On(i)
                                      /\ \A j \in 1..n : On(j) => L(j) <= L(i)}}
  <2>1. ToSet(Routes[g]) = {Routes[g][i] : i \in 1..n}
    BY <1>1 DEF ToSet
  <2>2. QED
    BY <2>1 DEF BestRoutes, On, L
<1>8. CASE f[n] = NoRoute /\ \A j \in 1..n : ~On(j)
  <2>1. BestRoutes(g, ip) = {}
    BY <1>7, <1>8
  <2>2. QED
    BY <1>3, <1>8, <2>1 DEF T
<1>9. ASSUME NEW i \in 1..n, f[n] = T[i], First(i, n)
      PROVE  \E j \in DOMAIN Routes[g] :
               /\ LongestMatch(T, ip) = T[j]
               /\ Routes[g][j] \in BestRoutes(g, ip)
               /\ \A k \in 1..j - 1 : Routes[g][k] \notin BestRoutes(g, ip)
  <2>1. Routes[g][i] \in BestRoutes(g, ip)
    BY <1>7, <1>9
  <2>2. ASSUME NEW k \in 1..i - 1, Routes[g][k] \in BestRoutes(g, ip)
        PROVE  FALSE
    <3>1. On(k) /\ \A j \in 1..n : On(j) => L(j) <= L(k)
      <4>1. PICK j \in 1..n : /\ Routes[g][k] = Routes[g][j] /\ On(j)
                              /\ \A m \in 1..n : On(m) => L(m) <= L(j)
        BY <1>7, <2>2
      <4>2. On(k) /\ L(k) = L(j)
        BY <4>1 DEF On, L
      <4>3. QED
        BY <4>1, <4>2
    <3>2. L(k) < L(i) /\ L(i) <= L(k)
      BY <1>9, <3>1
    <3>3. k \in 1..n /\ L(k) \in Nat /\ L(i) \in Nat
      BY <1>1
    <3>4. QED
      BY <3>2, <3>3
  <2>3. QED
    BY <1>1, <1>3, <1>9, <2>1, <2>2
<1>10. QED
  BY <1>6, <1>8, <1>9 DEF T

-----------------------------------------------------------------------------
(* The legs of a way are those that follow from the leg before. *)
Onward(g, ip) ==
  {[src  |-> RouterEthernet[g][route.interface_num],
    next |-> IF route.next_hop = Direct THEN ip ELSE route.next_hop]
     : route \in BestRoutes(g, ip)}

FirstLeg(h) == [src |-> HostEthernet[h], next |-> RouterIp[h][HostSide]]

NextLegs(legs, ip) ==
  UNION {Onward(g, ip) : g \in {g \in Host : \E leg \in legs : leg.next \in ToSet(RouterIp[g])}}

LEMMA LegsStep ==
  ASSUME NEW h \in Host, NEW ip
  PROVE  /\ Legs(h, ip)[0] = {FirstLeg(h)}
         /\ \A k \in 1..DefaultTtl : Legs(h, ip)[k] = NextLegs(Legs(h, ip)[k - 1], ip)
<1> DEFINE S     == SUBSET ({FirstLeg(h)} \cup UNION {Onward(g, ip) : g \in Host})
           step  == [legs \in S |-> NextLegs(legs, ip)]
           Is(f) == f = [k \in 0..DefaultTtl |->
                           IF k = 0 THEN {FirstLeg(h)} ELSE NextLegs(f[k - 1], ip)]
           F     == CHOOSE f : Is(f)
<1>1. DefaultTtl \in Nat
  BY TtlAssumption
<1>2. {FirstLeg(h)} \in S
  OBVIOUS
<1>3. step \in [S -> S]
  <2>1. \A legs : NextLegs(legs, ip) \subseteq UNION {Onward(g, ip) : g \in Host}
    BY DEF NextLegs
  <2>2. QED
    BY <2>1
<1>4. PICK f : Recurs(f, DefaultTtl, S, {FirstLeg(h)}, step)
  <2> HIDE DEF S, step
  <2>1. QED
    BY <1>1, <1>2, <1>3, Recursion
<1>5. Is(f)
  <2>1. f \in [0..DefaultTtl -> S] /\ f[0] = {FirstLeg(h)}
    BY <1>4 DEF Recurs
  <2>2. ASSUME NEW k \in 0..DefaultTtl, k # 0
        PROVE  f[k] = NextLegs(f[k - 1], ip)
    <3>1. k \in 1..DefaultTtl /\ k - 1 \in 0..DefaultTtl
      BY <1>1, <2>2
    <3>2. f[k] = step[f[k - 1]] /\ f[k - 1] \in S
      BY <1>4, <2>1, <3>1 DEF Recurs
    <3>3. QED
      BY <3>2
  <2> HIDE DEF S
  <2>3. f = [k \in 0..DefaultTtl |-> f[k]]
    BY <2>1
  <2>4. QED
    BY <2>1, <2>2, <2>3
<1>6. Is(F)
  BY <1>5
<1>7. Legs(h, ip) = F
  BY DEF Legs, NextLegs, Onward, FirstLeg
<1> HIDE DEF F
<1>8. /\ F[0] = {FirstLeg(h)}
      /\ \A k \in 1..DefaultTtl : F[k] = NextLegs(F[k - 1], ip)
  <2>1. 0 \in 0..DefaultTtl /\ \A k \in 1..DefaultTtl : k \in 0..DefaultTtl /\ k # 0
    BY <1>1
  <2>2. \A k \in 0..DefaultTtl :
          F[k] = IF k = 0 THEN {FirstLeg(h)} ELSE NextLegs(F[k - 1], ip)
    BY <1>6
  <2>3. QED
    BY <2>1, <2>2
<1>9. QED
  BY <1>7, <1>8

(* A leg ends at a host only if it is the host the datagram is for. *)
LEMMA LastLeg ==
  ASSUME NEW h \in Host, NEW ip, NEW k \in 0..DefaultTtl,
         NEW leg \in Legs(h, ip)[k], NEW g \in Host, leg.next = HostIp[g].ip
  PROVE  leg.next = ip
<1>1. k \in Nat /\ DefaultTtl \in Nat
  BY TtlAssumption
<1>2. CASE k = 0
  <2>1. leg = FirstLeg(h)
    BY <1>2, LegsStep
  <2>2. leg.next = RouterIp[h][HostSide] /\ HostSide \in Sides
    BY <2>1 DEF FirstLeg, HostSide, Sides
  <2>3. HostIp[g].ip # RouterIp[h][HostSide]
    BY <2>2, IpAssumption
  <2>4. QED
    BY <2>2, <2>3
<1>3. CASE k # 0
  <2>1. leg \in NextLegs(Legs(h, ip)[k - 1], ip)
    <3>1. k \in 1..DefaultTtl
      BY <1>1, <1>3
    <3>2. QED
      BY <3>1, LegsStep
  <2>2. PICK f \in Host : leg \in Onward(f, ip)
    BY <2>1 DEF NextLegs
  <2>3. PICK route \in BestRoutes(f, ip) :
          leg = [src  |-> RouterEthernet[f][route.interface_num],
                 next |-> IF route.next_hop = Direct THEN ip ELSE route.next_hop]
    BY <2>2 DEF Onward
  <2>4. route \in ToSet(Routes[f])
    BY DEF BestRoutes
  <2>5. route.next_hop # HostIp[g].ip
    BY <2>4, RoutesAssumption
  <2>6. QED
    BY <2>3, <2>5
<1>4. QED
  BY <1>2, <1>3

-----------------------------------------------------------------------------
(* Frames that carry a segment. *)
Weight(f, seg) == IF f.type = "IPv4" /\ f.payload.segment = seg THEN 1 ELSE 0

Bearing(U, seg) == {f \in U : f.type = "IPv4" /\ f.payload.segment = seg}

LEMMA CarriedHits ==
  ASSUME NEW U, NEW q \in Seq(U), NEW seg
  PROVE  Carried(q, seg) = Hits(q, Bearing(U, seg))
<1>1. \A i \in DOMAIN q : q[i] \in U
  OBVIOUS
<1>2. QED
  BY <1>1 DEF Carried, Hits, Bearing

LEMMA CarriedType ==
  ASSUME NEW U, NEW q \in Seq(U), NEW seg
  PROVE  Carried(q, seg) \in Nat
BY CarriedHits, HitsType

LEMMA CarriedEmpty ==
  ASSUME NEW seg
  PROVE  Carried(<< >>, seg) = 0
<1>1. << >> \in Seq({})
  OBVIOUS
<1>2. QED
  BY <1>1, CarriedHits, HitsEmpty

LEMMA CarriedConcat ==
  ASSUME NEW U, NEW p \in Seq(U), NEW q \in Seq(U), NEW seg
  PROVE  Carried(p \o q, seg) = Carried(p, seg) + Carried(q, seg)
<1> DEFINE r == p \o q
<1>1. r \in Seq(U)
  OBVIOUS
<1>2. Hits(r, Bearing(U, seg)) = Hits(p, Bearing(U, seg)) + Hits(q, Bearing(U, seg))
  BY HitsConcat
<1> HIDE DEF r
<1>3. /\ Carried(r, seg) = Hits(r, Bearing(U, seg))
      /\ Carried(p, seg) = Hits(p, Bearing(U, seg))
      /\ Carried(q, seg) = Hits(q, Bearing(U, seg))
  BY <1>1, CarriedHits
<1>4. QED
  BY <1>2, <1>3 DEF r

LEMMA CarriedOne ==
  ASSUME NEW f, NEW seg
  PROVE  Carried(<<f>>, seg) = Weight(f, seg)
<1> DEFINE r == <<f>>
           U == {f}
<1>1. r \in Seq(U) /\ f \in U
  OBVIOUS
<1>2. Hits(r, Bearing(U, seg)) = IF f \in Bearing(U, seg) THEN 1 ELSE 0
  BY HitsOne
<1> HIDE DEF r, U
<1>3. Carried(r, seg) = Hits(r, Bearing(U, seg))
  BY <1>1, CarriedHits
<1>4. QED
  BY <1>1, <1>2, <1>3 DEF r, Weight, Bearing

LEMMA CarriedAppend ==
  ASSUME NEW U, NEW q \in Seq(U), NEW f \in U, NEW seg
  PROVE  Carried(Append(q, f), seg) = Carried(q, seg) + Weight(f, seg)
<1> DEFINE r == <<f>>
<1>1. r \in Seq(U) /\ Append(q, f) = q \o r
  BY AppendIsConcat
<1>2. Carried(r, seg) = Weight(f, seg)
  BY CarriedOne
<1> HIDE DEF r
<1>3. Carried(q \o r, seg) = Carried(q, seg) + Carried(r, seg)
  BY <1>1, CarriedConcat
<1>4. QED
  BY <1>1, <1>2, <1>3

LEMMA CarriedTail ==
  ASSUME NEW U, NEW q \in Seq(U), q # << >>, NEW seg
  PROVE  /\ Head(q) \in U /\ Tail(q) \in Seq(U)
         /\ Carried(q, seg) = Weight(Head(q), seg) + Carried(Tail(q), seg)
<1> DEFINE r == <<Head(q)>>
           t == Tail(q)
<1>1. Head(q) \in U /\ t \in Seq(U)
  BY HeadTailProperties
<1>2. r \in Seq(U)
  BY <1>1
<1>3. q = r \o t
  <2>1. Len(q) \in Nat \ {0} /\ Len(t) = Len(q) - 1 /\ \A i \in 1..Len(t) : t[i] = q[i + 1]
    BY HeadTailProperties, EmptySeq
  <2>2. Len(r) = 1 /\ r[1] = q[1]
    OBVIOUS
  <2>3. r \o t \in Seq(U) /\ Len(r \o t) = Len(q)
    BY <1>1, <1>2, <2>1, <2>2
  <2>4. ASSUME NEW i \in 1..Len(q)
        PROVE  (r \o t)[i] = q[i]
    BY <1>1, <1>2, <2>1, <2>2
  <2> HIDE DEF r, t
  <2> DEFINE u == r \o t
  <2> HIDE DEF u
  <2>5. u = q
    BY <2>3, <2>4, SeqEqual DEF u
  <2>6. QED
    BY <2>5 DEF u
<1>4. Carried(r, seg) = Weight(Head(q), seg)
  BY CarriedOne
<1>5. Carried(r \o t, seg) = Carried(r, seg) + Carried(t, seg)
  <2> HIDE DEF r, t
  <2>1. QED
    BY <1>1, <1>2, CarriedConcat
<1>6. QED
  BY <1>1, <1>3, <1>4, <1>5

-----------------------------------------------------------------------------
(* One device of the network. *)
LEMMA OwnsOnce ==
  ASSUME NEW i, NEW j, NEW ethernet, Owns(i, ethernet), Owns(j, ethernet)
  PROVE  /\ i = j /\ i \in IPAddress
         /\ ethernet \in EthernetAddress /\ ethernet # Broadcast
<1>1. ASSUME NEW k, Owns(k, ethernet)
      PROVE  /\ k \in IPAddress /\ ethernet \in EthernetAddress \ {Broadcast}
             /\ \E h \in Host :
                  \/ HostIp[h].ip = k /\ HostEthernet[h] = ethernet
                  \/ \E s \in Sides : RouterIp[h][s] = k /\ RouterEthernet[h][s] = ethernet
  <2>1. PICK h \in Host : \/ HostIp[h].ip = k /\ HostEthernet[h] = ethernet
                          \/ \E s \in Sides : /\ RouterIp[h][s] = k
                                              /\ RouterEthernet[h][s] = ethernet
    BY <1>1 DEF Owns, Sides
  <2>2. CASE HostIp[h].ip = k /\ HostEthernet[h] = ethernet
    BY <2>2, IpAssumption, EthernetAssumption
  <2>3. CASE \E s \in Sides : RouterIp[h][s] = k /\ RouterEthernet[h][s] = ethernet
    BY <2>3, IpAssumption, EthernetAssumption
  <2>4. QED
    BY <2>1, <2>2, <2>3
<1>2. PICK g \in Host : \/ HostIp[g].ip = i /\ HostEthernet[g] = ethernet
                        \/ \E s \in Sides : /\ RouterIp[g][s] = i
                                            /\ RouterEthernet[g][s] = ethernet
  BY <1>1
<1>3. PICK h \in Host : \/ HostIp[h].ip = j /\ HostEthernet[h] = ethernet
                        \/ \E s \in Sides : /\ RouterIp[h][s] = j
                                            /\ RouterEthernet[h][s] = ethernet
  BY <1>1
<1>4. 1 \in Sides
  BY DEF Sides
<1>5. CASE HostIp[g].ip = i /\ HostEthernet[g] = ethernet
  <2>1. \A s \in Sides : RouterEthernet[h][s] # ethernet
    BY <1>5, EthernetAssumption
  <2>2. HostEthernet[g] = HostEthernet[h]
    BY <1>3, <1>5, <2>1
  <2>3. g = h
    BY <1>4, <2>2, EthernetAssumption
  <2>4. QED
    BY <1>1, <1>3, <1>5, <2>1, <2>3
<1>6. CASE \E s \in Sides : RouterIp[g][s] = i /\ RouterEthernet[g][s] = ethernet
  <2>1. PICK s \in Sides : RouterIp[g][s] = i /\ RouterEthernet[g][s] = ethernet
    BY <1>6
  <2>2. HostEthernet[h] # ethernet
    BY <2>1, EthernetAssumption
  <2>3. PICK t \in Sides : RouterIp[h][t] = j /\ RouterEthernet[h][t] = ethernet
    BY <1>3, <2>2
  <2>4. g = h /\ s = t
    BY <2>1, <2>3, EthernetAssumption
  <2>5. QED
    BY <1>1, <2>1, <2>3, <2>4
<1>7. QED
  BY <1>2, <1>5, <1>6

LEMMA AskedFinite ==
  ASSUME NEW s \in SUBSET IPAddress
  PROVE  IsFiniteSet(s) /\ Cardinality(s) \in Nat
<1>1. AddressBits \in Nat /\ IPAddress = 0..AddressSpace - 1
  BY AddressBitsAssumption
<1>2. AddressBits \in 0..AddressBits
  BY <1>1
<1>3. AddressSpace \in Nat
  BY <1>2, TwoToStep DEF AddressSpace
<1>4. IsFiniteSet(IPAddress)
  BY <1>1, <1>3, FS_Interval
<1>5. IsFiniteSet(s)
  BY <1>4, FS_Subset
<1>6. QED
  BY <1>5, FS_CardinalityType

LEMMA KeptType ==
  ASSUME NEW n, NEW ethernet, NEW ip, NEW to, GoodInterface(n, ethernet, ip, to), NEW seg
  PROVE  /\ Kept(n, seg) \in Nat /\ Carried(n.maybe_send_queue, seg) \in Nat
         /\ AtInterface(n, seg) \in Nat
<1>1. {i \in Asked(n) : n.ip_addr_to_ethernet_datagram_queue[i].datagrams[1].segment = seg}
        \in SUBSET IPAddress
  BY DEF GoodInterface
<1>2. Kept(n, seg) \in Nat
  BY <1>1, AskedFinite DEF Kept
<1>3. Carried(n.maybe_send_queue, seg) \in Nat
  BY CarriedType DEF GoodInterface
<1>4. QED
  BY <1>2, <1>3 DEF AtInterface

\* What an operation of an interface leaves alone.
KeepsInput(n, m) == DOMAIN m = DOMAIN n /\ m["datagrams_in_"] = n["datagrams_in_"]

LEMMA QueuedGood ==
  ASSUME NEW n, NEW ethernet, NEW ip, NEW to, GoodInterface(n, ethernet, ip, to),
         NEW f \in Frame(to)
  PROVE  /\ GoodInterface(Queued(n, f), ethernet, ip, to)
         /\ KeepsInput(n, Queued(n, f))
         /\ \A seg : AtInterface(Queued(n, f), seg) = AtInterface(n, seg) + Weight(f, seg)
<1> DEFINE m == Queued(n, f)
<1>1. HasFields(n, InterfaceFields) /\ n.maybe_send_queue \in Seq(Frame(to))
  BY DEF GoodInterface
<1>2. /\ HasFields(m, InterfaceFields) /\ DOMAIN m = DOMAIN n
      /\ m.maybe_send_queue = Append(n.maybe_send_queue, f)
      /\ \A k \in DOMAIN n : k # "maybe_send_queue" => m[k] = n[k]
      /\ m["datagrams_in_"] = n["datagrams_in_"]
      /\ m.ethernet_address_ = n.ethernet_address_ /\ m.ip_address_ = n.ip_address_
      /\ m.ip_addr_to_ethernet_addr = n.ip_addr_to_ethernet_addr
      /\ m.ip_addr_to_ethernet_datagram_queue = n.ip_addr_to_ethernet_datagram_queue
  BY <1>1 DEF Queued, HasFields, InterfaceFields
<1> HIDE DEF m
<1>3. Append(n.maybe_send_queue, f) \in Seq(Frame(to))
  BY <1>1
<1>4. GoodInterface(m, ethernet, ip, to)
  BY <1>2, <1>3 DEF GoodInterface, Known, Asked
<1>5. ASSUME NEW seg
      PROVE  AtInterface(m, seg) = AtInterface(n, seg) + Weight(f, seg)
  <2>1. Carried(m.maybe_send_queue, seg) = Carried(n.maybe_send_queue, seg) + Weight(f, seg)
    BY <1>1, <1>2, CarriedAppend
  <2>2. Kept(m, seg) = Kept(n, seg)
    BY <1>2 DEF Kept, Asked
  <2>3. Kept(n, seg) \in Nat /\ Carried(n.maybe_send_queue, seg) \in Nat
    BY KeptType
  <2>4. Weight(f, seg) \in Nat
    BY DEF Weight
  <2>5. QED
    BY <2>1, <2>2, <2>3, <2>4 DEF AtInterface
<1>6. QED
  BY <1>2, <1>4, <1>5 DEF KeepsInput, m

\* A request or a reply that the device makes itself.
LEMMA ArpQueued ==
  ASSUME NEW n, NEW ethernet, NEW ip, NEW to, GoodInterface(n, ethernet, ip, to),
         Owns(ip, ethernet), NEW dst \in EthernetAddress,
         NEW opcode \in {"REQUEST", "REPLY"},
         NEW target \in EthernetAddress, NEW target_ip \in IPAddress
  PROVE  LET m == Queued(n, MakeFrame(n, dst, "ARP", MakeArp(n, opcode, target, target_ip)))
         IN  /\ GoodInterface(m, ethernet, ip, to) /\ KeepsInput(n, m)
             /\ \A seg : AtInterface(m, seg) = AtInterface(n, seg)
<1> DEFINE f == MakeFrame(n, dst, "ARP", MakeArp(n, opcode, target, target_ip))
<1>1. n.ethernet_address_ = ethernet /\ n.ip_address_ = ip
  BY DEF GoodInterface
<1>2. ethernet \in EthernetAddress /\ ip \in IPAddress
  BY OwnsOnce
<1>3. MakeArp(n, opcode, target, target_ip) \in ARPMessage
  BY <1>1, <1>2 DEF MakeArp, ARPMessage
<1>4. f \in ArpFrame /\ f.type = "ARP"
  BY <1>1, <1>2, <1>3 DEF ArpFrame, MakeFrame, MakeArp
<1>5. f \in Frame(to)
  BY <1>4 DEF Frame
<1>6. \A seg : Weight(f, seg) = 0
  BY <1>4 DEF Weight
<1>7. \A seg : AtInterface(n, seg) \in Nat
  BY KeptType
<1> HIDE DEF f
<1>8. QED
  BY <1>5, <1>6, <1>7, QueuedGood DEF f

LEMMA DataFrameMade ==
  ASSUME NEW n, NEW ethernet, NEW ip, NEW to, GoodInterface(n, ethernet, ip, to),
         Owns(ip, ethernet), NEW next \in IPAddress, NEW dst \in EthernetAddress,
         Owns(next, dst), NEW d \in OnTheWay(ethernet, next, to)
  PROVE  /\ MakeFrame(n, dst, "IPv4", d) \in Frame(to)
         /\ \A seg : Weight(MakeFrame(n, dst, "IPv4", d), seg)
                       = IF d.segment = seg THEN 1 ELSE 0
<1>1. n.ethernet_address_ = ethernet /\ ethernet \in EthernetAddress
  BY OwnsOnce DEF GoodInterface
<1>2. d \in Datagram
  BY DEF OnTheWay
<1>3. MakeFrame(n, dst, "IPv4", d) \in DataFrame(to)
  BY <1>1, <1>2 DEF DataFrame, MakeFrame
<1>4. QED
  BY <1>3 DEF Frame, Weight, MakeFrame

-----------------------------------------------------------------------------
(* What an interface does with a datagram and with a frame. *)
Bears(d, seg) == IF d.segment = seg THEN 1 ELSE 0

LEMMA SentDirectly ==
  ASSUME NEW n, NEW ethernet, NEW ip, NEW to, GoodInterface(n, ethernet, ip, to),
         Owns(ip, ethernet), NEW next \in Known(n), NEW d \in OnTheWay(ethernet, next, to)
  PROVE  LET m == Queued(n, MakeFrame(n, n.ip_addr_to_ethernet_addr[next].address, "IPv4", d))
         IN  /\ GoodInterface(m, ethernet, ip, to) /\ KeepsInput(n, m)
             /\ \A seg : AtInterface(m, seg) = AtInterface(n, seg) + Bears(d, seg)
<1> DEFINE dst == n.ip_addr_to_ethernet_addr[next].address
           f   == MakeFrame(n, dst, "IPv4", d)
<1>1. next \in IPAddress /\ dst \in EthernetAddress /\ Owns(next, dst)
  BY DEF GoodInterface
<1>2. f \in Frame(to) /\ \A seg : Weight(f, seg) = Bears(d, seg)
  <2> HIDE DEF dst
  <2>1. QED
    BY <1>1, DataFrameMade DEF Bears
<1> HIDE DEF f
<1>3. /\ GoodInterface(Queued(n, f), ethernet, ip, to) /\ KeepsInput(n, Queued(n, f))
      /\ \A seg : AtInterface(Queued(n, f), seg) = AtInterface(n, seg) + Weight(f, seg)
  BY <1>2, QueuedGood
<1>4. QED
  BY <1>2, <1>3 DEF f

\* A datagram waits for an address not asked for yet.
WaitsFor(n, d, next) ==
  [n EXCEPT !.ip_addr_to_ethernet_datagram_queue =
     WithEntry(@, next, [datagrams |-> <<d>>, age |-> 0])]

LEMMA WaitsGood ==
  ASSUME NEW n, NEW ethernet, NEW ip, NEW to, GoodInterface(n, ethernet, ip, to),
         NEW next \in IPAddress \ Asked(n), NEW d \in OnTheWay(ethernet, next, to)
  PROVE  /\ GoodInterface(WaitsFor(n, d, next), ethernet, ip, to)
         /\ KeepsInput(n, WaitsFor(n, d, next))
         /\ \A seg : AtInterface(WaitsFor(n, d, next), seg) = AtInterface(n, seg) + Bears(d, seg)
<1> DEFINE m == WaitsFor(n, d, next)
           e == [datagrams |-> <<d>>, age |-> 0]
           old == n.ip_addr_to_ethernet_datagram_queue
           new == m.ip_addr_to_ethernet_datagram_queue
<1>1. HasFields(n, InterfaceFields)
  BY DEF GoodInterface
<1>2. /\ HasFields(m, InterfaceFields) /\ KeepsInput(n, m)
      /\ m.maybe_send_queue = n.maybe_send_queue
      /\ m.ethernet_address_ = n.ethernet_address_ /\ m.ip_address_ = n.ip_address_
      /\ m.ip_addr_to_ethernet_addr = n.ip_addr_to_ethernet_addr
      /\ new = WithEntry(old, next, e)
  BY <1>1 DEF WaitsFor, HasFields, InterfaceFields, KeepsInput
<1> HIDE DEF m
<1>3. /\ DOMAIN new = Asked(n) \cup {next} /\ new[next] = e
      /\ \A i \in Asked(n) : new[i] = old[i]
  BY <1>2 DEF WithEntry, Asked
<1>4. e \in [datagrams : Seq(OnTheWay(ethernet, next, to)), age : Nat] /\ Len(e.datagrams) = 1
  OBVIOUS
<1>5. GoodInterface(m, ethernet, ip, to)
  <2> HIDE DEF e
  <2>1. ASSUME NEW i \in Asked(m)
        PROVE  /\ i \in IPAddress
               /\ new[i] \in [datagrams : Seq(OnTheWay(ethernet, i, to)), age : Nat]
               /\ Len(new[i].datagrams) = 1
    <3>1. i \in Asked(n) \/ i = next
      BY <1>3 DEF Asked
    <3>2. CASE i \in Asked(n)
      BY <1>3, <3>2 DEF GoodInterface
    <3>3. CASE i = next
      BY <1>3, <1>4, <3>3
    <3>4. QED
      BY <3>1, <3>2, <3>3
  <2>2. Known(m) = Known(n)
    BY <1>2 DEF Known
  <2> HIDE DEF new
  <2>3. QED
    BY <1>2, <2>1, <2>2 DEF GoodInterface, new
<1>6. ASSUME NEW seg
      PROVE  AtInterface(m, seg) = AtInterface(n, seg) + Bears(d, seg)
  <2> DEFINE before == {i \in Asked(n) : old[i].datagrams[1].segment = seg}
             after  == {i \in Asked(m) : new[i].datagrams[1].segment = seg}
  <2>1. e.datagrams[1] = d
    OBVIOUS
  <2>2. after = IF d.segment = seg THEN before \cup {next} ELSE before
    <3> HIDE DEF e
    <3>1. Asked(m) = Asked(n) \cup {next}
      BY <1>3 DEF Asked
    <3> HIDE DEF new, old
    <3>2. QED
      BY <1>3, <2>1, <3>1
  <2>3. next \notin before /\ before \in SUBSET IPAddress
    BY DEF GoodInterface
  <2>4. Cardinality(after) = Cardinality(before) + Bears(d, seg)
    <3> HIDE DEF before, after
    <3>1. IsFiniteSet(before) /\ Cardinality(before) \in Nat
      BY <2>3, AskedFinite
    <3>2. Cardinality(before \cup {next}) = Cardinality(before) + 1
      BY <2>3, <3>1, FS_AddElement
    <3>3. QED
      BY <2>2, <3>1, <3>2 DEF Bears
  <2>5. Kept(m, seg) = Kept(n, seg) + Bears(d, seg)
    BY <2>4 DEF Kept
  <2>6. Kept(n, seg) \in Nat /\ Carried(n.maybe_send_queue, seg) \in Nat
    BY KeptType
  <2>7. Bears(d, seg) \in Nat
    BY DEF Bears
  <2>8. QED
    BY <1>2, <2>5, <2>6, <2>7 DEF AtInterface
<1>7. QED
  BY <1>2, <1>5, <1>6 DEF m

LEMMA RequestGood ==
  ASSUME NEW n, NEW ethernet, NEW ip, NEW to, GoodInterface(n, ethernet, ip, to),
         Owns(ip, ethernet), NEW next \in IPAddress
  PROVE  /\ GoodInterface(RequestQueued(n, next), ethernet, ip, to)
         /\ KeepsInput(n, RequestQueued(n, next))
         /\ \A seg : AtInterface(RequestQueued(n, next), seg) = AtInterface(n, seg)
<1>1. Broadcast \in EthernetAddress /\ NoAddress \in EthernetAddress
  BY BroadcastAssumption, NoAddressAssumption
<1> DEFINE opcode == "REQUEST"
<1>2. opcode \in {"REQUEST", "REPLY"}
  OBVIOUS
<1>3. RequestQueued(n, next)
        = Queued(n, MakeFrame(n, Broadcast, "ARP", MakeArp(n, opcode, NoAddress, next)))
  BY DEF RequestQueued
<1> HIDE DEF opcode
<1>4. QED
  BY <1>1, <1>2, <1>3, ArpQueued

(* A datagram given to an interface is queued in a frame, waits, or is gone. *)
LEMMA SendGood ==
  ASSUME NEW n, NEW ethernet, NEW ip, NEW to, GoodInterface(n, ethernet, ip, to),
         Owns(ip, ethernet), NEW next \in IPAddress, NEW d \in OnTheWay(ethernet, next, to)
  PROVE  /\ GoodInterface(SendDatagram(n, d, next), ethernet, ip, to)
         /\ KeepsInput(n, SendDatagram(n, d, next))
         /\ \A seg : AtInterface(SendDatagram(n, d, next), seg)
                       <= AtInterface(n, seg) + Bears(d, seg)
<1>1. \A seg : AtInterface(n, seg) \in Nat /\ Bears(d, seg) \in Nat
  BY KeptType DEF Bears
<1>2. CASE next \in Known(n)
  <2>1. SendDatagram(n, d, next)
          = Queued(n, MakeFrame(n, n.ip_addr_to_ethernet_addr[next].address, "IPv4", d))
    BY <1>2 DEF SendDatagram
  <2>2. QED
    BY <1>1, <1>2, <2>1, SentDirectly
<1>3. CASE next \notin Known(n) /\ next \in Asked(n)
  <2>1. SendDatagram(n, d, next) \in {n, RequestQueued(n, next)}
    BY <1>3 DEF SendDatagram
  <2>2. QED
    BY <1>1, <2>1, RequestGood DEF KeepsInput
<1>4. CASE next \notin Known(n) /\ next \notin Asked(n)
  <2> DEFINE m == WaitsFor(n, d, next)
  <2>1. SendDatagram(n, d, next) = RequestQueued(m, next)
    BY <1>4 DEF SendDatagram, WaitsFor
  <2> HIDE DEF m
  <2>2. /\ GoodInterface(m, ethernet, ip, to) /\ KeepsInput(n, m)
        /\ \A seg : AtInterface(m, seg) = AtInterface(n, seg) + Bears(d, seg)
    BY <1>4, WaitsGood DEF m
  <2>3. /\ GoodInterface(RequestQueued(m, next), ethernet, ip, to)
        /\ KeepsInput(m, RequestQueued(m, next))
        /\ \A seg : AtInterface(RequestQueued(m, next), seg) = AtInterface(m, seg)
    BY <2>2, RequestGood
  <2>4. QED
    BY <1>1, <2>1, <2>2, <2>3 DEF KeepsInput
<1>5. QED
  BY <1>2, <1>3, <1>4

LEMMA ReleasedGood ==
  ASSUME NEW n, NEW ethernet, NEW ip, NEW to, GoodInterface(n, ethernet, ip, to),
         Owns(ip, ethernet), NEW next \in IPAddress, NEW dst \in EthernetAddress,
         Owns(next, dst)
  PROVE  /\ Released(n, next, dst) \in Seq(Frame(to))
         /\ \A seg : Carried(Released(n, next, dst), seg)
              = IF next \in Asked(n)
                THEN Bears(n.ip_addr_to_ethernet_datagram_queue[next].datagrams[1], seg) ELSE 0
<1>1. CASE next \notin Asked(n)
  <2>1. Released(n, next, dst) = << >>
    BY <1>1 DEF Released
  <2>2. << >> \in Seq(Frame(to))
    BY EmptySeq
  <2>3. QED
    BY <1>1, <2>1, <2>2, CarriedEmpty
<1>2. CASE next \in Asked(n)
  <2> DEFINE waiting == n.ip_addr_to_ethernet_datagram_queue[next].datagrams
             d == waiting[1]
             f == MakeFrame(n, dst, "IPv4", d)
  <2>1. waiting \in Seq(OnTheWay(ethernet, next, to)) /\ Len(waiting) = 1
    BY <1>2 DEF GoodInterface
  <2>2. d \in OnTheWay(ethernet, next, to)
    BY <2>1
  <2>3. Released(n, next, dst) = <<f>>
    <3>1. Released(n, next, dst) = [i \in 1..1 |-> MakeFrame(n, dst, "IPv4", waiting[i])]
      BY <1>2, <2>1 DEF Released
    <3>2. [i \in 1..1 |-> MakeFrame(n, dst, "IPv4", waiting[i])] = <<f>>
      OBVIOUS
    <3>3. QED
      BY <3>1, <3>2
  <2>4. f \in Frame(to) /\ \A seg : Weight(f, seg) = Bears(d, seg)
    <3> HIDE DEF d
    <3>1. QED
      BY <2>2, DataFrameMade DEF Bears
  <2> HIDE DEF f
  <2>5. <<f>> \in Seq(Frame(to))
    BY <2>4
  <2>6. QED
    BY <1>2, <2>3, <2>4, <2>5, CarriedOne
<1>3. QED
  BY <1>1, <1>2

(* Who learns an address sends what waits for it. *)
LEMMA UpdateGood ==
  ASSUME NEW n, NEW ethernet, NEW ip, NEW to, GoodInterface(n, ethernet, ip, to),
         Owns(ip, ethernet), NEW next \in IPAddress, NEW dst \in EthernetAddress,
         Owns(next, dst)
  PROVE  /\ GoodInterface(UpdateMaps(n, next, dst), ethernet, ip, to)
         /\ KeepsInput(n, UpdateMaps(n, next, dst))
         /\ \A seg : AtInterface(UpdateMaps(n, next, dst), seg) = AtInterface(n, seg)
<1> DEFINE m == UpdateMaps(n, next, dst)
           old == n.ip_addr_to_ethernet_datagram_queue
           new == m.ip_addr_to_ethernet_datagram_queue
           entry == [address |-> dst, age |-> 0]
           released == Released(n, next, dst)
<1>1. HasFields(n, InterfaceFields)
  BY DEF GoodInterface
<1>2. /\ HasFields(m, InterfaceFields) /\ KeepsInput(n, m)
      /\ m.maybe_send_queue = n.maybe_send_queue \o released
      /\ m.ethernet_address_ = n.ethernet_address_ /\ m.ip_address_ = n.ip_address_
      /\ m.ip_addr_to_ethernet_addr = WithEntry(n.ip_addr_to_ethernet_addr, next, entry)
      /\ new = Restrict(old, DOMAIN old \ {next})
  BY <1>1 DEF UpdateMaps, HasFields, InterfaceFields, KeepsInput
<1>3. /\ released \in Seq(Frame(to))
      /\ \A seg : Carried(released, seg)
                    = IF next \in Asked(n) THEN Bears(old[next].datagrams[1], seg) ELSE 0
  BY ReleasedGood
<1> HIDE DEF m, released
<1>4. Asked(m) = Asked(n) \ {next} /\ \A i \in Asked(m) : new[i] = old[i]
  BY <1>2 DEF Restrict, Asked
<1>5. /\ Known(m) = Known(n) \cup {next} /\ m.ip_addr_to_ethernet_addr[next] = entry
      /\ \A i \in Known(n) \ {next} :
           m.ip_addr_to_ethernet_addr[i] = n.ip_addr_to_ethernet_addr[i]
  BY <1>2 DEF WithEntry, Known
<1>6. entry \in [address : EthernetAddress, age : Nat] /\ Owns(next, entry.address)
  OBVIOUS
<1> HIDE DEF entry
<1>7. GoodInterface(m, ethernet, ip, to)
  <2>1. ASSUME NEW i \in Known(m)
        PROVE  /\ i \in IPAddress
               /\ m.ip_addr_to_ethernet_addr[i] \in [address : EthernetAddress, age : Nat]
               /\ Owns(i, m.ip_addr_to_ethernet_addr[i].address)
    BY <1>5, <1>6 DEF GoodInterface
  <2>2. ASSUME NEW i \in Asked(m)
        PROVE  /\ i \in IPAddress
               /\ new[i] \in [datagrams : Seq(OnTheWay(ethernet, i, to)), age : Nat]
               /\ Len(new[i].datagrams) = 1
    BY <1>4 DEF GoodInterface
  <2>3. m.maybe_send_queue \in Seq(Frame(to))
    BY <1>2, <1>3, ConcatProperties DEF GoodInterface
  <2> HIDE DEF new
  <2>4. QED
    BY <1>2, <2>1, <2>2, <2>3 DEF GoodInterface, new
<1>8. ASSUME NEW seg
      PROVE  AtInterface(m, seg) = AtInterface(n, seg)
  <2> DEFINE before == {i \in Asked(n) : old[i].datagrams[1].segment = seg}
             after  == {i \in Asked(m) : new[i].datagrams[1].segment = seg}
             moved  == Carried(released, seg)
  <2>1. after = before \ {next}
    BY <1>4
  <2>2. before \in SUBSET IPAddress
    BY DEF GoodInterface
  <2>3. moved = IF next \in before THEN 1 ELSE 0
    BY <1>3 DEF Bears
  <2>4. Cardinality(before) \in Nat /\ Cardinality(before) = Cardinality(after) + moved
    <3> HIDE DEF before, after, moved
    <3>1. IsFiniteSet(before) /\ Cardinality(before) \in Nat
      BY <2>2, AskedFinite
    <3>2. Cardinality(before \ {next})
            = IF next \in before THEN Cardinality(before) - 1 ELSE Cardinality(before)
      BY <3>1, FS_RemoveElement
    <3>3. QED
      BY <2>1, <2>3, <3>1, <3>2
  <2>5. n.maybe_send_queue \in Seq(Frame(to)) /\ Carried(n.maybe_send_queue, seg) \in Nat
    BY KeptType DEF GoodInterface
  <2>6. Carried(m.maybe_send_queue, seg) = Carried(n.maybe_send_queue, seg) + moved
    BY <1>2, <1>3, <2>5, CarriedConcat
  <2>7. Kept(m, seg) = Cardinality(after) /\ Kept(n, seg) = Cardinality(before)
    BY DEF Kept
  <2>8. moved \in Nat /\ Cardinality(after) = Cardinality(before) - moved
                      /\ Cardinality(after) \in Nat
    <3>1. after \in SUBSET IPAddress
      BY <2>1, <2>2
    <3> HIDE DEF after, before, moved
    <3>2. Cardinality(after) \in Nat
      BY <3>1, AskedFinite
    <3>3. QED
      BY <2>3, <2>4, <3>2
  <2> HIDE DEF before, after, moved
  <2>9. QED
    BY <2>4, <2>5, <2>6, <2>7, <2>8 DEF AtInterface
<1>9. QED
  BY <1>2, <1>7, <1>8 DEF m

LEMMA ReceiveArpGood ==
  ASSUME NEW n, NEW ethernet, NEW ip, NEW to, GoodInterface(n, ethernet, ip, to),
         Owns(ip, ethernet), NEW arp \in ARPMessage,
         Owns(arp.sender_ip_address, arp.sender_ethernet_address)
  PROVE  /\ GoodInterface(ReceiveArp(n, arp), ethernet, ip, to)
         /\ KeepsInput(n, ReceiveArp(n, arp))
         /\ \A seg : AtInterface(ReceiveArp(n, arp), seg) = AtInterface(n, seg)
<1> DEFINE learned == UpdateMaps(n, arp.sender_ip_address, arp.sender_ethernet_address)
           opcode  == "REPLY"
           m == Queued(learned,
                       MakeFrame(n, arp.sender_ethernet_address, "ARP",
                                 MakeArp(n, opcode, arp.sender_ethernet_address,
                                         arp.sender_ip_address)))
           l == Queued(learned,
                       MakeFrame(learned, arp.sender_ethernet_address, "ARP",
                                 MakeArp(learned, opcode, arp.sender_ethernet_address,
                                         arp.sender_ip_address)))
<1>1. arp.sender_ip_address \in IPAddress /\ arp.sender_ethernet_address \in EthernetAddress
  BY DEF ARPMessage
<1>2. /\ GoodInterface(learned, ethernet, ip, to) /\ KeepsInput(n, learned)
      /\ \A seg : AtInterface(learned, seg) = AtInterface(n, seg)
  BY <1>1, UpdateGood
<1>3. opcode \in {"REQUEST", "REPLY"}
  OBVIOUS
<1>4. ReceiveArp(n, arp) \in {learned, m}
  BY DEF ReceiveArp
<1> HIDE DEF learned, opcode
<1>5. m = l
  BY <1>2 DEF GoodInterface, MakeFrame, MakeArp
<1>6. /\ GoodInterface(l, ethernet, ip, to) /\ KeepsInput(learned, l)
      /\ \A seg : AtInterface(l, seg) = AtInterface(learned, seg)
  BY <1>1, <1>2, <1>3, ArpQueued
<1> HIDE DEF m, l
<1>7. KeepsInput(n, l)
  BY <1>2, <1>6 DEF KeepsInput
<1>8. QED
  BY <1>2, <1>4, <1>5, <1>6, <1>7

(* A frame for the interface is taken, and the datagram it carries returned. *)
LEMMA RecvGood ==
  ASSUME NEW n, NEW ethernet, NEW ip, NEW to, GoodInterface(n, ethernet, ip, to),
         Owns(ip, ethernet), NEW f \in Frame(to)
  PROVE  LET got == RecvFrame(n, f)
         IN  /\ GoodInterface(got.interface, ethernet, ip, to)
             /\ KeepsInput(n, got.interface)
             /\ \A seg : AtInterface(got.interface, seg) = AtInterface(n, seg)
             /\ got.datagram # NoDatagram =>
                  /\ f \in DataFrame(to) /\ got.datagram = f.payload
                  /\ f.payload \in OnTheWay(f.src, ip, to)
                  /\ \A seg : Weight(f, seg) = Bears(f.payload, seg)
<1>1. n.ethernet_address_ = ethernet /\ ethernet # Broadcast
  BY OwnsOnce DEF GoodInterface
<1>2. CASE f.dst \notin {Broadcast, n.ethernet_address_}
  <2>1. RecvFrame(n, f) = [interface |-> n, datagram |-> NoDatagram]
    BY <1>2 DEF RecvFrame
  <2>2. QED
    BY <2>1 DEF KeepsInput
<1>3. CASE f.dst \in {Broadcast, n.ethernet_address_} /\ f.type = "IPv4"
  <2>1. RecvFrame(n, f) = [interface |-> n, datagram |-> f.payload]
    BY <1>3 DEF RecvFrame
  <2>2. f \in DataFrame(to)
    BY <1>3 DEF Frame, ArpFrame
  <2>3. PICK i \in IPAddress : Owns(i, f.dst) /\ f.payload \in OnTheWay(f.src, i, to)
    BY <2>2 DEF DataFrame
  <2>4. f.dst # Broadcast
    BY <2>3, OwnsOnce
  <2>5. i = ip
    BY <1>1, <1>3, <2>3, <2>4, OwnsOnce
  <2>6. \A seg : Weight(f, seg) = Bears(f.payload, seg)
    BY <1>3 DEF Weight, Bears
  <2>7. QED
    BY <2>1, <2>2, <2>3, <2>5, <2>6 DEF KeepsInput
<1>4. CASE f.dst \in {Broadcast, n.ethernet_address_} /\ f.type # "IPv4"
  <2>1. RecvFrame(n, f) = [interface |-> ReceiveArp(n, f.payload), datagram |-> NoDatagram]
    BY <1>4 DEF RecvFrame
  <2>2. f \in ArpFrame
    BY <1>4 DEF Frame, DataFrame
  <2>3. /\ f.payload \in ARPMessage
        /\ Owns(f.payload.sender_ip_address, f.payload.sender_ethernet_address)
    BY <2>2 DEF ArpFrame
  <2>4. QED
    BY <2>1, <2>3, ReceiveArpGood
<1>5. QED
  BY <1>2, <1>3, <1>4

(* Time changes only ages. *)
LEMMA TickGood ==
  ASSUME NEW n, NEW ethernet, NEW ip, NEW to, GoodInterface(n, ethernet, ip, to),
         NEW ms \in Nat
  PROVE  /\ GoodInterface(InterfaceTick(n, ms), ethernet, ip, to)
         /\ KeepsInput(n, InterfaceTick(n, ms))
         /\ InterfaceTick(n, ms).maybe_send_queue = n.maybe_send_queue
         /\ \A seg : AtInterface(InterfaceTick(n, ms), seg) = AtInterface(n, seg)
<1> DEFINE m == InterfaceTick(n, ms)
           old == n.ip_addr_to_ethernet_datagram_queue
           new == m.ip_addr_to_ethernet_datagram_queue
           mapping == Aged(n.ip_addr_to_ethernet_addr, ms)
           kept == {i \in DOMAIN mapping : mapping[i].age < MappingLifetime}
<1>1. HasFields(n, InterfaceFields)
  BY DEF GoodInterface
<1>2. RestrictValues(mapping, LAMBDA e : e.age < MappingLifetime) = [i \in kept |-> mapping[i]]
  BY DEF RestrictValues, Restrict
<1>3. /\ HasFields(m, InterfaceFields) /\ KeepsInput(n, m)
      /\ m.maybe_send_queue = n.maybe_send_queue
      /\ m.ethernet_address_ = n.ethernet_address_ /\ m.ip_address_ = n.ip_address_
      /\ m.ip_addr_to_ethernet_addr = [i \in kept |-> mapping[i]]
      /\ new = Aged(old, ms)
  BY <1>1, <1>2 DEF InterfaceTick, HasFields, InterfaceFields, KeepsInput
<1> HIDE DEF m
<1>4. /\ Asked(m) = Asked(n)
      /\ \A i \in Asked(n) : new[i] = [old[i] EXCEPT !.age = @ + ms]
  BY <1>3 DEF Aged, Asked
<1>5. /\ Known(m) \subseteq Known(n)
      /\ \A i \in Known(m) : m.ip_addr_to_ethernet_addr[i]
                               = [n.ip_addr_to_ethernet_addr[i] EXCEPT !.age = @ + ms]
  <2>1. /\ DOMAIN mapping = Known(n)
        /\ \A i \in Known(n) : mapping[i] = [n.ip_addr_to_ethernet_addr[i] EXCEPT !.age = @ + ms]
    BY DEF Aged, Known
  <2>2. Known(m) = kept /\ \A i \in kept : m.ip_addr_to_ethernet_addr[i] = mapping[i]
    BY <1>3 DEF Known
  <2> HIDE DEF mapping
  <2>3. QED
    BY <2>1, <2>2
<1>6. ASSUME NEW i \in Asked(n)
      PROVE  /\ i \in IPAddress
             /\ new[i] \in [datagrams : Seq(OnTheWay(ethernet, i, to)), age : Nat]
             /\ Len(new[i].datagrams) = 1
             /\ new[i].datagrams = old[i].datagrams
  <2> DEFINE e == old[i]
  <2>1. /\ i \in IPAddress /\ Len(e.datagrams) = 1
        /\ e \in [datagrams : Seq(OnTheWay(ethernet, i, to)), age : Nat]
    BY DEF GoodInterface
  <2>2. new[i] = [e EXCEPT !.age = @ + ms]
    BY <1>4
  <2> HIDE DEF e, new
  <2>3. QED
    BY <2>1, <2>2 DEF e
<1>7. GoodInterface(m, ethernet, ip, to)
  <2>1. ASSUME NEW i \in Known(m)
        PROVE  /\ i \in IPAddress
               /\ m.ip_addr_to_ethernet_addr[i] \in [address : EthernetAddress, age : Nat]
               /\ Owns(i, m.ip_addr_to_ethernet_addr[i].address)
    <3> DEFINE e == n.ip_addr_to_ethernet_addr[i]
    <3>1. /\ i \in IPAddress /\ Owns(i, e.address)
          /\ e \in [address : EthernetAddress, age : Nat]
      BY <1>5 DEF GoodInterface
    <3>2. m.ip_addr_to_ethernet_addr[i] = [e EXCEPT !.age = @ + ms]
      BY <1>5
    <3> HIDE DEF e
    <3>3. QED
      BY <3>1, <3>2
  <2> HIDE DEF new
  <2>2. QED
    BY <1>3, <1>4, <1>6, <2>1 DEF GoodInterface, new
<1>8. ASSUME NEW seg
      PROVE  AtInterface(m, seg) = AtInterface(n, seg)
  <2>1. {i \in Asked(m) : new[i].datagrams[1].segment = seg}
          = {i \in Asked(n) : old[i].datagrams[1].segment = seg}
    BY <1>4, <1>6
  <2>2. QED
    BY <1>3, <2>1 DEF AtInterface, Kept
<1>9. QED
  BY <1>3, <1>7, <1>8 DEF m

-----------------------------------------------------------------------------
(* A router. *)
WithInterface(r, s, n) == [r EXCEPT !.interfaces_[s] = n]

LEMMA InterfaceReplaced ==
  ASSUME NEW r, NEW g, NEW to, GoodRouter(r, g, to), NEW s \in Sides, NEW n,
         GoodInterface(n, RouterEthernet[g][s], RouterIp[g][s], to),
         "datagrams_in_" \in DOMAIN n
  PROVE  LET new == WithInterface(r, s, n)
         IN  /\ GoodRouter(new, g, to)
             /\ new.interfaces_[s] = n
             /\ \A t \in Sides \ {s} : new.interfaces_[t] = r.interfaces_[t]
             /\ \A seg : AtRouter(new, seg) + AtInterface(r.interfaces_[s], seg)
                           = AtRouter(r, seg) + AtInterface(n, seg)
             /\ \A seg : AtRouter(new, seg) \in Nat /\ AtRouter(r, seg) \in Nat
<1> DEFINE new == WithInterface(r, s, n)
           a == r.interfaces_[1]
           b == r.interfaces_[2]
<1>1. /\ HasFields(r, {"interfaces_", "route_table_"}) /\ r.interfaces_ = <<a, b>>
      /\ r.route_table_ = Table(g)
  BY DEF GoodRouter
<1>2. /\ HasFields(new, {"interfaces_", "route_table_"}) /\ new.route_table_ = Table(g)
      /\ new.interfaces_ = [r.interfaces_ EXCEPT ![s] = n]
  BY <1>1 DEF WithInterface, HasFields
<1> HIDE DEF new
<1>3. \A t \in Sides : /\ "datagrams_in_" \in DOMAIN r.interfaces_[t]
                       /\ GoodInterface(r.interfaces_[t], RouterEthernet[g][t],
                                        RouterIp[g][t], to)
  BY DEF GoodRouter
<1>4. s = 1 \/ s = 2
  BY DEF Sides
<1>5. new.interfaces_ = IF s = 1 THEN <<n, b>> ELSE <<a, n>>
  <2> HIDE DEF a, b
  <2>1. QED
    BY <1>1, <1>2, <1>4
<1>6. /\ new.interfaces_ = <<new.interfaces_[1], new.interfaces_[2]>>
      /\ new.interfaces_[s] = n
      /\ \A t \in Sides \ {s} : new.interfaces_[t] = r.interfaces_[t]
  BY <1>4, <1>5 DEF Sides
<1>7. GoodRouter(new, g, to)
  BY <1>2, <1>3, <1>6 DEF GoodRouter
<1>8. ASSUME NEW seg
      PROVE  /\ AtRouter(new, seg) + AtInterface(r.interfaces_[s], seg)
                  = AtRouter(r, seg) + AtInterface(n, seg)
             /\ AtRouter(new, seg) \in Nat /\ AtRouter(r, seg) \in Nat
  <2>1. /\ AtInterface(n, seg) \in Nat
        /\ \A t \in Sides : AtInterface(r.interfaces_[t], seg) \in Nat
    BY <1>3, KeptType
  <2>2. 1 \in Sides /\ 2 \in Sides
    BY DEF Sides
  <2>3. CASE s = 1
    BY <1>6, <2>1, <2>2, <2>3 DEF AtRouter
  <2>4. CASE s = 2
    BY <1>6, <2>1, <2>2, <2>4 DEF AtRouter
  <2>5. QED
    BY <1>4, <2>3, <2>4
<1>9. QED
  BY <1>6, <1>7, <1>8 DEF new

LEMMA AtRouterType ==
  ASSUME NEW r, NEW g, NEW to, GoodRouter(r, g, to), NEW seg
  PROVE  AtRouter(r, seg) \in Nat
<1>1. ASSUME NEW t \in Sides
      PROVE  AtInterface(r.interfaces_[t], seg) \in Nat
  BY KeptType DEF GoodRouter
<1>2. 1 \in Sides /\ 2 \in Sides
  BY DEF Sides
<1>3. AtInterface(r.interfaces_[1], seg) \in Nat /\ AtInterface(r.interfaces_[2], seg) \in Nat
  BY <1>1, <1>2
<1>4. QED
  BY <1>3 DEF AtRouter

\* What a datagram becomes on a hop.
Hop(d) == [d EXCEPT !.ttl = @ - 1]

Next_Hop(d, route) == IF route.next_hop = Direct THEN d.dst.ip ELSE route.next_hop

LEMMA HopOnTheWay ==
  ASSUME NEW g \in Host, NEW s \in Sides, NEW src, NEW to,
         NEW d \in OnTheWay(src, RouterIp[g][s], to), d.ttl > 1,
         NEW route \in BestRoutes(g, d.dst.ip)
  PROVE  Hop(d) \in OnTheWay(RouterEthernet[g][route.interface_num], Next_Hop(d, route), to)
<1> DEFINE e  == Hop(d)
           ip == d.dst.ip
           k  == DefaultTtl - e.ttl
           leg == [src |-> RouterEthernet[g][route.interface_num], next |-> Next_Hop(d, route)]
<1>1. d \in Datagram /\ DefaultTtl \in Nat
  BY TtlAssumption DEF OnTheWay
<1>2. /\ e \in Datagram /\ e.src = d.src /\ e.dst = d.dst /\ e.segment = d.segment
      /\ e.ttl = d.ttl - 1
  BY <1>1 DEF Hop, Datagram
<1> HIDE DEF e
<1>3. k \in 1..DefaultTtl /\ k - 1 = DefaultTtl - d.ttl /\ e.ttl \in 1..DefaultTtl
  BY <1>1, <1>2 DEF Datagram
<1>4. PICK h \in Host :
        /\ d.src = HostIp[h]
        /\ [src |-> src, next |-> RouterIp[g][s]] \in Legs(h, ip)[DefaultTtl - d.ttl]
  BY DEF OnTheWay, OnItsLeg
<1>5. RouterIp[g][s] \in ToSet(RouterIp[g])
  <2>1. s \in DOMAIN RouterIp[g]
    BY IpAssumption
  <2>2. QED
    BY <2>1 DEF ToSet
<1>6. leg \in Onward(g, ip)
  BY DEF Onward, Next_Hop
<1> HIDE DEF leg
<1>7. Legs(h, ip)[k] = NextLegs(Legs(h, ip)[k - 1], ip)
  <2> HIDE DEF k
  <2>1. QED
    BY <1>3, LegsStep
<1>8. leg \in Legs(h, ip)[k]
  <2>1. \E before \in Legs(h, ip)[k - 1] : before.next \in ToSet(RouterIp[g])
    BY <1>3, <1>4, <1>5
  <2> HIDE DEF k
  <2>2. leg \in NextLegs(Legs(h, ip)[k - 1], ip)
    BY <1>6, <2>1 DEF NextLegs
  <2>3. QED
    BY <1>7, <2>2
<1>9. OnItsLeg(e, RouterEthernet[g][route.interface_num], Next_Hop(d, route))
  BY <1>2, <1>3, <1>4, <1>8 DEF OnItsLeg, leg
<1>10. \E i \in Host : e.src = HostIp[i] /\ e.dst \in to[i]
  BY <1>2 DEF OnTheWay
<1>11. QED
  BY <1>2, <1>9, <1>10 DEF OnTheWay, e

(* A router passes a datagram on over the leg that its time to live has    *)
(* come to.                                                                *)
LEMMA ForwardGood ==
  ASSUME NEW g \in Host, NEW r, NEW to, GoodRouter(r, g, to), NEW s \in Sides,
         NEW src, NEW d \in OnTheWay(src, RouterIp[g][s], to)
  PROVE  LET new == Forwarded(r, d)
         IN  /\ GoodRouter(new, g, to)
             /\ \A t \in Sides : KeepsInput(r.interfaces_[t], new.interfaces_[t])
             /\ \A seg : AtRouter(new, seg) <= AtRouter(r, seg) + Bears(d, seg)
<1> DEFINE record == LongestMatch(Table(g), d.dst.ip)
<1>1. d \in Datagram /\ d.dst.ip \in IPAddress
  BY DEF OnTheWay, Datagram, Address
<1>2. /\ r.route_table_ = Table(g)
      /\ \A t \in Sides : /\ "datagrams_in_" \in DOMAIN r.interfaces_[t]
                          /\ GoodInterface(r.interfaces_[t], RouterEthernet[g][t],
                                           RouterIp[g][t], to)
  BY DEF GoodRouter
<1>3. \A seg : Bears(d, seg) \in Nat /\ AtRouter(r, seg) \in Nat
  BY AtRouterType DEF Bears
<1>4. CASE d.ttl <= 1 \/ record = NoRoute
  <2>1. Forwarded(r, d) = r
    BY <1>2, <1>4 DEF Forwarded
  <2>2. QED
    BY <1>3, <2>1 DEF KeepsInput
<1>5. CASE ~(d.ttl <= 1 \/ record = NoRoute)
  <2>1. PICK i \in DOMAIN Routes[g] :
          record = Table(g)[i] /\ Routes[g][i] \in BestRoutes(g, d.dst.ip)
    BY <1>1, <1>5, LongestMatchFound
  <2> DEFINE route == Routes[g][i]
             e     == Hop(d)
             next  == Next_Hop(d, route)
             t     == route.interface_num
             n     == r.interfaces_[t]
             m     == SendDatagram(n, e, next)
  <2>2. record.next_hop_ = route.next_hop /\ record.interface_num_ = t
    BY <2>1 DEF Table
  <2>3. t \in Sides /\ next \in IPAddress
    BY <1>1, RoutesType DEF Next_Hop
  <2>4. d.ttl > 1
    BY <1>1, <1>5, TtlAssumption DEF Datagram
  <2>5. e \in OnTheWay(RouterEthernet[g][t], next, to)
    <3> HIDE DEF e, next
    <3>1. QED
      BY <2>1, <2>4, HopOnTheWay DEF e, next
  <2>6. e.dst = d.dst /\ e.segment = d.segment
    BY <1>1 DEF Hop, Datagram
  <2>7. Forwarded(r, d) = WithInterface(r, t, m)
    <3>1. Forwarded(r, d) = SentOn(r, record, e)
      BY <1>2, <1>5 DEF Forwarded, Hop
    <3> HIDE DEF e, record, route
    <3>2. QED
      BY <2>2, <2>6, <3>1 DEF SentOn, WithInterface, Next_Hop, route
  <2>8. Owns(RouterIp[g][t], RouterEthernet[g][t])
    BY <2>3 DEF Owns, Sides
  <2> HIDE DEF e, next, n, t
  <2>9. /\ GoodInterface(m, RouterEthernet[g][t], RouterIp[g][t], to) /\ KeepsInput(n, m)
        /\ \A seg : AtInterface(m, seg) <= AtInterface(n, seg) + Bears(e, seg)
    BY <1>2, <2>3, <2>5, <2>8, SendGood DEF n
  <2> HIDE DEF m
  <2> DEFINE new == WithInterface(r, t, m)
  <2>10. "datagrams_in_" \in DOMAIN m
    BY <1>2, <2>3, <2>9 DEF KeepsInput, n
  <2>11. /\ GoodRouter(new, g, to) /\ new.interfaces_[t] = m
         /\ \A u \in Sides \ {t} : new.interfaces_[u] = r.interfaces_[u]
         /\ \A seg : AtRouter(new, seg) + AtInterface(n, seg)
                       = AtRouter(r, seg) + AtInterface(m, seg)
         /\ \A seg : AtRouter(new, seg) \in Nat
    BY <2>3, <2>9, <2>10, InterfaceReplaced DEF n
  <2> HIDE DEF new
  <2>12. \A u \in Sides : KeepsInput(r.interfaces_[u], new.interfaces_[u])
    BY <2>9, <2>11 DEF KeepsInput, n
  <2>13. ASSUME NEW seg
         PROVE  AtRouter(new, seg) <= AtRouter(r, seg) + Bears(d, seg)
    <3>1. Bears(e, seg) = Bears(d, seg)
      BY <2>6 DEF Bears
    <3>2. AtInterface(m, seg) \in Nat /\ AtInterface(n, seg) \in Nat
      BY <1>2, <2>3, <2>9, KeptType DEF n
    <3>3. QED
      BY <1>3, <2>9, <2>11, <3>1, <3>2
  <2>14. QED
    BY <2>7, <2>11, <2>12, <2>13 DEF new
<1>6. QED
  BY <1>4, <1>5

-----------------------------------------------------------------------------
(* The folds of a router's turn, over a datagram at most and over two      *)
(* interfaces.                                                             *)
LEMMA ForwardedNone ==
  ASSUME NEW r
  PROVE  FoldLeft(Forwarded, r, << >>) = r
<1> DEFINE Is(f) == f = [s \in SUBSET (DOMAIN << >>) |->
                           IF s = {} THEN r ELSE Forwarded(f[s \ {Max(s)}], << >>[Max(s)])]
           F     == CHOOSE f : Is(f)
           it    == [s \in SUBSET (DOMAIN << >>) |-> r]
<1>1. DOMAIN << >> = {} /\ \A s \in SUBSET (DOMAIN << >>) : s = {}
  OBVIOUS
<1>2. Is(it)
  BY <1>1
<1>3. Is(F)
  BY <1>2
<1>4. FoldLeft(Forwarded, r, << >>) = F[DOMAIN << >>]
  BY DEF FoldLeft, MapThenFoldSet
<1> HIDE DEF F
<1>5. F[{}] = r
  <2>1. {} \in SUBSET (DOMAIN << >>)
    OBVIOUS
  <2>2. QED
    BY <1>3, <2>1
<1>6. QED
  BY <1>1, <1>4, <1>5

LEMMA OneIndex ==
  /\ SUBSET (1..1) = {{}, {1}} /\ Max({1}) = 1 /\ {1} \ {1} = {}
  /\ 1..1 = {1} /\ {1} # {}
<1>1. 1..1 = {1}
  OBVIOUS
<1>2. {1} \in SUBSET (1..1) /\ {1} # {} /\ 1 \in Nat
  OBVIOUS
<1>3. Max({1}) \in {1}
  BY <1>2, MaxOf
<1>4. QED
  BY <1>1, <1>3

LEMMA ForwardedOne ==
  ASSUME NEW r, NEW d
  PROVE  FoldLeft(Forwarded, r, <<d>>) = Forwarded(r, d)
<1> DEFINE q     == <<d>>
           Is(f) == f = [s \in SUBSET (DOMAIN q) |->
                           IF s = {} THEN r ELSE Forwarded(f[s \ {Max(s)}], q[Max(s)])]
           F     == CHOOSE f : Is(f)
           v     == Forwarded(r, d)
           it    == [s \in SUBSET (1..1) |-> IF s = {} THEN r ELSE v]
<1>1. DOMAIN q = 1..1 /\ q[1] = d
  OBVIOUS
<1>2. FoldLeft(Forwarded, r, q) = F[DOMAIN q]
  BY DEF FoldLeft, MapThenFoldSet
<1> HIDE DEF q
<1>3. Is(it)
  <2>1. it[{}] = r /\ it[{1}] = v
    BY OneIndex
  <2>2. ASSUME NEW s \in SUBSET (1..1), s # {}
        PROVE  it[s] = Forwarded(it[s \ {Max(s)}], q[Max(s)])
    <3>1. s = {1}
      BY <2>2, OneIndex
    <3> HIDE DEF it
    <3>2. QED
      BY <1>1, <2>1, <3>1, OneIndex
  <2>3. it = [s \in SUBSET (1..1) |-> it[s]]
    OBVIOUS
  <2> HIDE DEF it, v
  <2>4. QED
    BY <1>1, <2>1, <2>2, <2>3
<1>4. Is(F)
  BY <1>3
<1> HIDE DEF F
<1>5. F[{}] = r /\ F[{1}] = Forwarded(F[{}], q[1])
  <2>1. {} \in SUBSET (1..1) /\ {1} \in SUBSET (1..1) /\ {1} # {}
    OBVIOUS
  <2>2. \A s \in SUBSET (1..1) :
          F[s] = IF s = {} THEN r ELSE Forwarded(F[s \ {Max(s)}], q[Max(s)])
    BY <1>1, <1>4
  <2>3. F[{}] = r
    BY <2>1, <2>2
  <2>4. F[{1}] = Forwarded(F[{1} \ {Max({1})}], q[Max({1})])
    BY <2>1, <2>2
  <2>5. QED
    BY <2>3, <2>4, OneIndex
<1>6. QED
  BY <1>1, <1>2, <1>5, OneIndex DEF q

Drained(r, i) ==
  [FoldLeft(Forwarded, r, r.interfaces_[i].datagrams_in_)
     EXCEPT !.interfaces_[i].datagrams_in_ = << >>]

LEMMA TwoIndexes ==
  /\ SUBSET (1..2) = {{}, {1}, {2}, {1, 2}} /\ 1..2 = {1, 2}
  /\ Max({1}) = 1 /\ Max({2}) = 2 /\ Max({1, 2}) = 2
  /\ {1} \ {1} = {} /\ {2} \ {2} = {} /\ {1, 2} \ {2} = {1}
<1>1. 1..2 = {1, 2}
  OBVIOUS
<1>2. /\ {1} \in SUBSET (1..2) /\ {2} \in SUBSET (1..2) /\ {1, 2} \in SUBSET (1..2)
      /\ {1} # {} /\ {2} # {} /\ {1, 2} # {} /\ 2 \in Nat
  OBVIOUS
<1>3. \A s \in SUBSET (1..2) : s # {} => Max(s) \in s /\ \A i \in s : i <= Max(s)
  BY <1>2, MaxOf
<1>4. Max({1}) = 1 /\ Max({2}) = 2
  BY <1>2, <1>3
<1>5. Max({1, 2}) = 2
  <2> DEFINE m == Max({1, 2})
  <2>1. m \in {1, 2} /\ \A i \in {1, 2} : i <= m
    BY <1>2, <1>3
  <2> HIDE DEF m
  <2>2. m = 2
    BY <2>1
  <2>3. QED
    BY <2>2 DEF m
<1>6. SUBSET (1..2) = {{}, {1}, {2}, {1, 2}}
  BY <1>1
<1>7. QED
  BY <1>1, <1>4, <1>5, <1>6

LEMMA RouteSteps ==
  ASSUME NEW r, Len(r.interfaces_) = 2
  PROVE  Route(r) = Drained(Drained(r, 1), 2)
<1> DEFINE q     == [i \in 1..2 |-> i]
           Is(f) == f = [s \in SUBSET (DOMAIN q) |->
                           IF s = {} THEN r ELSE Drained(f[s \ {Max(s)}], q[Max(s)])]
           F     == CHOOSE f : Is(f)
           a     == Drained(r, 1)
           b     == Drained(r, 2)
           c     == Drained(a, 2)
           it    == [s \in SUBSET (1..2) |->
                       IF s = {} THEN r ELSE IF s = {1} THEN a ELSE IF s = {2} THEN b ELSE c]
<1>1. DOMAIN q = 1..2 /\ q[1] = 1 /\ q[2] = 2
  OBVIOUS
<1>2. Route(r) = F[DOMAIN q]
  BY DEF Route, FoldLeft, MapThenFoldSet, Drained
<1> HIDE DEF q
<1>3. Is(it)
  <2>1. it[{}] = r /\ it[{1}] = a /\ it[{2}] = b /\ it[{1, 2}] = c
    <3>1. {1} # {2} /\ {1, 2} # {1} /\ {1, 2} # {2} /\ {1} # {} /\ {2} # {} /\ {1, 2} # {}
      OBVIOUS
    <3> HIDE DEF a, b, c
    <3>2. QED
      BY <3>1, TwoIndexes
  <2>2. ASSUME NEW s \in SUBSET (1..2), s # {}
        PROVE  it[s] = Drained(it[s \ {Max(s)}], q[Max(s)])
    <3>1. s = {1} \/ s = {2} \/ s = {1, 2}
      BY <2>2, TwoIndexes
    <3> HIDE DEF it
    <3>2. CASE s = {1}
      BY <1>1, <2>1, <3>2, TwoIndexes
    <3>3. CASE s = {2}
      BY <1>1, <2>1, <3>3, TwoIndexes
    <3>4. CASE s = {1, 2}
      BY <1>1, <2>1, <3>4, TwoIndexes
    <3>5. QED
      BY <3>1, <3>2, <3>3, <3>4
  <2>3. it = [s \in SUBSET (1..2) |-> it[s]]
    OBVIOUS
  <2> HIDE DEF it, a, b, c
  <2>4. QED
    BY <1>1, <2>1, <2>2, <2>3
<1>4. Is(F)
  BY <1>3
<1> HIDE DEF F
<1>5. /\ F[{}] = r /\ F[{1}] = Drained(F[{}], q[1])
      /\ F[{1, 2}] = Drained(F[{1}], q[2])
  <2>1. {} \in SUBSET (1..2) /\ {1} \in SUBSET (1..2) /\ {1, 2} \in SUBSET (1..2)
    OBVIOUS
  <2>2. {1} # {} /\ {1, 2} # {}
    OBVIOUS
  <2>3. \A s \in SUBSET (1..2) :
          F[s] = IF s = {} THEN r ELSE Drained(F[s \ {Max(s)}], q[Max(s)])
    BY <1>1, <1>4
  <2>4. F[{}] = r
    BY <2>1, <2>3
  <2>5. F[{1}] = Drained(F[{1} \ {Max({1})}], q[Max({1})])
    BY <2>1, <2>2, <2>3
  <2>6. F[{1, 2}] = Drained(F[{1, 2} \ {Max({1, 2})}], q[Max({1, 2})])
    BY <2>1, <2>2, <2>3
  <2>7. QED
    BY <2>4, <2>5, <2>6, TwoIndexes
<1>6. QED
  BY <1>1, <1>2, <1>5, TwoIndexes
-----------------------------------------------------------------------------
(* A router's turn. *)
Arriving(ip, to) == {d \in Datagram : \E src \in EthernetAddress : d \in OnTheWay(src, ip, to)}

Input(q, seg) == IF q = << >> THEN 0 ELSE Bears(q[1], seg)

LEMMA DrainedGood ==
  ASSUME NEW g \in Host, NEW r, NEW to, GoodRouter(r, g, to), NEW s \in Sides,
         r.interfaces_[s].datagrams_in_
           \in {<< >>} \cup {<<d>> : d \in Arriving(RouterIp[g][s], to)}
  PROVE  LET new == Drained(r, s)
         IN  /\ GoodRouter(new, g, to)
             /\ new.interfaces_[s].datagrams_in_ = << >>
             /\ \A t \in Sides \ {s} :
                  new.interfaces_[t].datagrams_in_ = r.interfaces_[t].datagrams_in_
             /\ \A seg : AtRouter(new, seg)
                           <= AtRouter(r, seg) + Input(r.interfaces_[s].datagrams_in_, seg)
<1> DEFINE q   == r.interfaces_[s].datagrams_in_
           mid == FoldLeft(Forwarded, r, q)
           n   == mid.interfaces_[s]
           m   == [n EXCEPT !.datagrams_in_ = << >>]
           new == WithInterface(mid, s, m)
<1>1. /\ GoodRouter(mid, g, to)
      /\ \A t \in Sides : KeepsInput(r.interfaces_[t], mid.interfaces_[t])
      /\ \A seg : AtRouter(mid, seg) <= AtRouter(r, seg) + Input(q, seg)
  <2>1. CASE q = << >>
    <3>1. mid = r
      BY <2>1, ForwardedNone
    <3>2. \A t \in Sides : KeepsInput(r.interfaces_[t], r.interfaces_[t])
      BY DEF KeepsInput
    <3>3. \A seg : AtRouter(r, seg) \in Nat
      BY AtRouterType
    <3>4. QED
      BY <2>1, <3>1, <3>2, <3>3 DEF Input
  <2>2. ASSUME NEW d \in Arriving(RouterIp[g][s], to), q = <<d>>
        PROVE  <1>1!1 /\ <1>1!2 /\ <1>1!3
    <3>1. PICK src \in EthernetAddress : d \in OnTheWay(src, RouterIp[g][s], to)
      BY DEF Arriving
    <3>2. mid = Forwarded(r, d)
      BY <2>2, ForwardedOne
    <3>3. q # << >> /\ q[1] = d
      BY <2>2
    <3> HIDE DEF q, mid
    <3>4. QED
      BY <3>1, <3>2, <3>3, ForwardGood DEF Input
  <2>3. QED
    BY <2>1, <2>2
<1> HIDE DEF mid
<1>2. /\ GoodInterface(n, RouterEthernet[g][s], RouterIp[g][s], to)
      /\ "datagrams_in_" \in DOMAIN n
  BY <1>1 DEF GoodRouter
<1>3. Drained(r, s) = new
  BY DEF Drained, WithInterface, mid
<1> HIDE DEF n
<1>4. /\ GoodInterface(m, RouterEthernet[g][s], RouterIp[g][s], to)
      /\ "datagrams_in_" \in DOMAIN m /\ m.datagrams_in_ = << >>
      /\ \A seg : AtInterface(m, seg) = AtInterface(n, seg)
  <2>1. /\ m.maybe_send_queue = n.maybe_send_queue /\ DOMAIN m = DOMAIN n
        /\ m.ip_addr_to_ethernet_datagram_queue = n.ip_addr_to_ethernet_datagram_queue
        /\ m.ip_addr_to_ethernet_addr = n.ip_addr_to_ethernet_addr
        /\ m.ethernet_address_ = n.ethernet_address_ /\ m.ip_address_ = n.ip_address_
        /\ m.datagrams_in_ = << >>
    BY <1>2
  <2> HIDE DEF m
  <2>2. QED
    BY <1>2, <2>1 DEF GoodInterface, HasFields, Known, Asked, AtInterface, Kept
<1> HIDE DEF m
<1>5. /\ GoodRouter(new, g, to) /\ new.interfaces_[s] = m
      /\ \A t \in Sides \ {s} : new.interfaces_[t] = mid.interfaces_[t]
      /\ \A seg : AtRouter(new, seg) + AtInterface(n, seg) = AtRouter(mid, seg) + AtInterface(m, seg)
      /\ \A seg : AtRouter(new, seg) \in Nat /\ AtRouter(mid, seg) \in Nat
  BY <1>1, <1>4, InterfaceReplaced DEF n
<1> HIDE DEF new
<1>6. \A seg : AtRouter(new, seg) = AtRouter(mid, seg)
  <2>1. \A seg : AtInterface(n, seg) \in Nat
    BY <1>2, KeptType
  <2>2. QED
    BY <1>4, <1>5, <2>1
<1>7. QED
  BY <1>1, <1>3, <1>4, <1>5, <1>6 DEF KeepsInput

LEMMA RouteGood ==
  ASSUME NEW g \in Host, NEW r, NEW to, GoodRouter(r, g, to), NEW s \in Sides,
         r.interfaces_[s].datagrams_in_
           \in {<< >>} \cup {<<d>> : d \in Arriving(RouterIp[g][s], to)},
         \A t \in Sides \ {s} : r.interfaces_[t].datagrams_in_ = << >>
  PROVE  LET new == Route(r)
         IN  /\ GoodRouter(new, g, to)
             /\ \A t \in Sides : new.interfaces_[t].datagrams_in_ = << >>
             /\ \A seg : AtRouter(new, seg)
                           <= AtRouter(r, seg) + Input(r.interfaces_[s].datagrams_in_, seg)
<1> DEFINE one == 1
           two == 2
           a == Drained(r, one)
           b == Drained(a, two)
           q == r.interfaces_[s].datagrams_in_
<1>1. /\ one \in Sides /\ two \in Sides /\ Sides = {one, two}
      /\ one \in Sides \ {two} /\ two \in Sides \ {one}
  BY DEF Sides
<1>2. Route(r) = b
  <2>1. r.interfaces_ = <<r.interfaces_[1], r.interfaces_[2]>>
    BY DEF GoodRouter
  <2> DEFINE u == r.interfaces_[1]
             v == r.interfaces_[2]
  <2>2. r.interfaces_ = <<u, v>>
    BY <2>1
  <2>3. Len(r.interfaces_) = 2
    <3> HIDE DEF u, v
    <3>1. QED
      BY <2>2
  <2>4. QED
    BY <2>3, RouteSteps
<1> HIDE DEF one, two
<1>3. \A seg : Input(<< >>, seg) = 0 /\ Input(q, seg) \in Nat
  BY DEF Input, Bears
<1>4. \A t \in Sides :
        r.interfaces_[t].datagrams_in_
          \in {<< >>} \cup {<<d>> : d \in Arriving(RouterIp[g][t], to)}
  OBVIOUS
<1>5. /\ GoodRouter(a, g, to)
      /\ a.interfaces_[one].datagrams_in_ = << >>
      /\ a.interfaces_[two].datagrams_in_ = r.interfaces_[two].datagrams_in_
      /\ \A seg : AtRouter(a, seg)
                    <= AtRouter(r, seg) + Input(r.interfaces_[one].datagrams_in_, seg)
  BY <1>1, <1>4, DrainedGood
<1> HIDE DEF a
<1>6. a.interfaces_[two].datagrams_in_
        \in {<< >>} \cup {<<d>> : d \in Arriving(RouterIp[g][two], to)}
  BY <1>1, <1>4, <1>5
<1>7. /\ GoodRouter(b, g, to)
      /\ b.interfaces_[two].datagrams_in_ = << >>
      /\ b.interfaces_[one].datagrams_in_ = a.interfaces_[one].datagrams_in_
      /\ \A seg : AtRouter(b, seg)
                    <= AtRouter(a, seg) + Input(a.interfaces_[two].datagrams_in_, seg)
  <2>1. /\ GoodRouter(b, g, to)
        /\ b.interfaces_[two].datagrams_in_ = << >>
        /\ \A t \in Sides \ {two} :
             b.interfaces_[t].datagrams_in_ = a.interfaces_[t].datagrams_in_
        /\ \A seg : AtRouter(b, seg)
                      <= AtRouter(a, seg) + Input(a.interfaces_[two].datagrams_in_, seg)
    BY <1>1, <1>5, <1>6, DrainedGood
  <2>2. QED
    BY <1>1, <2>1
<1> HIDE DEF b
<1>8. \A seg : AtRouter(r, seg) \in Nat /\ AtRouter(a, seg) \in Nat /\ AtRouter(b, seg) \in Nat
  BY <1>5, <1>7, AtRouterType
<1>9. ASSUME NEW seg
      PROVE  AtRouter(b, seg) <= AtRouter(r, seg) + Input(q, seg)
  <2>1. CASE s = one
    <3>1. a.interfaces_[two].datagrams_in_ = << >>
      BY <1>1, <1>5, <2>1
    <3>2. QED
      BY <1>3, <1>5, <1>7, <1>8, <2>1, <3>1
  <2>2. CASE s = two
    <3>1. r.interfaces_[one].datagrams_in_ = << >>
      BY <1>1, <2>2
    <3>2. QED
      BY <1>3, <1>5, <1>7, <1>8, <2>2, <3>1
  <2>3. QED
    BY <1>1, <2>1, <2>2
<1>10. QED
  BY <1>1, <1>2, <1>5, <1>7, <1>9

\* What a thread does with its router when a frame has arrived.
Arrived(r, side, f) ==
  Route(WithInterface(r, side, AsyncRecvFrame(r.interfaces_[side], f)))

LEMMA ArrivedGood ==
  ASSUME NEW g \in Host, NEW r, NEW to, GoodRouter(r, g, to), NEW s \in Sides,
         \A t \in Sides : r.interfaces_[t].datagrams_in_ = << >>, NEW f \in Frame(to)
  PROVE  LET new == Arrived(r, s, f)
         IN  /\ GoodRouter(new, g, to)
             /\ \A t \in Sides : new.interfaces_[t].datagrams_in_ = << >>
             /\ \A seg : AtRouter(new, seg) <= AtRouter(r, seg) + Weight(f, seg)
<1> DEFINE n   == r.interfaces_[s]
           got == RecvFrame(n, f)
           m   == AsyncRecvFrame(n, f)
           mid == WithInterface(r, s, m)
<1>1. /\ GoodInterface(n, RouterEthernet[g][s], RouterIp[g][s], to)
      /\ "datagrams_in_" \in DOMAIN n /\ n.datagrams_in_ = << >>
  BY DEF GoodRouter
<1>2. Owns(RouterIp[g][s], RouterEthernet[g][s])
  BY DEF Owns, Sides
<1> HIDE DEF n
<1>3. /\ GoodInterface(got.interface, RouterEthernet[g][s], RouterIp[g][s], to)
      /\ KeepsInput(n, got.interface)
      /\ \A seg : AtInterface(got.interface, seg) = AtInterface(n, seg)
      /\ got.datagram # NoDatagram =>
           /\ f \in DataFrame(to) /\ got.datagram = f.payload
           /\ f.payload \in OnTheWay(f.src, RouterIp[g][s], to)
           /\ \A seg : Weight(f, seg) = Bears(f.payload, seg)
  BY <1>1, <1>2, RecvGood
<1> HIDE DEF got
<1>4. /\ GoodInterface(m, RouterEthernet[g][s], RouterIp[g][s], to)
      /\ "datagrams_in_" \in DOMAIN m
      /\ m.datagrams_in_ \in {<< >>} \cup {<<d>> : d \in Arriving(RouterIp[g][s], to)}
      /\ \A seg : AtInterface(m, seg) = AtInterface(n, seg)
      /\ \A seg : Input(m.datagrams_in_, seg) <= Weight(f, seg)
  <2>1. CASE got.datagram = NoDatagram
    <3>1. m = got.interface
      BY <2>1 DEF AsyncRecvFrame, got
    <3>2. m.datagrams_in_ = << >> /\ "datagrams_in_" \in DOMAIN m
      BY <1>1, <1>3, <3>1 DEF KeepsInput
    <3> HIDE DEF m
    <3>3. QED
      BY <1>3, <3>1, <3>2 DEF Input, Weight
  <2>2. CASE got.datagram # NoDatagram
    <3> DEFINE l == got.interface
               d == f.payload
    <3>1. m = [l EXCEPT !.datagrams_in_ = Append(@, got.datagram)]
      BY <2>2 DEF AsyncRecvFrame, got
    <3> HIDE DEF m
    <3>2. l.datagrams_in_ = << >> /\ "datagrams_in_" \in DOMAIN l
      BY <1>1, <1>3 DEF KeepsInput
    <3>3. Append(<< >>, d) = <<d>>
      OBVIOUS
    <3> HIDE DEF l
    <3>4. /\ m.maybe_send_queue = l.maybe_send_queue /\ DOMAIN m = DOMAIN l
          /\ m.ip_addr_to_ethernet_datagram_queue = l.ip_addr_to_ethernet_datagram_queue
          /\ m.ip_addr_to_ethernet_addr = l.ip_addr_to_ethernet_addr
          /\ m.ethernet_address_ = l.ethernet_address_ /\ m.ip_address_ = l.ip_address_
          /\ m.datagrams_in_ = <<d>>
      BY <1>3, <2>2, <3>1, <3>2, <3>3
    <3>5. GoodInterface(m, RouterEthernet[g][s], RouterIp[g][s], to)
      BY <1>3, <3>4 DEF GoodInterface, HasFields, Known, Asked, l
    <3>6. \A seg : AtInterface(m, seg) = AtInterface(n, seg)
      BY <1>3, <3>4 DEF AtInterface, Kept, Asked, l
    <3>7. d \in Arriving(RouterIp[g][s], to)
      BY <1>3, <2>2 DEF Arriving, DataFrame, OnTheWay
    <3>8. \A seg : Input(<<d>>, seg) = Weight(f, seg) /\ Weight(f, seg) \in Nat
      BY <1>3, <2>2 DEF Input, Weight
    <3>9. QED
      BY <3>2, <3>4, <3>5, <3>6, <3>7, <3>8
  <2>3. QED
    BY <2>1, <2>2
<1> HIDE DEF m
<1>5. /\ GoodRouter(mid, g, to) /\ mid.interfaces_[s] = m
      /\ \A t \in Sides \ {s} : mid.interfaces_[t] = r.interfaces_[t]
      /\ \A seg : AtRouter(mid, seg) + AtInterface(n, seg) = AtRouter(r, seg) + AtInterface(m, seg)
      /\ \A seg : AtRouter(mid, seg) \in Nat /\ AtRouter(r, seg) \in Nat
  BY <1>4, InterfaceReplaced DEF n
<1>6. Arrived(r, s, f) = Route(mid)
  BY DEF Arrived, m, n
<1> HIDE DEF mid
<1>10. /\ mid.interfaces_[s].datagrams_in_
            \in {<< >>} \cup {<<d>> : d \in Arriving(RouterIp[g][s], to)}
       /\ \A t \in Sides \ {s} : mid.interfaces_[t].datagrams_in_ = << >>
       /\ mid.interfaces_[s].datagrams_in_ = m.datagrams_in_
  BY <1>4, <1>5
<1>7. /\ GoodRouter(Route(mid), g, to)
      /\ \A t \in Sides : Route(mid).interfaces_[t].datagrams_in_ = << >>
      /\ \A seg : AtRouter(Route(mid), seg) <= AtRouter(mid, seg) + Input(m.datagrams_in_, seg)
  BY <1>5, <1>10, RouteGood
<1>8. ASSUME NEW seg
      PROVE  AtRouter(Route(mid), seg) <= AtRouter(r, seg) + Weight(f, seg)
  <2>1. AtInterface(n, seg) \in Nat
    BY <1>1, KeptType
  <2>2. Input(m.datagrams_in_, seg) \in Nat /\ Weight(f, seg) \in Nat
    BY DEF Input, Bears, Weight
  <2>3. AtRouter(Route(mid), seg) \in Nat
    BY <1>7, AtRouterType
  <2>4. QED
    BY <1>4, <1>5, <1>7, <2>1, <2>2, <2>3
<1>9. QED
  BY <1>6, <1>7, <1>8
-----------------------------------------------------------------------------
(* Sequences that grow. *)
LEMMA Appended ==
  ASSUME NEW S, NEW p \in Seq(S), NEW b \in S, NEW t \in Seq(S), Len(t) = Len(p) + 1,
         \A i \in 1..Len(p) : t[i] = p[i], t[Len(t)] = b
  PROVE  Append(p, b) = t
<1> DEFINE q == Append(p, b)
<1>1. /\ q \in Seq(S) /\ Len(q) = Len(t) /\ Len(p) \in Nat
      /\ \A i \in 1..Len(p) : q[i] = p[i]
      /\ q[Len(t)] = b
  BY AppendProperties
<1> HIDE DEF q
<1>2. \A i \in 1..Len(q) : q[i] = t[i]
  BY <1>1
<1>3. q = t
  BY <1>1, <1>2, SeqEqual
<1>4. QED
  BY <1>3 DEF q

LEMMA AppendToOne ==
  ASSUME NEW a, NEW b
  PROVE  Append(<<a>>, b) = <<a, b>>
<1> DEFINE S == {a, b}
           p == <<a>>
           t == <<a, b>>
<1>1. /\ p \in Seq(S) /\ b \in S /\ t \in Seq(S) /\ Len(t) = Len(p) + 1
      /\ \A i \in 1..Len(p) : t[i] = p[i]
      /\ t[Len(t)] = b
  OBVIOUS
<1> HIDE DEF S, p, t
<1>2. Append(p, b) = t
  BY <1>1, Appended
<1>3. QED
  BY <1>2 DEF p, t

LEMMA AppendToTwo ==
  ASSUME NEW a, NEW b, NEW c
  PROVE  Append(<<a, b>>, c) = <<a, b, c>>
<1> DEFINE S == {a, b, c}
           p == <<a, b>>
           t == <<a, b, c>>
<1>1. /\ p \in Seq(S) /\ c \in S /\ t \in Seq(S) /\ Len(t) = Len(p) + 1
      /\ \A i \in 1..Len(p) : t[i] = p[i]
      /\ t[Len(t)] = c
  OBVIOUS
<1> HIDE DEF S, p, t
<1>2. Append(p, c) = t
  BY <1>1, Appended
<1>3. QED
  BY <1>2 DEF p, t

LEMMA AppendToThree ==
  ASSUME NEW a, NEW b, NEW c, NEW d
  PROVE  Append(<<a, b, c>>, d) = <<a, b, c, d>>
<1> DEFINE S == {a, b, c, d}
           p == <<a, b, c>>
           t == <<a, b, c, d>>
<1>1. /\ p \in Seq(S) /\ d \in S /\ t \in Seq(S) /\ Len(t) = Len(p) + 1
      /\ \A i \in 1..Len(p) : t[i] = p[i]
      /\ t[Len(t)] = d
  OBVIOUS
<1> HIDE DEF S, p, t
<1>2. Append(p, d) = t
  BY <1>1, Appended
<1>3. QED
  BY <1>2 DEF p, t

-----------------------------------------------------------------------------
(* A round of a thread serves at most one rule. *)
Rules == {FromHost, ToHost, ToInternet, FromInternet}

LEMMA RulesFacts ==
  /\ FromHost # ToHost /\ FromHost # ToInternet /\ FromHost # FromInternet
  /\ ToHost # ToInternet /\ ToHost # FromInternet /\ ToInternet # FromInternet
  /\ FrameRules \in Seq(Rules) /\ DOMAIN FrameRules = 1..4
  /\ \A k \in 1..4 : FrameRules[k] \in Rules
<1>1. /\ FromHost.name # ToHost.name /\ FromHost.name # ToInternet.name
      /\ FromHost.name # FromInternet.name /\ ToHost.name # ToInternet.name
      /\ ToHost.name # FromInternet.name /\ ToInternet.name # FromInternet.name
  BY DEF FromHost, ToHost, ToInternet, FromInternet
<1>2. /\ FromHost # ToHost /\ FromHost # ToInternet /\ FromHost # FromInternet
      /\ ToHost # ToInternet /\ ToHost # FromInternet /\ ToInternet # FromInternet
  BY <1>1
<1>3. /\ FromHost \in Rules /\ ToHost \in Rules /\ ToInternet \in Rules
      /\ FromInternet \in Rules
  BY DEF Rules
<1>4. /\ FrameRules \in Seq(Rules) /\ DOMAIN FrameRules = 1..4
      /\ \A k \in 1..4 : FrameRules[k] \in Rules
  <2>1. FrameRules \in Seq(Rules) /\ Len(FrameRules) = 4
    BY <1>3 DEF FrameRules
  <2> HIDE DEF FrameRules
  <2>2. QED
    BY <2>1, LenProperties, ElementOfSeq
<1>5. QED
  BY <1>2, <1>4

PruneStep(acc, rule) ==
  IF NeverEnds(acc.x, rule) THEN [acc EXCEPT !.x = KeepsState(@, rule)]
  ELSE [acc EXCEPT !.rules = Append(@, rule),
                   !.wanted = @ \cup {r \in {rule} : FrameInterested(acc.x, r)}]

Before(x) == [x |-> x, rules |-> << >>, wanted |-> {}]

LEMMA PrunedSteps ==
  ASSUME NEW x
  PROVE  \E f : /\ f[0] = Before(x)
                /\ \A k \in 0..3 : f[k + 1] = PruneStep(f[k], FrameRules[k + 1])
                /\ FrameLoop!Pruned(x, FrameRules) = f[4]
<1> DEFINE S     == [x : {x}, rules : Seq(Rules), wanted : SUBSET Rules]
           step  == [p \in S \X (1..4) |-> PruneStep(p[1], FrameRules[p[2]])]
           base  == Before(x)
           Is(f) == f = [s \in SUBSET (DOMAIN FrameRules) |->
                           IF s = {} THEN base
                           ELSE PruneStep(f[s \ {Max(s)}], FrameRules[Max(s)])]
           F     == CHOOSE f : Is(f)
<1>1. base \in S
  BY DEF Before
<1>2. step \in [S \X (1..4) -> S]
  <2>1. ASSUME NEW acc \in S, NEW rule \in Rules
        PROVE  PruneStep(acc, rule) \in S
    <3> DEFINE v == acc.wanted \cup {r \in {rule} : FrameInterested(acc.x, r)}
               q == Append(acc.rules, rule)
    <3>1. PruneStep(acc, rule) = [acc EXCEPT !.rules = q, !.wanted = v]
      BY DEF PruneStep, NeverEnds
    <3>2. q \in Seq(Rules) /\ v \in SUBSET Rules
      OBVIOUS
    <3> HIDE DEF v, q
    <3>3. QED
      BY <3>1, <3>2
  <2> HIDE DEF S
  <2>2. QED
    BY <2>1, RulesFacts
<1>3. \E f : Is(f)
  <2>1. 4 \in Nat
    OBVIOUS
  <2>2. PICK it : FoldsOver(it, 4, S, base, step)
    <3> HIDE DEF S, step, base
    <3>1. QED
      BY <1>1, <1>2, <2>1, FoldExists
  <2>3. ASSUME NEW s \in SUBSET (1..4), s # {}
        PROVE  it[s] = PruneStep(it[s \ {Max(s)}], FrameRules[Max(s)])
    <3>1. Max(s) \in 1..4 /\ s \ {Max(s)} \in SUBSET (1..4)
      BY <2>1, <2>3, MaxOf
    <3>2. it[s \ {Max(s)}] \in S /\ it[s] = step[<<it[s \ {Max(s)}], Max(s)>>]
      <4> HIDE DEF S, step, base
      <4>1. QED
        BY <2>2, <2>3, <3>1 DEF FoldsOver
    <3> HIDE DEF S
    <3>3. QED
      BY <3>1, <3>2
  <2>4. it = [s \in SUBSET (1..4) |-> it[s]] /\ it[{}] = base
    <3> HIDE DEF S, step, base
    <3>1. QED
      BY <2>2 DEF FoldsOver
  <2>5. Is(it)
    <3> HIDE DEF base
    <3>1. QED
      BY <2>3, <2>4, RulesFacts
  <2>6. QED
    BY <2>5
<1>4. Is(F)
  BY <1>3
<1>5. FrameLoop!Pruned(x, FrameRules) = F[DOMAIN FrameRules]
  BY DEF FrameLoop!Pruned, FrameLoop!FoldLeft, FrameLoop!MapThenFoldSet, Max, FrameLoop!Max,
         PruneStep, Before
<1> HIDE DEF F, base
<1> DEFINE f == [k \in 0..4 |-> F[1..k]]
<1>6. \A s \in SUBSET (1..4) :
        F[s] = IF s = {} THEN base ELSE PruneStep(F[s \ {Max(s)}], FrameRules[Max(s)])
  BY <1>4, RulesFacts
<1>7. f[0] = base
  <2>1. 1..0 = {} /\ 1..0 \in SUBSET (1..4) /\ 0 \in 0..4
    OBVIOUS
  <2>2. QED
    BY <1>6, <2>1
<1>8. ASSUME NEW k \in 0..3
      PROVE  f[k + 1] = PruneStep(f[k], FrameRules[k + 1])
  <2>1. k \in Nat /\ k \in 0..4 /\ k + 1 \in 0..4 /\ 1..k + 1 \in SUBSET (1..4)
    OBVIOUS
  <2>2. /\ 1..k + 1 # {} /\ Max(1..k + 1) = k + 1
        /\ (1..k + 1) \ {Max(1..k + 1)} = 1..k
    BY <2>1, FoldPrefix
  <2>3. F[1..k + 1] = PruneStep(F[1..k], FrameRules[k + 1])
    BY <1>6, <2>1, <2>2
  <2>4. QED
    BY <2>1, <2>3
<1>9. FrameLoop!Pruned(x, FrameRules) = f[4]
  BY <1>5, RulesFacts
<1> HIDE DEF f
<1>10. QED
  BY <1>7, <1>8, <1>9 DEF base

LEMMA PrunedGood ==
  ASSUME NEW x
  PROVE  LET polled == FrameLoop!Pruned(x, FrameRules)
         IN  /\ polled = [x |-> x, rules |-> FrameRules, wanted |-> polled.wanted]
             /\ \A rule \in polled.wanted : rule \in Rules /\ FrameInterested(x, rule)
<1>1. PICK f : /\ f[0] = Before(x)
               /\ \A k \in 0..3 : f[k + 1] = PruneStep(f[k], FrameRules[k + 1])
               /\ FrameLoop!Pruned(x, FrameRules) = f[4]
  BY PrunedSteps
<1> DEFINE Is(acc, q) == /\ acc = [x |-> x, rules |-> q, wanted |-> acc.wanted]
                         /\ \A rule \in acc.wanted :
                              rule \in Rules /\ FrameInterested(x, rule)
<1>2. Is(f[0], << >>)
  BY <1>1 DEF Before
<1>3. ASSUME NEW k \in 0..3, NEW m \in 1..4, m = k + 1, NEW q, Is(f[k], q)
      PROVE  Is(f[m], Append(q, FrameRules[m]))
  <2> DEFINE acc == f[k]
             rule == FrameRules[m]
             w == acc.wanted \cup {r \in {rule} : FrameInterested(x, r)}
             p == Append(q, rule)
  <2>1. f[m] = PruneStep(acc, rule)
    BY <1>1, <1>3
  <2>2. acc = [x |-> x, rules |-> q, wanted |-> acc.wanted]
    BY <1>3
  <2>3. PruneStep(acc, rule) = [x |-> x, rules |-> p, wanted |-> w]
    <3> HIDE DEF acc, rule
    <3>1. PruneStep(acc, rule)
            = [acc EXCEPT !.rules = Append(@, rule),
                          !.wanted = @ \cup {r \in {rule} : FrameInterested(acc.x, r)}]
      BY DEF PruneStep, NeverEnds
    <3>2. acc.x = x /\ acc.rules = q /\ DOMAIN acc = {"x", "rules", "wanted"}
      BY <2>2
    <3>3. QED
      BY <2>2, <3>1, <3>2
  <2>4. \A r \in w : r \in Rules /\ FrameInterested(x, r)
    BY <1>3, RulesFacts
  <2> HIDE DEF w, p, acc
  <2>5. f[m] = [x |-> x, rules |-> p, wanted |-> w]
    BY <2>1, <2>3
  <2>6. QED
    BY <2>4, <2>5 DEF p
<1>4. /\ FrameRules[1] = FromHost /\ FrameRules[2] = ToHost
      /\ FrameRules[3] = ToInternet /\ FrameRules[4] = FromInternet
  BY DEF FrameRules
<1> HIDE DEF Is
<1>5. Is(f[1], <<FromHost>>)
  <2>1. 0 \in 0..3 /\ 1 \in 1..4 /\ 1 = 0 + 1
    OBVIOUS
  <2>2. Is(f[1], Append(<< >>, FrameRules[1]))
    BY <1>3, <1>2, <2>1
  <2>3. Append(<< >>, FromHost) = <<FromHost>>
    OBVIOUS
  <2>4. QED
    BY <1>4, <2>2, <2>3
<1>6. Is(f[2], <<FromHost, ToHost>>)
  <2>1. 1 \in 0..3 /\ 2 \in 1..4 /\ 2 = 1 + 1
    OBVIOUS
  <2>2. Is(f[2], Append(<<FromHost>>, FrameRules[2]))
    <3> DEFINE q == <<FromHost>>
    <3>1. Is(f[1], q)
      BY <1>5
    <3> HIDE DEF q
    <3>2. Is(f[2], Append(q, FrameRules[2]))
      BY <1>3, <2>1, <3>1
    <3>3. QED
      BY <3>2 DEF q
  <2>3. Append(<<FromHost>>, ToHost) = <<FromHost, ToHost>>
    BY AppendToOne
  <2>4. QED
    BY <1>4, <2>2, <2>3
<1>7. Is(f[3], <<FromHost, ToHost, ToInternet>>)
  <2>1. 2 \in 0..3 /\ 3 \in 1..4 /\ 3 = 2 + 1
    OBVIOUS
  <2>2. Is(f[3], Append(<<FromHost, ToHost>>, FrameRules[3]))
    <3> DEFINE q == <<FromHost, ToHost>>
    <3>1. Is(f[2], q)
      BY <1>6
    <3> HIDE DEF q
    <3>2. Is(f[3], Append(q, FrameRules[3]))
      BY <1>3, <2>1, <3>1
    <3>3. QED
      BY <3>2 DEF q
  <2>3. Append(<<FromHost, ToHost>>, ToInternet) = <<FromHost, ToHost, ToInternet>>
    BY AppendToTwo
  <2>4. QED
    BY <1>4, <2>2, <2>3
<1>8. Is(f[4], FrameRules)
  <2>1. 3 \in 0..3 /\ 4 \in 1..4 /\ 4 = 3 + 1
    OBVIOUS
  <2>2. Is(f[4], Append(<<FromHost, ToHost, ToInternet>>, FrameRules[4]))
    <3> DEFINE q == <<FromHost, ToHost, ToInternet>>
    <3>1. Is(f[3], q)
      BY <1>7
    <3> HIDE DEF q
    <3>2. Is(f[4], Append(q, FrameRules[4]))
      BY <1>3, <2>1, <3>1
    <3>3. QED
      BY <3>2 DEF q
  <2>3. Append(<<FromHost, ToHost, ToInternet>>, FromInternet) = <<FromHost, ToHost, ToInternet, FromInternet>>
    BY AppendToThree
  <2>4. QED
    BY <1>4, <2>2, <2>3 DEF FrameRules
<1>9. /\ f[4] = [x |-> x, rules |-> FrameRules, wanted |-> f[4].wanted]
      /\ \A rule \in f[4].wanted : rule \in Rules /\ FrameInterested(x, rule)
  BY <1>8 DEF Is
<1>10. QED
  BY <1>1, <1>9
ServeStep(polled, acc, rule) ==
  IF acc.result # "None" THEN [acc EXCEPT !.rules = Append(@, rule)]
  ELSE IF FrameLoop!Gone(polled, rule) THEN [acc EXCEPT !.x = KeepsState(@, rule)]
  ELSE IF FrameLoop!Ready(polled, rule)
  THEN FrameLoop!CalledBack(acc, rule, FrameCall(acc.x, rule))
  ELSE [acc EXCEPT !.rules = Append(@, rule)]

Polled(x, wanted) == [x |-> x, rules |-> FrameRules, wanted |-> wanted]

Unserved(x) == [x |-> x, rules |-> << >>, result |-> "None"]

\* The states that the rules of a set can bring about.
Reached(x, rules) == {x} \cup {FrameCall(x, rule) : rule \in rules}

\* Nothing has been served, or a rule that was interested and ready.
ServedAs(x, wanted, acc) ==
  /\ acc \in [x : Reached(x, Rules), rules : Seq(Rules), result : {"None", "Success"}]
  /\ acc.x = x \/ \E rule \in wanted : FramePollable(x, rule) /\ acc.x = FrameCall(x, rule)
  /\ acc.result = "None" => acc.x = x

LEMMA ServeStepGood ==
  ASSUME NEW x, NEW wanted, NEW acc, NEW rule \in Rules, ServedAs(x, wanted, acc)
  PROVE  LET new == ServeStep(Polled(x, wanted), acc, rule)
         IN  ServedAs(x, wanted, new) /\ new.rules = Append(acc.rules, rule)
<1> DEFINE polled == Polled(x, wanted)
           new == ServeStep(polled, acc, rule)
           q == Append(acc.rules, rule)
<1>1. /\ ~FrameLoop!Gone(polled, rule)
      /\ FrameLoop!Ready(polled, rule) <=> rule \in wanted /\ FramePollable(x, rule)
  BY DEF FrameLoop!Gone, FrameLoop!Ready, NeverEnds, Polled
<1>2. q \in Seq(Rules)
  BY DEF ServedAs
<1> HIDE DEF q, polled
<1>3. acc \in [x : Reached(x, Rules), rules : Seq(Rules), result : {"None", "Success"}]
  BY DEF ServedAs
<1>4. CASE ~(acc.result = "None" /\ FrameLoop!Ready(polled, rule))
  <2>1. new = [acc EXCEPT !.rules = q]
    BY <1>1, <1>4 DEF ServeStep, q
  <2> HIDE DEF new
  <2>2. /\ new.x = acc.x /\ new.rules = q /\ new.result = acc.result
        /\ new \in [x : Reached(x, Rules), rules : Seq(Rules), result : {"None", "Success"}]
    BY <1>2, <1>3, <2>1
  <2>3. QED
    BY <2>2 DEF ServedAs, new, q, polled
<1>5. CASE acc.result = "None" /\ FrameLoop!Ready(polled, rule)
  <2> DEFINE y == FrameCall(x, rule)
  <2>1. acc.x = x
    BY <1>5 DEF ServedAs
  <2>2. new = [x |-> y, rules |-> q, result |-> "Success"]
    BY <1>1, <1>5, <2>1 DEF ServeStep, q, FrameLoop!CalledBack, ServesAlways
  <2>3. y \in Reached(x, Rules)
    BY DEF Reached
  <2>4. \E r \in wanted : FramePollable(x, r) /\ y = FrameCall(x, r)
    BY <1>1, <1>5
  <2> HIDE DEF new, y
  <2>5. /\ new.x = y /\ new.rules = q /\ new.result = "Success"
        /\ new \in [x : Reached(x, Rules), rules : Seq(Rules), result : {"None", "Success"}]
    BY <1>2, <2>2, <2>3
  <2>6. QED
    BY <2>4, <2>5 DEF ServedAs, new, q, polled
<1>6. QED
  BY <1>4, <1>5

LEMMA ServedSteps ==
  ASSUME NEW x, NEW wanted
  PROVE  \E f : /\ f[0] = Unserved(x)
                /\ \A k \in 0..3 :
                     f[k + 1] = ServeStep(Polled(x, wanted), f[k], FrameRules[k + 1])
                /\ FrameLoop!Served(Polled(x, wanted)) = f[4]
<1> DEFINE T     == [x : Reached(x, Rules), rules : Seq(Rules), result : {"None", "Success"}]
           S     == {acc \in T : ServedAs(x, wanted, acc)}
           polled == Polled(x, wanted)
           step  == [p \in S \X (1..4) |-> ServeStep(polled, p[1], FrameRules[p[2]])]
           base  == Unserved(x)
           Is(f) == f = [s \in SUBSET (DOMAIN FrameRules) |->
                           IF s = {} THEN base
                           ELSE ServeStep(polled, f[s \ {Max(s)}], FrameRules[Max(s)])]
           F     == CHOOSE f : Is(f)
<1>1. base \in S
  <2>1. << >> \in Seq(Rules)
    BY EmptySeq
  <2>2. base \in T
    BY <2>1 DEF Unserved, Reached
  <2>3. base.x = x
    BY DEF Unserved
  <2> HIDE DEF base, T
  <2>4. QED
    BY <2>2, <2>3 DEF ServedAs, T
<1>2. step \in [S \X (1..4) -> S]
  <2>1. ASSUME NEW acc \in S, NEW rule \in Rules
        PROVE  ServeStep(polled, acc, rule) \in S
    <3>1. ServedAs(x, wanted, ServeStep(polled, acc, rule))
      BY ServeStepGood
    <3> HIDE DEF polled
    <3>2. QED
      BY <3>1 DEF ServedAs
  <2> HIDE DEF S, polled
  <2>2. QED
    BY <2>1, RulesFacts
<1>3. \E f : Is(f)
  <2> HIDE DEF polled
  <2>1. 4 \in Nat
    OBVIOUS
  <2>2. PICK it : FoldsOver(it, 4, S, base, step)
    <3> HIDE DEF S, step, base
    <3>1. QED
      BY <1>1, <1>2, <2>1, FoldExists
  <2>3. ASSUME NEW s \in SUBSET (1..4), s # {}
        PROVE  it[s] = ServeStep(polled, it[s \ {Max(s)}], FrameRules[Max(s)])
    <3>1. Max(s) \in 1..4 /\ s \ {Max(s)} \in SUBSET (1..4)
      BY <2>1, <2>3, MaxOf
    <3>2. it[s \ {Max(s)}] \in S /\ it[s] = step[<<it[s \ {Max(s)}], Max(s)>>]
      <4> HIDE DEF S, step, base
      <4>1. QED
        BY <2>2, <2>3, <3>1 DEF FoldsOver
    <3> HIDE DEF S
    <3>3. QED
      BY <3>1, <3>2
  <2>4. it = [s \in SUBSET (1..4) |-> it[s]] /\ it[{}] = base
    <3> HIDE DEF S, step, base
    <3>1. QED
      BY <2>2 DEF FoldsOver
  <2>5. Is(it)
    <3> HIDE DEF base
    <3>1. QED
      BY <2>3, <2>4, RulesFacts
  <2>6. QED
    BY <2>5
<1>4. Is(F)
  BY <1>3
<1>5. FrameLoop!Served(polled) = F[DOMAIN FrameRules]
  <2>1. polled.x = x /\ polled.rules = FrameRules
    BY DEF Polled
  <2> HIDE DEF polled
  <2>2. QED
    BY <2>1 DEF FrameLoop!Served, FrameLoop!FoldLeft, FrameLoop!MapThenFoldSet, Max, FrameLoop!Max,
         ServeStep, Unserved
<1> HIDE DEF F, base, polled
<1> DEFINE f == [k \in 0..4 |-> F[1..k]]
<1>6. \A s \in SUBSET (1..4) :
        F[s] = IF s = {} THEN base ELSE ServeStep(polled, F[s \ {Max(s)}], FrameRules[Max(s)])
  BY <1>4, RulesFacts
<1>7. f[0] = base
  <2>1. 1..0 = {} /\ 1..0 \in SUBSET (1..4) /\ 0 \in 0..4
    OBVIOUS
  <2>2. QED
    BY <1>6, <2>1
<1>8. ASSUME NEW k \in 0..3
      PROVE  f[k + 1] = ServeStep(polled, f[k], FrameRules[k + 1])
  <2>1. k \in Nat /\ k \in 0..4 /\ k + 1 \in 0..4 /\ 1..k + 1 \in SUBSET (1..4)
    OBVIOUS
  <2>2. /\ 1..k + 1 # {} /\ Max(1..k + 1) = k + 1
        /\ (1..k + 1) \ {Max(1..k + 1)} = 1..k
    BY <2>1, FoldPrefix
  <2>3. F[1..k + 1] = ServeStep(polled, F[1..k], FrameRules[k + 1])
    BY <1>6, <2>1, <2>2
  <2>4. QED
    BY <2>1, <2>3
<1>9. FrameLoop!Served(polled) = f[4]
  BY <1>5, RulesFacts
<1> HIDE DEF f
<1>10. QED
  BY <1>7, <1>8, <1>9 DEF base, polled

LEMMA ServedGood ==
  ASSUME NEW x, NEW wanted
  PROVE  LET served == FrameLoop!Served(Polled(x, wanted))
         IN  ServedAs(x, wanted, served) /\ served.rules = FrameRules
<1>1. PICK f : /\ f[0] = Unserved(x)
               /\ \A k \in 0..3 :
                    f[k + 1] = ServeStep(Polled(x, wanted), f[k], FrameRules[k + 1])
               /\ FrameLoop!Served(Polled(x, wanted)) = f[4]
  BY ServedSteps
<1> DEFINE polled == Polled(x, wanted)
<1>2. ServedAs(x, wanted, f[0]) /\ f[0].rules = << >>
  BY <1>1 DEF Unserved, ServedAs, Reached
<1>3. /\ FrameRules[1] = FromHost /\ FrameRules[2] = ToHost
      /\ FrameRules[3] = ToInternet /\ FrameRules[4] = FromInternet
  BY DEF FrameRules
<1>4. /\ FromHost \in Rules /\ ToHost \in Rules /\ ToInternet \in Rules /\ FromInternet \in Rules
  BY DEF Rules
<1> HIDE DEF polled
<1>5. /\ f[1] = ServeStep(polled, f[0], FromHost)
      /\ f[2] = ServeStep(polled, f[1], ToHost)
      /\ f[3] = ServeStep(polled, f[2], ToInternet)
      /\ f[4] = ServeStep(polled, f[3], FromInternet)
  <2>1. f[0 + 1] = ServeStep(polled, f[0], FrameRules[0 + 1])
    BY <1>1 DEF polled
  <2>2. f[1 + 1] = ServeStep(polled, f[1], FrameRules[1 + 1])
    BY <1>1 DEF polled
  <2>3. f[2 + 1] = ServeStep(polled, f[2], FrameRules[2 + 1])
    BY <1>1 DEF polled
  <2>4. f[3 + 1] = ServeStep(polled, f[3], FrameRules[3 + 1])
    BY <1>1 DEF polled
  <2>5. 0 + 1 = 1 /\ 1 + 1 = 2 /\ 2 + 1 = 3 /\ 3 + 1 = 4
    OBVIOUS
  <2>6. QED
    BY <1>3, <2>1, <2>2, <2>3, <2>4, <2>5
<1>6. ServedAs(x, wanted, f[1]) /\ f[1].rules = <<FromHost>>
  <2>1. ServedAs(x, wanted, f[1]) /\ f[1].rules = Append(f[0].rules, FromHost)
    BY <1>2, <1>4, <1>5, ServeStepGood DEF polled
  <2>2. Append(<< >>, FromHost) = <<FromHost>>
    OBVIOUS
  <2>3. QED
    BY <1>2, <2>1, <2>2
<1>7. ServedAs(x, wanted, f[2]) /\ f[2].rules = <<FromHost, ToHost>>
  <2>1. ServedAs(x, wanted, f[2]) /\ f[2].rules = Append(f[1].rules, ToHost)
    <3>1. ServedAs(x, wanted, f[1])
      BY <1>6
    <3>2. QED
      BY <1>4, <1>5, <3>1, ServeStepGood DEF polled
  <2>2. Append(<<FromHost>>, ToHost) = <<FromHost, ToHost>>
    BY AppendToOne
  <2>3. QED
    BY <1>6, <2>1, <2>2
<1>8. ServedAs(x, wanted, f[3]) /\ f[3].rules = <<FromHost, ToHost, ToInternet>>
  <2>1. ServedAs(x, wanted, f[3]) /\ f[3].rules = Append(f[2].rules, ToInternet)
    <3>1. ServedAs(x, wanted, f[2])
      BY <1>7
    <3>2. QED
      BY <1>4, <1>5, <3>1, ServeStepGood DEF polled
  <2>2. Append(<<FromHost, ToHost>>, ToInternet) = <<FromHost, ToHost, ToInternet>>
    BY AppendToTwo
  <2>3. QED
    BY <1>7, <2>1, <2>2
<1>9. ServedAs(x, wanted, f[4]) /\ f[4].rules = FrameRules
  <2>1. ServedAs(x, wanted, f[4]) /\ f[4].rules = Append(f[3].rules, FromInternet)
    <3>1. ServedAs(x, wanted, f[3])
      BY <1>8
    <3>2. QED
      BY <1>4, <1>5, <3>1, ServeStepGood DEF polled
  <2>2. Append(<<FromHost, ToHost, ToInternet>>, FromInternet)
          = <<FromHost, ToHost, ToInternet, FromInternet>>
    BY AppendToThree
  <2>3. QED
    BY <1>8, <2>1, <2>2 DEF FrameRules
<1>10. QED
  BY <1>1, <1>9

(* A call of the loop leaves its rules and serves one, which was           *)
(* interested and whose descriptor was ready, or none.                     *)
LEMMA EventGood ==
  ASSUME NEW x
  PROVE  LET next == FrameLoop!WaitNextEvent(x, FrameRules)
         IN  /\ next.rules = FrameRules
             /\ \/ next.x = x
                \/ \E rule \in Rules : /\ FrameInterested(x, rule) /\ FramePollable(x, rule)
                                       /\ next.x = FrameCall(x, rule)
<1> DEFINE pruned == FrameLoop!Pruned(x, FrameRules)
           next == FrameLoop!WaitNextEvent(x, FrameRules)
           wanted == pruned.wanted
           served == FrameLoop!Served(pruned)
<1>1. /\ pruned = Polled(x, wanted) /\ pruned.x = x /\ pruned.rules = FrameRules
      /\ \A rule \in wanted : rule \in Rules /\ FrameInterested(x, rule)
  <2>1. pruned = Polled(x, wanted)
    BY PrunedGood DEF Polled
  <2> HIDE DEF pruned
  <2>2. pruned.x = x /\ pruned.rules = FrameRules
    BY <2>1 DEF Polled
  <2>3. QED
    BY <2>1, <2>2, PrunedGood DEF pruned
<1>2. ServedAs(x, wanted, served) /\ served.rules = FrameRules
  <2> HIDE DEF pruned
  <2>1. QED
    BY <1>1, ServedGood
<1>3. \/ next.x = x /\ next.rules = FrameRules
      \/ next.x = served.x /\ next.rules = served.rules
  <2> HIDE DEF served
  <2>1. next = FrameLoop!AfterPoll(pruned)
    BY DEF FrameLoop!WaitNextEvent
  <2> HIDE DEF next, pruned
  <2>2. /\ DOMAIN served = {"x", "rules", "result"}
    BY <1>2 DEF ServedAs
  <2>3. QED
    BY <1>1, <2>1, <2>2 DEF FrameLoop!AfterPoll, served
<1>4. QED
  BY <1>1, <1>2, <1>3 DEF ServedAs
-----------------------------------------------------------------------------
(* What the rules of a thread do. *)
LEMMA ThreadTypes ==
  ASSUME NEW x, NEW g, NEW to, GoodThread(x, g, to), NEW seg
  PROVE  /\ Carried(x.from_host, seg) \in Nat /\ Carried(x.to_host, seg) \in Nat
         /\ Carried(x.from_internet, seg) \in Nat /\ Carried(x.router_to_host, seg) \in Nat
         /\ Carried(x.router_to_internet, seg) \in Nat /\ Carried(x.to_internet, seg) \in Nat
         /\ AtRouter(x.router, seg) \in Nat /\ AtThread(x, seg) \in Nat
<1>1. ASSUME NEW q \in ThreadQueues
      PROVE  Carried(x[q], seg) \in Nat
  BY CarriedType DEF GoodThread
<1>2. /\ Carried(x.from_host, seg) \in Nat /\ Carried(x.to_host, seg) \in Nat
      /\ Carried(x.from_internet, seg) \in Nat /\ Carried(x.router_to_host, seg) \in Nat
      /\ Carried(x.router_to_internet, seg) \in Nat /\ Carried(x.to_internet, seg) \in Nat
  BY <1>1 DEF ThreadQueues
<1>3. AtRouter(x.router, seg) \in Nat
  BY AtRouterType DEF GoodThread
<1>4. QED
  BY <1>2, <1>3 DEF AtThread

ThreadFields == {"router", "host_side", "internet_side", "frame_rules"} \cup ThreadQueues

\* The frames at a thread, in numbers.
Numbers(x, seg) ==
  /\ Carried(x.from_host, seg) \in Nat /\ Carried(x.to_host, seg) \in Nat
  /\ Carried(x.from_internet, seg) \in Nat /\ Carried(x.router_to_host, seg) \in Nat
  /\ Carried(x.router_to_internet, seg) \in Nat /\ Carried(x.to_internet, seg) \in Nat
  /\ AtRouter(x.router, seg) \in Nat

LEMMA NumbersIn ==
  ASSUME NEW x, NEW new, NEW seg, NEW w \in Nat, Numbers(x, seg), Numbers(new, seg),
         \/ /\ Carried(x.from_host, seg) = w + Carried(new.from_host, seg)
            /\ new.from_internet = x.from_internet
         \/ /\ Carried(x.from_internet, seg) = w + Carried(new.from_internet, seg)
            /\ new.from_host = x.from_host,
         new.to_host = x.to_host, new.router_to_host = x.router_to_host,
         new.router_to_internet = x.router_to_internet, new.to_internet = x.to_internet,
         AtRouter(new.router, seg) <= AtRouter(x.router, seg) + w
  PROVE  AtThread(new, seg) <= AtThread(x, seg)
BY DEF Numbers, AtThread

LEMMA NumbersOut ==
  ASSUME NEW x, NEW new, NEW seg, NEW w \in Nat, Numbers(x, seg), Numbers(new, seg),
         \/ /\ Carried(x.router_to_host, seg) = w + Carried(new.router_to_host, seg)
            /\ Carried(new.to_host, seg) = Carried(x.to_host, seg) + w
            /\ new.router_to_internet = x.router_to_internet
            /\ new.to_internet = x.to_internet
         \/ /\ Carried(x.router_to_internet, seg) = w + Carried(new.router_to_internet, seg)
            /\ Carried(new.to_internet, seg) = Carried(x.to_internet, seg) + w
            /\ new.router_to_host = x.router_to_host /\ new.to_host = x.to_host,
         new.from_host = x.from_host, new.from_internet = x.from_internet,
         new.router = x.router
  PROVE  AtThread(new, seg) <= AtThread(x, seg)
BY DEF Numbers, AtThread

\* A frame that has come in is handed to the router.
LEMMA ComesIn ==
  ASSUME NEW g \in Host, NEW x, NEW to, GoodThread(x, g, to),
         NEW from \in {"from_host", "from_internet"}, x[from] # << >>, NEW s \in Sides, NEW new,
         new = [x EXCEPT ![from] = Tail(x[from]), !.router = Arrived(x.router, s, Head(x[from]))]
  PROVE  /\ GoodThread(new, g, to)
         /\ \A seg : AtThread(new, seg) <= AtThread(x, seg)
<1> DEFINE f == Head(x[from])
           r == Arrived(x.router, s, f)
<1>1. from \in ThreadQueues /\ x[from] \in Seq(Frame(to))
  BY DEF GoodThread, ThreadQueues
<1>2. f \in Frame(to) /\ Tail(x[from]) \in Seq(Frame(to))
  BY <1>1, HeadTailProperties
<1> HIDE DEF f
<1>3. /\ GoodRouter(r, g, to)
      /\ \A t \in Sides : r.interfaces_[t].datagrams_in_ = << >>
      /\ \A seg : AtRouter(r, seg) <= AtRouter(x.router, seg) + Weight(f, seg)
  BY <1>2, ArrivedGood DEF GoodThread
<1> HIDE DEF r
<1>4. /\ DOMAIN new = DOMAIN x /\ new.router = r /\ new[from] = Tail(x[from])
      /\ \A k \in DOMAIN x \ {from, "router"} : new[k] = x[k]
  BY DEF GoodThread, HasFields, ThreadQueues, r, f
<1>5. ThreadFields \subseteq DOMAIN x
  BY DEF GoodThread, HasFields, ThreadFields
<1>6. /\ new.host_side = x.host_side /\ new.internet_side = x.internet_side
      /\ new.frame_rules = x.frame_rules
      /\ \A q \in ThreadQueues \ {from} : new[q] = x[q]
  BY <1>4, <1>5 DEF ThreadFields, ThreadQueues
<1>7. GoodThread(new, g, to)
  <2>1. \A q \in ThreadQueues : new[q] \in Seq(Frame(to))
    BY <1>2, <1>4, <1>6 DEF GoodThread
  <2>2. QED
    BY <1>3, <1>4, <1>5, <1>6, <2>1 DEF GoodThread, HasFields, ThreadFields
<1>8. ASSUME NEW seg
      PROVE  AtThread(new, seg) <= AtThread(x, seg)
  <2>0. Numbers(x, seg) /\ Numbers(new, seg)
    BY <1>7, ThreadTypes DEF Numbers
  <2>1. Carried(x[from], seg) = Weight(f, seg) + Carried(new[from], seg)
    <3> DEFINE q == x[from]
               F == Frame(to)
    <3>1. q \in Seq(F) /\ q # << >>
      BY <1>1
    <3> HIDE DEF q, F
    <3>2. Carried(q, seg) = Weight(Head(q), seg) + Carried(Tail(q), seg)
      BY <3>1, CarriedTail
    <3>3. QED
      BY <1>4, <3>2 DEF q, f
  <2>2. /\ new.to_host = x.to_host /\ new.router_to_host = x.router_to_host
        /\ new.router_to_internet = x.router_to_internet /\ new.to_internet = x.to_internet
    BY <1>6 DEF ThreadQueues
  <2>3. /\ from = "from_host" => new.from_internet = x.from_internet
        /\ from = "from_internet" => new.from_host = x.from_host
    BY <1>6 DEF ThreadQueues
  <2>4. AtRouter(new.router, seg) <= AtRouter(x.router, seg) + Weight(f, seg)
    BY <1>3, <1>4
  <2>5. Weight(f, seg) \in Nat
    BY DEF Weight
  <2>6. CASE from = "from_host"
    <3>1. /\ Carried(x.from_host, seg) = Weight(f, seg) + Carried(new.from_host, seg)
          /\ new.from_internet = x.from_internet
      BY <2>1, <2>3, <2>6
    <3>2. QED
      BY <2>0, <2>2, <2>4, <2>5, <3>1, NumbersIn
  <2>7. CASE from = "from_internet"
    <3>1. /\ Carried(x.from_internet, seg) = Weight(f, seg) + Carried(new.from_internet, seg)
          /\ new.from_host = x.from_host
      BY <2>1, <2>3, <2>7
    <3>2. QED
      BY <2>0, <2>2, <2>4, <2>5, <3>1, NumbersIn
  <2>8. QED
    BY <2>6, <2>7
<1>9. QED
  BY <1>7, <1>8

\* A frame that the router has sent is written to a descriptor.
LEMMA GoesOut ==
  ASSUME NEW g \in Host, NEW x, NEW to, GoodThread(x, g, to), NEW from, NEW onto,
         \/ from = "router_to_host" /\ onto = "to_host"
         \/ from = "router_to_internet" /\ onto = "to_internet",
         x[from] # << >>, NEW new,
         new = [x EXCEPT ![onto] = Append(x[onto], Head(x[from])), ![from] = Tail(x[from])]
  PROVE  /\ GoodThread(new, g, to)
         /\ \A seg : AtThread(new, seg) <= AtThread(x, seg)
<1> DEFINE f == Head(x[from])
<1>1. /\ from \in ThreadQueues /\ x[from] \in Seq(Frame(to))
      /\ onto \in ThreadQueues /\ x[onto] \in Seq(Frame(to)) /\ from # onto
  BY DEF GoodThread, ThreadQueues
<1>2. /\ f \in Frame(to) /\ Tail(x[from]) \in Seq(Frame(to))
      /\ Append(x[onto], f) \in Seq(Frame(to))
  BY <1>1, HeadTailProperties
<1> HIDE DEF f
<1>3. ThreadFields \subseteq DOMAIN x
  BY DEF GoodThread, HasFields, ThreadFields
<1>4. /\ DOMAIN new = DOMAIN x /\ new[onto] = Append(x[onto], f) /\ new[from] = Tail(x[from])
      /\ \A k \in DOMAIN x \ {from, onto} : new[k] = x[k]
  BY <1>1, <1>3 DEF ThreadFields, f
<1>5. /\ new.host_side = x.host_side /\ new.internet_side = x.internet_side
      /\ new.frame_rules = x.frame_rules /\ new.router = x.router
      /\ \A q \in ThreadQueues \ {from, onto} : new[q] = x[q]
  BY <1>3, <1>4 DEF ThreadFields, ThreadQueues
<1>6. GoodThread(new, g, to)
  <2>1. \A q \in ThreadQueues : new[q] \in Seq(Frame(to))
    BY <1>2, <1>4, <1>5 DEF GoodThread
  <2>2. QED
    BY <1>3, <1>4, <1>5, <2>1 DEF GoodThread, HasFields, ThreadFields
<1>7. ASSUME NEW seg
      PROVE  AtThread(new, seg) <= AtThread(x, seg)
  <2>0. Numbers(x, seg) /\ Numbers(new, seg)
    BY <1>6, ThreadTypes DEF Numbers
  <2>1. Carried(x[from], seg) = Weight(f, seg) + Carried(new[from], seg)
    <3> DEFINE q == x[from]
               F == Frame(to)
    <3>1. q \in Seq(F) /\ q # << >>
      BY <1>1
    <3> HIDE DEF q, F
    <3>2. Carried(q, seg) = Weight(Head(q), seg) + Carried(Tail(q), seg)
      BY <3>1, CarriedTail
    <3>3. QED
      BY <1>4, <3>2 DEF q, f
  <2>2. Carried(new[onto], seg) = Carried(x[onto], seg) + Weight(f, seg)
    <3> DEFINE q == x[onto]
               F == Frame(to)
    <3>1. q \in Seq(F) /\ f \in F
      BY <1>1, <1>2
    <3> HIDE DEF q, F
    <3>2. Carried(Append(q, f), seg) = Carried(q, seg) + Weight(f, seg)
      BY <3>1, CarriedAppend
    <3>3. QED
      BY <1>4, <3>2 DEF q
  <2>3. new.from_host = x.from_host /\ new.from_internet = x.from_internet
    BY <1>5 DEF ThreadQueues
  <2>4. Weight(f, seg) \in Nat
    BY DEF Weight
  <2>5. CASE from = "router_to_host" /\ onto = "to_host"
    <3>1. new.router_to_internet = x.router_to_internet /\ new.to_internet = x.to_internet
      BY <1>5, <2>5 DEF ThreadQueues
    <3>2. /\ Carried(x.router_to_host, seg) = Weight(f, seg) + Carried(new.router_to_host, seg)
          /\ Carried(new.to_host, seg) = Carried(x.to_host, seg) + Weight(f, seg)
      BY <2>1, <2>2, <2>5
    <3>3. QED
      BY <1>5, <2>0, <2>3, <2>4, <3>1, <3>2, NumbersOut
  <2>6. CASE from = "router_to_internet" /\ onto = "to_internet"
    <3>1. new.router_to_host = x.router_to_host /\ new.to_host = x.to_host
      BY <1>5, <2>6 DEF ThreadQueues
    <3>2. /\ Carried(x.router_to_internet, seg) = Weight(f, seg) + Carried(new.router_to_internet, seg)
          /\ Carried(new.to_internet, seg) = Carried(x.to_internet, seg) + Weight(f, seg)
      BY <2>1, <2>2, <2>6
    <3>3. QED
      BY <1>5, <2>0, <2>3, <2>4, <3>1, <3>2, NumbersOut
  <2>7. QED
    BY <2>5, <2>6
<1>8. QED
  BY <1>6, <1>7

LEMMA FrameCallGood ==
  ASSUME NEW g \in Host, NEW x, NEW to, GoodThread(x, g, to), NEW rule \in Rules,
         FrameInterested(x, rule), FramePollable(x, rule)
  PROVE  /\ GoodThread(FrameCall(x, rule), g, to)
         /\ \A seg : AtThread(FrameCall(x, rule), seg) <= AtThread(x, seg)
<1> DEFINE new == FrameCall(x, rule)
<1>1. ThreadFields \subseteq DOMAIN x
  BY DEF GoodThread, HasFields, ThreadFields
<1>2. x.host_side \in Sides /\ x.internet_side \in Sides
  BY DEF GoodThread, HostSide, InternetSide, Sides
<1>3. ASSUME NEW from \in {"from_host", "from_internet"}, NEW s, NEW f
      PROVE  RoutesFrame([x EXCEPT ![from] = Tail(x[from])], s, f)
             = [x EXCEPT ![from] = Tail(x[from]), !.router = Arrived(x.router, s, f)]
  <2> DEFINE y == [x EXCEPT ![from] = Tail(x[from])]
             r == Arrived(x.router, s, f)
  <2>1. y.router = x.router
    OBVIOUS
  <2>2. RoutesFrame(y, s, f) = [y EXCEPT !.router = r]
    <3> HIDE DEF y
    <3>1. QED
      BY <2>1 DEF RoutesFrame, Arrived, WithInterface
  <2> HIDE DEF r
  <2>3. [y EXCEPT !.router = r] = [x EXCEPT ![from] = Tail(x[from]), !.router = r]
    OBVIOUS
  <2>4. QED
    BY <2>2, <2>3 DEF r
<1>4. CASE rule = FromHost
  <2> DEFINE from == "from_host"
  <2>1. x[from] # << >>
    BY <1>4, RulesFacts DEF FramePollable
  <2>2. new = RoutesFrame([x EXCEPT ![from] = Tail(x[from])], x.host_side, Head(x[from]))
    BY <1>4, RulesFacts DEF FrameCall
  <2>3. from \in {"from_host", "from_internet"}
    OBVIOUS
  <2> HIDE DEF from, new
  <2>4. new = [x EXCEPT ![from] = Tail(x[from]),
                        !.router = Arrived(x.router, x.host_side, Head(x[from]))]
    BY <1>3, <2>2, <2>3
  <2>5. QED
    BY <1>2, <2>1, <2>3, <2>4, ComesIn DEF new
<1>5. CASE rule = FromInternet
  <2> DEFINE from == "from_internet"
  <2>1. x[from] # << >>
    BY <1>5, RulesFacts DEF FramePollable
  <2>2. new = RoutesFrame([x EXCEPT ![from] = Tail(x[from])], x.internet_side, Head(x[from]))
    BY <1>5, RulesFacts DEF FrameCall
  <2>3. from \in {"from_host", "from_internet"}
    OBVIOUS
  <2> HIDE DEF from, new
  <2>4. new = [x EXCEPT ![from] = Tail(x[from]),
                        !.router = Arrived(x.router, x.internet_side, Head(x[from]))]
    BY <1>3, <2>2, <2>3
  <2>5. QED
    BY <1>2, <2>1, <2>3, <2>4, ComesIn DEF new
<1>6. CASE rule = ToHost
  <2> DEFINE from == "router_to_host"
             onto == "to_host"
  <2>1. x[from] # << >>
    BY <1>6, RulesFacts DEF FrameInterested
  <2>2. new = [x EXCEPT ![onto] = Append(x[onto], Head(x[from])), ![from] = Tail(x[from])]
    BY <1>6, RulesFacts DEF FrameCall
  <2>3. \/ from = "router_to_host" /\ onto = "to_host"
        \/ from = "router_to_internet" /\ onto = "to_internet"
    OBVIOUS
  <2> HIDE DEF from, onto, new
  <2>4. QED
    BY <2>1, <2>2, <2>3, GoesOut DEF new
<1>7. CASE rule = ToInternet
  <2> DEFINE from == "router_to_internet"
             onto == "to_internet"
  <2>1. x[from] # << >>
    BY <1>7, RulesFacts DEF FrameInterested
  <2>2. new = [x EXCEPT ![onto] = Append(x[onto], Head(x[from])), ![from] = Tail(x[from])]
    BY <1>7, RulesFacts DEF FrameCall
  <2>3. \/ from = "router_to_host" /\ onto = "to_host"
        \/ from = "router_to_internet" /\ onto = "to_internet"
    OBVIOUS
  <2> HIDE DEF from, onto, new
  <2>4. QED
    BY <2>1, <2>2, <2>3, GoesOut DEF new
<1>8. QED
  BY <1>4, <1>5, <1>6, <1>7 DEF Rules
-----------------------------------------------------------------------------
(* What the interfaces have to send leaves them in every round. *)
LEMMA EmptiedGood ==
  ASSUME NEW g \in Host, NEW r, NEW to, GoodRouter(r, g, to), NEW s \in Sides, NEW ms \in Nat
  PROVE  LET new == Emptied(r, s, ms)
         IN  /\ GoodRouter(new, g, to)
             /\ new.interfaces_[s].maybe_send_queue = << >>
             /\ new.interfaces_[s].datagrams_in_ = r.interfaces_[s].datagrams_in_
             /\ \A t \in Sides \ {s} : new.interfaces_[t] = r.interfaces_[t]
             /\ \A seg : AtRouter(new, seg) + Carried(r.interfaces_[s].maybe_send_queue, seg)
                           = AtRouter(r, seg)
<1> DEFINE n == r.interfaces_[s]
           t == InterfaceTick(n, ms)
           m == [t EXCEPT !.maybe_send_queue = << >>]
           new == WithInterface(r, s, m)
<1>1. /\ GoodInterface(n, RouterEthernet[g][s], RouterIp[g][s], to)
      /\ "datagrams_in_" \in DOMAIN n
  BY DEF GoodRouter
<1>2. Emptied(r, s, ms) = new
  BY DEF Emptied, WithInterface
<1> HIDE DEF n
<1>3. /\ GoodInterface(t, RouterEthernet[g][s], RouterIp[g][s], to) /\ KeepsInput(n, t)
      /\ t.maybe_send_queue = n.maybe_send_queue
      /\ \A seg : AtInterface(t, seg) = AtInterface(n, seg)
  BY <1>1, TickGood
<1> HIDE DEF t
<1>4. /\ m.maybe_send_queue = << >> /\ DOMAIN m = DOMAIN t
      /\ m.ip_addr_to_ethernet_datagram_queue = t.ip_addr_to_ethernet_datagram_queue
      /\ m.ip_addr_to_ethernet_addr = t.ip_addr_to_ethernet_addr
      /\ m.ethernet_address_ = t.ethernet_address_ /\ m.ip_address_ = t.ip_address_
      /\ m["datagrams_in_"] = t["datagrams_in_"]
  BY <1>3 DEF GoodInterface, HasFields, InterfaceFields
<1> HIDE DEF m
<1>5. /\ GoodInterface(m, RouterEthernet[g][s], RouterIp[g][s], to)
      /\ "datagrams_in_" \in DOMAIN m /\ m.datagrams_in_ = n.datagrams_in_
  <2>1. << >> \in Seq(Frame(to))
    BY EmptySeq
  <2>2. "datagrams_in_" \in DOMAIN m /\ m.datagrams_in_ = n.datagrams_in_
    BY <1>1, <1>3, <1>4 DEF KeepsInput
  <2>3. Known(m) = Known(t) /\ Asked(m) = Asked(t)
    BY <1>4 DEF Known, Asked
  <2>4. QED
    BY <1>3, <1>4, <2>1, <2>2, <2>3 DEF GoodInterface, HasFields
<1>6. \A seg : AtInterface(m, seg) + Carried(n.maybe_send_queue, seg) = AtInterface(n, seg)
  <2>1. ASSUME NEW seg
        PROVE  AtInterface(m, seg) + Carried(n.maybe_send_queue, seg) = AtInterface(n, seg)
    <3>1. Kept(m, seg) = Kept(t, seg) /\ Kept(t, seg) \in Nat
      BY <1>3, <1>4, KeptType DEF Kept, Asked
    <3>2. Carried(m.maybe_send_queue, seg) = 0 /\ Carried(n.maybe_send_queue, seg) \in Nat
      BY <1>1, <1>4, CarriedEmpty, KeptType
    <3>3. AtInterface(n, seg) = Carried(n.maybe_send_queue, seg) + Kept(t, seg)
      BY <1>3 DEF AtInterface
    <3>4. QED
      BY <3>1, <3>2, <3>3 DEF AtInterface
  <2>2. QED
    BY <2>1
<1>7. /\ GoodRouter(new, g, to) /\ new.interfaces_[s] = m
      /\ \A u \in Sides \ {s} : new.interfaces_[u] = r.interfaces_[u]
      /\ \A seg : AtRouter(new, seg) + AtInterface(n, seg) = AtRouter(r, seg) + AtInterface(m, seg)
      /\ \A seg : AtRouter(new, seg) \in Nat /\ AtRouter(r, seg) \in Nat
  BY <1>5, InterfaceReplaced DEF n
<1> HIDE DEF new
<1>8. ASSUME NEW seg
      PROVE  AtRouter(new, seg) + Carried(n.maybe_send_queue, seg) = AtRouter(r, seg)
  <2>1. /\ AtInterface(m, seg) \in Nat /\ AtInterface(n, seg) \in Nat
        /\ Carried(n.maybe_send_queue, seg) \in Nat
    BY <1>1, <1>5, KeptType
  <2>2. QED
    BY <1>6, <1>7, <2>1
<1>9. QED
  BY <1>2, <1>4, <1>5, <1>7, <1>8 DEF n

LEMMA NumbersEmptied ==
  ASSUME NEW x, NEW new, NEW seg, NEW v \in Nat, NEW w \in Nat, Numbers(x, seg), Numbers(new, seg),
         Carried(new.router_to_host, seg) = Carried(x.router_to_host, seg) + v,
         Carried(new.router_to_internet, seg) = Carried(x.router_to_internet, seg) + w,
         new.from_host = x.from_host, new.from_internet = x.from_internet,
         new.to_host = x.to_host, new.to_internet = x.to_internet,
         AtRouter(new.router, seg) + v + w = AtRouter(x.router, seg)
  PROVE  AtThread(new, seg) = AtThread(x, seg)
BY DEF Numbers, AtThread

\* The end of a round.
Flushed(x, ms) ==
  [x EXCEPT !.frame_rules = FrameRules,
            !.router = Emptied(Emptied(x.router, HostSide, ms), InternetSide, ms),
            !.router_to_host = @ \o x.router.interfaces_[HostSide].maybe_send_queue,
            !.router_to_internet = @ \o x.router.interfaces_[InternetSide].maybe_send_queue]

LEMMA FlushedGood ==
  ASSUME NEW g \in Host, NEW x, NEW to, GoodThread(x, g, to), NEW ms \in Nat
  PROVE  LET new == Flushed(x, ms)
         IN  /\ GoodThread(new, g, to)
             /\ \A s \in Sides : new.router.interfaces_[s].maybe_send_queue = << >>
             /\ \A seg : AtThread(new, seg) = AtThread(x, seg)
<1> DEFINE new == Flushed(x, ms)
           one == HostSide
           two == InternetSide
           a   == Emptied(x.router, one, ms)
           r   == Emptied(a, two, ms)
           p   == x.router.interfaces_[one].maybe_send_queue
           q   == x.router.interfaces_[two].maybe_send_queue
           F   == Frame(to)
<1>1. /\ one \in Sides /\ two \in Sides /\ one \in Sides \ {two} /\ two \in Sides \ {one}
      /\ \A s \in Sides : s = one \/ s = two
  BY DEF HostSide, InternetSide, Sides
<1>2. ThreadFields \subseteq DOMAIN x
  BY DEF GoodThread, HasFields, ThreadFields
<1>3. /\ DOMAIN new = DOMAIN x /\ new.frame_rules = FrameRules /\ new.router = r
      /\ new.router_to_host = x.router_to_host \o p
      /\ new.router_to_internet = x.router_to_internet \o q
      /\ new.host_side = x.host_side /\ new.internet_side = x.internet_side
      /\ new.from_host = x.from_host /\ new.from_internet = x.from_internet
      /\ new.to_host = x.to_host /\ new.to_internet = x.to_internet
  <2> HIDE DEF r
  <2>1. QED
    BY <1>2 DEF Flushed, ThreadFields, ThreadQueues, r
<1> HIDE DEF new, one, two
<1>4. GoodRouter(x.router, g, to)
  BY DEF GoodThread
<1>5. /\ GoodRouter(a, g, to)
      /\ a.interfaces_[one].maybe_send_queue = << >>
      /\ a.interfaces_[one].datagrams_in_ = x.router.interfaces_[one].datagrams_in_
      /\ a.interfaces_[two] = x.router.interfaces_[two]
      /\ \A seg : AtRouter(a, seg) + Carried(p, seg) = AtRouter(x.router, seg)
  <2>1. /\ GoodRouter(a, g, to)
        /\ a.interfaces_[one].maybe_send_queue = << >>
        /\ a.interfaces_[one].datagrams_in_ = x.router.interfaces_[one].datagrams_in_
        /\ \A t \in Sides \ {one} : a.interfaces_[t] = x.router.interfaces_[t]
        /\ \A seg : AtRouter(a, seg) + Carried(p, seg) = AtRouter(x.router, seg)
    BY <1>1, <1>4, EmptiedGood
  <2>2. QED
    BY <1>1, <2>1
<1> HIDE DEF a
<1>6. /\ GoodRouter(r, g, to)
      /\ r.interfaces_[two].maybe_send_queue = << >>
      /\ r.interfaces_[two].datagrams_in_ = a.interfaces_[two].datagrams_in_
      /\ r.interfaces_[one] = a.interfaces_[one]
      /\ \A seg : AtRouter(r, seg) + Carried(a.interfaces_[two].maybe_send_queue, seg)
                    = AtRouter(a, seg)
  <2>1. /\ GoodRouter(r, g, to)
        /\ r.interfaces_[two].maybe_send_queue = << >>
        /\ r.interfaces_[two].datagrams_in_ = a.interfaces_[two].datagrams_in_
        /\ \A t \in Sides \ {two} : r.interfaces_[t] = a.interfaces_[t]
        /\ \A seg : AtRouter(r, seg) + Carried(a.interfaces_[two].maybe_send_queue, seg)
                      = AtRouter(a, seg)
    BY <1>1, <1>5, EmptiedGood
  <2>2. QED
    BY <1>1, <2>1
<1> HIDE DEF r
<1>7. /\ p \in Seq(F) /\ q \in Seq(F)
      /\ x.router_to_host \in Seq(F) /\ x.router_to_internet \in Seq(F)
  <2>1. ASSUME NEW s \in Sides
        PROVE  x.router.interfaces_[s].maybe_send_queue \in Seq(F)
    BY <1>4 DEF GoodRouter, GoodInterface
  <2>2. QED
    BY <1>1, <2>1 DEF GoodThread, ThreadQueues
<1> HIDE DEF p, q, F
<1>8. GoodThread(new, g, to)
  <2>1. x.router_to_host \o p \in Seq(F) /\ x.router_to_internet \o q \in Seq(F)
    BY <1>7, ConcatProperties
  <2>2. \A k \in ThreadQueues : new[k] \in Seq(F)
    BY <1>3, <2>1 DEF ThreadQueues, GoodThread, F
  <2>3. \A s \in Sides : r.interfaces_[s].datagrams_in_ = << >>
    <3>1. \A s \in Sides : x.router.interfaces_[s].datagrams_in_ = << >>
      BY DEF GoodThread
    <3>2. QED
      BY <1>1, <1>5, <1>6, <3>1
  <2>4. x.host_side = HostSide /\ x.internet_side = InternetSide
    BY DEF GoodThread
  <2>5. ThreadFields \subseteq DOMAIN new
    BY <1>2, <1>3
  <2>6. QED
    BY <1>3, <1>6, <2>2, <2>3, <2>4, <2>5 DEF GoodThread, HasFields, ThreadFields, F
<1>9. \A s \in Sides : r.interfaces_[s].maybe_send_queue = << >>
  BY <1>1, <1>5, <1>6
<1>10. ASSUME NEW seg
       PROVE  AtThread(new, seg) = AtThread(x, seg)
  <2>1. /\ Carried(x.router_to_host \o p, seg) = Carried(x.router_to_host, seg) + Carried(p, seg)
        /\ Carried(x.router_to_internet \o q, seg)
             = Carried(x.router_to_internet, seg) + Carried(q, seg)
    BY <1>7, CarriedConcat
  <2>2. Carried(p, seg) \in Nat /\ Carried(q, seg) \in Nat
    BY <1>7, CarriedType
  <2>3. Numbers(x, seg) /\ Numbers(new, seg)
    BY <1>8, ThreadTypes DEF Numbers
  <2>4. AtRouter(new.router, seg) + Carried(p, seg) + Carried(q, seg) = AtRouter(x.router, seg)
    <3>1. /\ AtRouter(x.router, seg) \in Nat /\ AtRouter(a, seg) \in Nat
          /\ AtRouter(r, seg) \in Nat
      BY <1>4, <1>5, <1>6, AtRouterType
    <3>2. AtRouter(r, seg) + Carried(q, seg) = AtRouter(a, seg)
      BY <1>5, <1>6 DEF q
    <3>3. QED
      BY <1>3, <1>5, <2>2, <3>1, <3>2
  <2>5. /\ Carried(new.router_to_host, seg) = Carried(x.router_to_host, seg) + Carried(p, seg)
        /\ Carried(new.router_to_internet, seg)
             = Carried(x.router_to_internet, seg) + Carried(q, seg)
        /\ new.from_host = x.from_host /\ new.from_internet = x.from_internet
        /\ new.to_host = x.to_host /\ new.to_internet = x.to_internet
    BY <1>3, <2>1
  <2> DEFINE v == Carried(p, seg)
             w == Carried(q, seg)
  <2> HIDE DEF v, w
  <2>6. QED
    BY <2>2, <2>3, <2>4, <2>5, NumbersEmptied DEF v, w
<1>11. QED
  BY <1>3, <1>8, <1>9, <1>10 DEF new

(* A round of a thread makes no new copy of what it carries. *)
LEMMA RoundGood ==
  ASSUME NEW g \in Host, NEW x, NEW to, GoodThread(x, g, to), NEW ms \in Nat
  PROVE  LET new == ThreadRound(x, ms)
         IN  /\ GoodThread(new, g, to)
             /\ \A s \in Sides : new.router.interfaces_[s].maybe_send_queue = << >>
             /\ \A seg : AtThread(new, seg) <= AtThread(x, seg)
<1> DEFINE next == FrameLoop!WaitNextEvent(x, FrameRules)
           y == next.x
<1>1. /\ next.rules = FrameRules
      /\ \/ y = x
         \/ \E rule \in Rules : /\ FrameInterested(x, rule) /\ FramePollable(x, rule)
                                /\ y = FrameCall(x, rule)
  BY EventGood
<1>2. /\ x.frame_rules = FrameRules /\ x.host_side = HostSide
      /\ x.internet_side = InternetSide
  BY DEF GoodThread
<1>3. ThreadRound(x, ms) = Flushed(y, ms)
  <2> HIDE DEF next
  <2>1. QED
    BY <1>1, <1>2 DEF ThreadRound, Flushed, next
<1> HIDE DEF y
<1>4. GoodThread(y, g, to) /\ \A seg : AtThread(y, seg) <= AtThread(x, seg)
  <2>1. CASE y = x
    BY <2>1, ThreadTypes
  <2>2. ASSUME NEW rule \in Rules, FrameInterested(x, rule), FramePollable(x, rule),
               y = FrameCall(x, rule)
        PROVE  <1>4!1 /\ <1>4!2
    BY <2>2, FrameCallGood
  <2>3. QED
    BY <1>1, <2>1, <2>2
<1>5. QED
  BY <1>3, <1>4, FlushedGood
-----------------------------------------------------------------------------
(* A host's adapter. *)
LEMMA Hosts ==
  ASSUME NEW h \in Host
  PROVE  /\ Other(h) \in Host /\ Other(h) # h /\ Other(Other(h)) = h
         /\ \A g \in Host : g = h \/ g = Other(h)
<1>1. IsFiniteSet(Host) /\ Cardinality(Host) = 2
  BY HostAssumption
<1>2. IsFiniteSet(Host \ {h}) /\ Cardinality(Host \ {h}) = 1
  BY <1>1, FS_RemoveElement
<1>3. PICK o : Host \ {h} = {o}
  BY <1>2, FS_Singleton
<1>4. o \in Host /\ o # h /\ \A g \in Host : g = h \/ g = o
  BY <1>3
<1>5. Other(h) = o
  BY <1>4 DEF Other
<1>6. Other(o) = h
  BY <1>4 DEF Other
<1>7. QED
  BY <1>4, <1>5, <1>6

\* Nobody sends to itself.
Sane(to) == \A h \in Host : HostIp[h] \notin to[h]

LEMMA TcpParts ==
  ASSUME NEW h \in Host, NEW c \in Tcp(h)
  PROVE  /\ c = [source |-> HostIp[h], destination |-> c.destination, listening |-> c.listening]
         /\ c.listening \in BOOLEAN
         /\ c.listening => h # Client
         /\ ~c.listening => c.destination \in Address /\ c.destination # HostIp[h]
         /\ h # Client => NewAdapter(HostIp[h], HostIp[Client]) \in Tcp(h)
<1>1. Client \in Host
  BY HostAssumption
<1>2. CASE h = Client
  <2>1. PICK destination \in Destinations : c = NewAdapter(HostIp[h], destination)
    BY <1>2 DEF Tcp
  <2>2. destination \in Address /\ destination # HostIp[h]
    BY <1>2, TrafficAssumption DEF Address
  <2>3. QED
    BY <1>2, <2>1, <2>2 DEF NewAdapter
<1>3. CASE h # Client
  <2>1. \/ c = SetListening(NewAdapter(HostIp[h], [ip |-> 0, port |-> 0]), TRUE)
        \/ c = NewAdapter(HostIp[h], HostIp[Client])
    BY <1>3 DEF Tcp
  <2>2. HostIp[Client] \in Address /\ HostIp[Client] # HostIp[h]
    <3>1. HostIp[Client] \in Address /\ HostIp[Client].ip # HostIp[h].ip
      BY <1>1, <1>3, IpAssumption DEF Address, Sides
    <3>2. QED
      BY <3>1
  <2>3. CASE c = SetListening(NewAdapter(HostIp[h], [ip |-> 0, port |-> 0]), TRUE)
    <3> DEFINE none == [ip |-> 0, port |-> 0]
    <3> HIDE DEF none
    <3>1. c = [source |-> HostIp[h], destination |-> none, listening |-> TRUE]
      BY <2>3 DEF SetListening, NewAdapter, none
    <3>2. QED
      BY <1>3, <3>1 DEF Tcp
  <2>4. CASE c = NewAdapter(HostIp[h], HostIp[Client])
    BY <1>3, <2>2, <2>4 DEF NewAdapter, Tcp
  <2>5. QED
    BY <2>1, <2>3, <2>4
<1>4. QED
  BY <1>2, <1>3

\* What the interface has queued is written.
LEMMA PendingGood ==
  ASSUME NEW h \in Host, NEW a, NEW to, GoodAdapter(a, h, to), a.written = << >>, NEW n,
         GoodInterface(n, HostEthernet[h], HostIp[h].ip, to)
  PROVE  LET new == SendPending([a EXCEPT !.interface = n])
         IN  /\ GoodAdapter(new, h, to)
             /\ new.interface.maybe_send_queue = << >>
             /\ new.tcp = a.tcp
             /\ \A seg : AtInterface(new.interface, seg) + Carried(new.written, seg)
                           = AtInterface(n, seg)
<1> DEFINE b   == [a EXCEPT !.interface = n]
           m   == [n EXCEPT !.maybe_send_queue = << >>]
           new == SendPending(b)
           q   == n.maybe_send_queue
<1>1. /\ HasFields(b, {"interface", "next_hop", "tcp", "written"})
      /\ b.interface = n /\ b.written = << >> /\ b.next_hop = a.next_hop /\ b.tcp = a.tcp
  BY DEF GoodAdapter, HasFields
<1>2. q \in Seq(Frame(to)) /\ HasFields(n, InterfaceFields)
  BY DEF GoodInterface
<1> HIDE DEF b
<1>3. << >> \o q = q
  BY <1>2, ConcatEmptySeq
<1>4. /\ HasFields(new, {"interface", "next_hop", "tcp", "written"})
      /\ new.interface = m /\ new.written = q /\ new.next_hop = a.next_hop /\ new.tcp = a.tcp
  BY <1>1, <1>3 DEF SendPending, HasFields
<1> HIDE DEF new
<1>5. /\ m.maybe_send_queue = << >> /\ DOMAIN m = DOMAIN n
      /\ m.ip_addr_to_ethernet_datagram_queue = n.ip_addr_to_ethernet_datagram_queue
      /\ m.ip_addr_to_ethernet_addr = n.ip_addr_to_ethernet_addr
      /\ m.ethernet_address_ = n.ethernet_address_ /\ m.ip_address_ = n.ip_address_
  BY <1>2 DEF HasFields, InterfaceFields
<1> HIDE DEF m
<1>6. GoodInterface(m, HostEthernet[h], HostIp[h].ip, to)
  <2>1. << >> \in Seq(Frame(to))
    BY EmptySeq
  <2>2. Known(m) = Known(n) /\ Asked(m) = Asked(n)
    BY <1>5 DEF Known, Asked
  <2>3. QED
    BY <1>5, <2>1, <2>2 DEF GoodInterface, HasFields
<1>7. GoodAdapter(new, h, to)
  BY <1>2, <1>4, <1>6 DEF GoodAdapter
<1>8. ASSUME NEW seg
      PROVE  AtInterface(new.interface, seg) + Carried(new.written, seg) = AtInterface(n, seg)
  <2>1. Kept(m, seg) = Kept(n, seg) /\ Kept(n, seg) \in Nat
    BY <1>5, KeptType, ZenonT(60) DEF Kept, Asked
  <2>2. Carried(m.maybe_send_queue, seg) = 0 /\ Carried(q, seg) \in Nat
    BY <1>5, CarriedEmpty, KeptType
  <2>3. AtInterface(n, seg) = Carried(q, seg) + Kept(n, seg)
    BY DEF AtInterface
  <2>4. AtInterface(m, seg) = Carried(m.maybe_send_queue, seg) + Kept(m, seg)
    BY DEF AtInterface
  <2> HIDE DEF q
  <2>5. QED
    BY <1>4, <2>1, <2>2, <2>3, <2>4
<1>9. QED
  <2>1. new = SendPending([a EXCEPT !.interface = n])
    BY DEF new, b
  <2>2. new.interface.maybe_send_queue = << >>
    BY <1>4, <1>5
  <2>3. QED
    BY <1>4, <1>7, <1>8, <2>1, <2>2

LEMMA HostOwns ==
  ASSUME NEW h \in Host
  PROVE  Owns(HostIp[h].ip, HostEthernet[h])
BY DEF Owns

(* A segment is sent in a datagram that sets out on its way. *)
LEMMA WriteGood ==
  ASSUME NEW h \in Host, NEW a, NEW to, GoodAdapter(a, h, to), a.written = << >>,
         ~a.tcp.listening, a.tcp.destination \in to[h], NEW segment \in Segment
  PROVE  LET new == AdapterWrite(a, segment)
         IN  /\ GoodAdapter(new, h, to)
             /\ new.interface.maybe_send_queue = << >>
             /\ new.tcp = a.tcp
             /\ \A seg : AtInterface(new.interface, seg) + Carried(new.written, seg)
                  <= AtInterface(a.interface, seg) + (IF seg = segment THEN 1 ELSE 0)
<1> DEFINE d  == Wrapped(a, segment)
           nh == RouterIp[h][HostSide]
           n  == SendDatagram(a.interface, d, nh)
           new == AdapterWrite(a, segment)
<1>1. /\ a.tcp.source = HostIp[h] /\ a.tcp.destination \in Address
      /\ a.next_hop = nh
      /\ GoodInterface(a.interface, HostEthernet[h], HostIp[h].ip, to)
  BY TcpParts DEF GoodAdapter
<1>2. HostIp[h] \in Address /\ nh \in IPAddress /\ DefaultTtl \in 1..DefaultTtl
  BY IpAssumption, TtlAssumption DEF Address, HostSide, Sides
<1>3. d = [src |-> HostIp[h], dst |-> a.tcp.destination, segment |-> segment, ttl |-> DefaultTtl]
  BY <1>1 DEF Wrapped, WithEntry, WrapTcpInIp
<1> HIDE DEF d
<1>4. d \in OnTheWay(HostEthernet[h], nh, to)
  <2>1. d \in Datagram
    BY <1>1, <1>2, <1>3 DEF Datagram
  <2>2. Legs(h, d.dst.ip)[DefaultTtl - d.ttl] = {FirstLeg(h)}
    <3>1. DefaultTtl - d.ttl = 0
      BY <1>3, TtlAssumption
    <3>2. Legs(h, d.dst.ip)[0] = {FirstLeg(h)}
      BY LegsStep
    <3>3. QED
      BY <3>1, <3>2
  <2>3. OnItsLeg(d, HostEthernet[h], nh)
    BY <1>2, <1>3, <2>2 DEF OnItsLeg, FirstLeg
  <2>4. QED
    BY <1>3, <2>1, <2>3 DEF OnTheWay
<1> HIDE DEF nh
<1>5. /\ GoodInterface(n, HostEthernet[h], HostIp[h].ip, to)
      /\ \A seg : AtInterface(n, seg) <= AtInterface(a.interface, seg) + Bears(d, seg)
  BY <1>1, <1>2, <1>4, HostOwns, SendGood
<1>6. new = SendPending([a EXCEPT !.interface = n])
  BY <1>1 DEF AdapterWrite, d
<1> HIDE DEF n, new
<1>7. \A seg : Bears(d, seg) = IF seg = segment THEN 1 ELSE 0
  BY <1>3 DEF Bears
<1>8. QED
  BY <1>5, <1>6, <1>7, PendingGood DEF new

LEMMA AdapterTickGood ==
  ASSUME NEW h \in Host, NEW a, NEW to, GoodAdapter(a, h, to), a.written = << >>, NEW ms \in Nat
  PROVE  LET new == AdapterTick(a, ms)
         IN  /\ GoodAdapter(new, h, to)
             /\ new.interface.maybe_send_queue = << >>
             /\ new.tcp = a.tcp
             /\ \A seg : AtInterface(new.interface, seg) + Carried(new.written, seg)
                  = AtInterface(a.interface, seg)
<1> DEFINE n == InterfaceTick(a.interface, ms)
           new == AdapterTick(a, ms)
<1>1. GoodInterface(a.interface, HostEthernet[h], HostIp[h].ip, to)
  BY DEF GoodAdapter
<1>2. /\ GoodInterface(n, HostEthernet[h], HostIp[h].ip, to)
      /\ \A seg : AtInterface(n, seg) = AtInterface(a.interface, seg)
  BY <1>1, TickGood
<1>3. new = SendPending([a EXCEPT !.interface = n])
  BY DEF AdapterTick
<1> HIDE DEF n, new
<1>4. QED
  BY <1>2, <1>3, PendingGood DEF new

\* A datagram for a host's connection has come to the host it is addressed to.
LEMMA AddressedToUs ==
  ASSUME NEW h \in Host, NEW to, Sane(to), NEW src, NEW d \in OnTheWay(src, HostIp[h].ip, to),
         NEW c \in Tcp(h), IsForUs(c, d)
  PROVE  d.dst = HostIp[h] /\ d.src = HostIp[Other(h)] /\ HostIp[h] \in to[Other(h)]
<1>1. d \in Datagram /\ d.dst \in Address /\ HostIp[h] \in Address
  BY IpAssumption DEF OnTheWay, Datagram, Address
<1>2. PICK i \in Host :
        /\ d.src = HostIp[i] /\ d.ttl \in 1..DefaultTtl
        /\ [src |-> src, next |-> HostIp[h].ip] \in Legs(i, d.dst.ip)[DefaultTtl - d.ttl]
  BY DEF OnTheWay, OnItsLeg
<1>3. DefaultTtl - d.ttl \in 0..DefaultTtl
  BY <1>2, TtlAssumption
<1>4. HostIp[h].ip = d.dst.ip
  <2> DEFINE leg == [src |-> src, next |-> HostIp[h].ip]
             k   == DefaultTtl - d.ttl
  <2>1. leg.next = HostIp[h].ip
    OBVIOUS
  <2> HIDE DEF leg, k
  <2>2. leg.next = d.dst.ip
    BY <1>2, <1>3, <2>1, LastLeg DEF leg, k
  <2>3. QED
    BY <2>1, <2>2
<1>5. d.dst.port = HostIp[h].port
  BY TcpParts DEF IsForUs
<1>6. d.dst = HostIp[h]
  BY <1>1, <1>4, <1>5 DEF Address
<1>7. PICK j \in Host : d.src = HostIp[j] /\ d.dst \in to[j]
  BY DEF OnTheWay
<1>8. j # h
  BY <1>6, <1>7 DEF Sane
<1>9. j = Other(h)
  BY <1>8, Hosts
<1>10. QED
  BY <1>6, <1>7, <1>9
\* What a connection makes of a datagram addressed to its host's address.
LEMMA UnwrappedGood ==
  ASSUME NEW h \in Host, NEW to, Sane(to), NEW src, NEW d \in OnTheWay(src, HostIp[h].ip, to),
         NEW c \in Tcp(h)
  PROVE  LET got == UnwrapTcpInIp(c, d)
         IN  /\ got.adapter \in Tcp(h)
             /\ ~c.listening => got.adapter = c
             /\ got.segment # NoSegment =>
                  /\ got.segment = d.segment /\ d.segment \in Segment
                  /\ ~got.adapter.listening
                  /\ HostIp[h] \in to[Other(h)]
             /\ got.segment = NoSegment => got.adapter = c
<1> DEFINE got == UnwrapTcpInIp(c, d)
           new == NewAdapter(d.dst, d.src)
<1>1. \/ got = [adapter |-> c, segment |-> NoSegment]
      \/ /\ d.segment # NoSegment /\ IsForUs(c, d)
         /\ \/ ~c.listening /\ got = [adapter |-> c, segment |-> d.segment]
            \/ c.listening /\ got = [adapter |-> new, segment |-> d.segment]
  BY DEF UnwrapTcpInIp
<1> HIDE DEF got
<1>2. d.segment \in Segment
  BY DEF OnTheWay, Datagram
<1>3. CASE got = [adapter |-> c, segment |-> NoSegment]
  BY <1>3 DEF got
<1>4. CASE /\ d.segment # NoSegment /\ IsForUs(c, d)
           /\ ~c.listening /\ got = [adapter |-> c, segment |-> d.segment]
  <2>1. HostIp[h] \in to[Other(h)]
    BY <1>4, AddressedToUs
  <2>2. QED
    BY <1>2, <1>4, <2>1 DEF got
<1>5. CASE /\ d.segment # NoSegment /\ IsForUs(c, d)
           /\ c.listening /\ got = [adapter |-> new, segment |-> d.segment]
  <2>1. d.dst = HostIp[h] /\ d.src = HostIp[Other(h)] /\ HostIp[h] \in to[Other(h)]
    BY <1>5, AddressedToUs
  <2>2. h # Client
    BY <1>5, TcpParts
  <2>3. Client = Other(h)
    BY <2>2, Hosts, HostAssumption
  <2>4. new = NewAdapter(HostIp[h], HostIp[Client])
    BY <2>1, <2>3
  <2>5. new \in Tcp(h) /\ ~new.listening
    BY <2>2, <2>4, TcpParts DEF NewAdapter
  <2> HIDE DEF new
  <2>6. QED
    BY <1>2, <1>5, <2>1, <2>5 DEF got
<1>6. QED
  BY <1>1, <1>3, <1>4, <1>5

\* A host's connection afterwards is one that it may have.
LEMMA ConnectionReplaced ==
  ASSUME NEW h \in Host, NEW a, NEW to, GoodAdapter(a, h, to), NEW c \in Tcp(h)
  PROVE  LET new == [a EXCEPT !.tcp = c]
         IN  /\ GoodAdapter(new, h, to) /\ new.interface = a.interface
             /\ new.written = a.written /\ new.tcp = c
BY DEF GoodAdapter, HasFields

(* What a host reads leaves the devices, and is returned if it is for the  *)
(* host's connection.                                                      *)
LEMMA ReadGood ==
  ASSUME NEW h \in Host, NEW a, NEW to, GoodAdapter(a, h, to), a.written = << >>,
         Sane(to), NEW f \in Frame(to)
  PROVE  LET read == AdapterRead(a, f)
             new  == read.adapter
         IN  /\ GoodAdapter(new, h, to)
             /\ new.interface.maybe_send_queue = << >>
             /\ ~a.tcp.listening => new.tcp = a.tcp
             /\ read.segment = NoSegment => new.tcp = a.tcp
             /\ read.segment # NoSegment =>
                  /\ read.segment \in Segment /\ ~new.tcp.listening
                  /\ HostIp[h] \in to[Other(h)]
             /\ \A seg : /\ AtInterface(new.interface, seg) + Carried(new.written, seg)
                              = AtInterface(a.interface, seg)
                         /\ read.segment # NoSegment /\ read.segment = seg
                              => Weight(f, seg) = 1
<1> DEFINE taken    == RecvFrame(a.interface, f)
           n        == taken.interface
           b        == SendPending([a EXCEPT !.interface = n])
           d        == taken.datagram
           t        == a.tcp
           got      == UnwrapTcpInIp(t, d)
           c        == got.adapter
           read     == AdapterRead(a, f)
<1>1. /\ GoodInterface(a.interface, HostEthernet[h], HostIp[h].ip, to)
      /\ a.tcp \in Tcp(h)
  BY DEF GoodAdapter
<1>2. /\ GoodInterface(n, HostEthernet[h], HostIp[h].ip, to)
      /\ \A seg : AtInterface(n, seg) = AtInterface(a.interface, seg)
      /\ taken.datagram # NoDatagram =>
           /\ f \in DataFrame(to) /\ taken.datagram = f.payload
           /\ f.payload \in OnTheWay(f.src, HostIp[h].ip, to)
           /\ \A seg : Weight(f, seg) = Bears(f.payload, seg)
  BY <1>1, HostOwns, RecvGood
<1>3. \/ taken.datagram = NoDatagram /\ read = [adapter |-> b, segment |-> NoSegment]
      \/ /\ taken.datagram # NoDatagram
         /\ read = [adapter |-> [b EXCEPT !.tcp = c], segment |-> got.segment]
  BY DEF AdapterRead
<1> HIDE DEF n
<1>4. /\ GoodAdapter(b, h, to)
      /\ b.interface.maybe_send_queue = << >>
      /\ b.tcp = a.tcp
      /\ \A seg : AtInterface(b.interface, seg) + Carried(b.written, seg)
                    = AtInterface(a.interface, seg)
  BY <1>2, PendingGood
<1> HIDE DEF b, read
<1>5. CASE taken.datagram = NoDatagram /\ read = [adapter |-> b, segment |-> NoSegment]
  BY <1>4, <1>5 DEF read
<1>6. CASE /\ taken.datagram # NoDatagram
           /\ read = [adapter |-> [b EXCEPT !.tcp = c], segment |-> got.segment]
  <2> DEFINE new == [b EXCEPT !.tcp = c]
  <2>1. d \in OnTheWay(f.src, HostIp[h].ip, to)
    BY <1>2, <1>6
  <2> HIDE DEF taken, d
  <2>9. t \in Tcp(h)
    BY <1>1
  <2> HIDE DEF t
  <2>2. /\ c \in Tcp(h)
        /\ ~t.listening => c = t
        /\ got.segment # NoSegment =>
             /\ got.segment = d.segment /\ d.segment \in Segment
             /\ ~c.listening /\ HostIp[h] \in to[Other(h)]
        /\ got.segment = NoSegment => c = t
    BY <2>1, <2>9, UnwrappedGood
  <2> HIDE DEF got
  <2>3. /\ GoodAdapter(new, h, to) /\ new.interface = b.interface
        /\ new.written = b.written /\ new.tcp = c
    BY <1>4, <2>2, ConnectionReplaced
  <2>4. \A seg : got.segment # NoSegment /\ got.segment = seg => Weight(f, seg) = 1
    BY <1>2, <1>6, <2>2 DEF Bears, d
  <2>5. read.adapter = new /\ read.segment = got.segment
    BY <1>6
  <2> HIDE DEF new, c
  <2>6. QED
    BY <1>4, <2>2, <2>3, <2>4, <2>5 DEF read, t
<1>7. QED
  BY <1>3, <1>5, <1>6

-----------------------------------------------------------------------------
(* A host that has been given its destination may send to it. *)
Wider(to, more) == \A h \in Host : to[h] \subseteq more[h]

LEMMA WiderFrames ==
  ASSUME NEW to, NEW more, Wider(to, more)
  PROVE  /\ \A src, next : OnTheWay(src, next, to) \subseteq OnTheWay(src, next, more)
         /\ Seq(Frame(to)) \subseteq Seq(Frame(more))
<1>1. ASSUME NEW src, NEW next
      PROVE  OnTheWay(src, next, to) \subseteq OnTheWay(src, next, more)
  BY DEF OnTheWay, Wider
<1>2. DataFrame(to) \subseteq DataFrame(more)
  BY <1>1 DEF DataFrame
<1>3. Frame(to) \subseteq Frame(more)
  BY <1>2 DEF Frame
<1>4. QED
  BY <1>1, <1>3, SeqMonotonic

LEMMA WiderInterface ==
  ASSUME NEW to, NEW more, Wider(to, more),
         NEW n, NEW ethernet, NEW ip, GoodInterface(n, ethernet, ip, to)
  PROVE  GoodInterface(n, ethernet, ip, more)
<1>1. n.maybe_send_queue \in Seq(Frame(more))
  BY WiderFrames DEF GoodInterface
<1>2. ASSUME NEW i \in Asked(n)
      PROVE  n.ip_addr_to_ethernet_datagram_queue[i] \in
               [datagrams : Seq(OnTheWay(ethernet, i, more)), age : Nat]
  <2>1. Seq(OnTheWay(ethernet, i, to)) \subseteq Seq(OnTheWay(ethernet, i, more))
    BY WiderFrames, SeqMonotonic
  <2>2. n.ip_addr_to_ethernet_datagram_queue[i] \in
               [datagrams : Seq(OnTheWay(ethernet, i, to)), age : Nat]
    BY DEF GoodInterface
  <2>3. QED
    BY <2>1, <2>2
<1>3. QED
  BY <1>1, <1>2 DEF GoodInterface

LEMMA WiderThread ==
  ASSUME NEW to, NEW more, Wider(to, more), NEW x, NEW g, GoodThread(x, g, to)
  PROVE  GoodThread(x, g, more)
<1>1. GoodRouter(x.router, g, more)
  <2>1. GoodRouter(x.router, g, to)
    BY DEF GoodThread
  <2>2. QED
    BY <2>1, WiderInterface DEF GoodRouter
<1>2. \A q \in ThreadQueues : x[q] \in Seq(Frame(more))
  BY WiderFrames DEF GoodThread
<1>3. QED
  BY <1>1, <1>2 DEF GoodThread

LEMMA WiderAdapter ==
  ASSUME NEW to, NEW more, Wider(to, more), NEW a, NEW h, GoodAdapter(a, h, to)
  PROVE  GoodAdapter(a, h, more)
BY WiderFrames, WiderInterface DEF GoodAdapter

-----------------------------------------------------------------------------
(* The initial states. *)
LEMMA NewInterfaceGood ==
  ASSUME NEW ethernet, NEW ip, NEW to
  PROVE  LET n == NewInterface(ethernet, ip)
         IN  /\ GoodInterface(n, ethernet, ip, to)
             /\ n.maybe_send_queue = << >>
             /\ \A seg : AtInterface(n, seg) = 0
<1> DEFINE n == NewInterface(ethernet, ip)
<1>1. /\ HasFields(n, InterfaceFields)
      /\ n.ethernet_address_ = ethernet /\ n.ip_address_ = ip
      /\ n.maybe_send_queue = << >> /\ Known(n) = {} /\ Asked(n) = {}
  BY DEF NewInterface, HasFields, InterfaceFields, Known, Asked
<1> HIDE DEF n
<1>2. << >> \in Seq(Frame(to))
  BY EmptySeq
<1>3. GoodInterface(n, ethernet, ip, to)
  BY <1>1, <1>2 DEF GoodInterface
<1>4. ASSUME NEW seg
      PROVE  AtInterface(n, seg) = 0
  <2>1. Carried(n.maybe_send_queue, seg) = 0
    BY <1>1, CarriedEmpty
  <2>2. Kept(n, seg) = 0
    <3>1. {i \in Asked(n) : n.ip_addr_to_ethernet_datagram_queue[i].datagrams[1].segment = seg}
            = {}
      BY <1>1
    <3>2. QED
      BY <3>1, FS_EmptySet DEF Kept
  <2>3. QED
    BY <2>1, <2>2 DEF AtInterface
<1>5. QED
  BY <1>1, <1>3, <1>4 DEF n

LEMMA NewAsyncGood ==
  ASSUME NEW ethernet, NEW ip, NEW to
  PROVE  LET n == NewAsyncInterface(ethernet, ip)
         IN  /\ GoodInterface(n, ethernet, ip, to)
             /\ n.maybe_send_queue = << >>
             /\ "datagrams_in_" \in DOMAIN n /\ n.datagrams_in_ = << >>
             /\ \A seg : AtInterface(n, seg) = 0
<1> DEFINE m == NewInterface(ethernet, ip)
           n == NewAsyncInterface(ethernet, ip)
<1>1. /\ GoodInterface(m, ethernet, ip, to)
      /\ m.maybe_send_queue = << >>
      /\ \A seg : AtInterface(m, seg) = 0
  BY NewInterfaceGood
<1>2. DOMAIN m = InterfaceFields
  BY DEF NewInterface, InterfaceFields
<1>3. n = WithEntry(m, "datagrams_in_", << >>)
  BY DEF NewAsyncInterface
<1> HIDE DEF m, n
<1>4. /\ DOMAIN n = InterfaceFields \cup {"datagrams_in_"}
      /\ n["datagrams_in_"] = << >>
      /\ \A field \in InterfaceFields : n[field] = m[field]
  BY <1>2, <1>3 DEF WithEntry, InterfaceFields
<1>5. /\ n.maybe_send_queue = m.maybe_send_queue
      /\ n.ip_addr_to_ethernet_datagram_queue = m.ip_addr_to_ethernet_datagram_queue
      /\ n.ip_addr_to_ethernet_addr = m.ip_addr_to_ethernet_addr
      /\ n.ethernet_address_ = m.ethernet_address_ /\ n.ip_address_ = m.ip_address_
  BY <1>4 DEF InterfaceFields
<1>6. GoodInterface(n, ethernet, ip, to)
  BY <1>1, <1>4, <1>5 DEF GoodInterface, HasFields, Known, Asked
<1>7. \A seg : AtInterface(n, seg) = AtInterface(m, seg)
  BY <1>5 DEF AtInterface, Kept, Asked
<1>8. QED
  BY <1>1, <1>4, <1>5, <1>6, <1>7 DEF n

\* add_route, called for each of a router's routes, fills its table.
RouteAdded(r, route) ==
  AddRoute(r, route.prefix, route.length, route.next_hop, route.interface_num)

LEMMA RoutesAddedSteps ==
  ASSUME NEW g \in Host, NEW r, r = [interfaces_ |-> r.interfaces_, route_table_ |-> << >>]
  PROVE  LET n == Len(Routes[g])
         IN  \E f : /\ f[0] = r
                    /\ \A k \in 0..n - 1 : f[k + 1] = RouteAdded(f[k], Routes[g][k + 1])
                    /\ FoldLeft(RouteAdded, r, Routes[g]) = f[n]
<1> DEFINE n     == Len(Routes[g])
           Rec   == {Table(g)[i] : i \in 1..n}
           S     == [interfaces_ : {r.interfaces_}, route_table_ : Seq(Rec)]
           step  == [p \in S \X (1..n) |-> RouteAdded(p[1], Routes[g][p[2]])]
           Is(f) == f = [s \in SUBSET (DOMAIN Routes[g]) |->
                           IF s = {} THEN r
                           ELSE RouteAdded(f[s \ {Max(s)}], Routes[g][Max(s)])]
           F     == CHOOSE f : Is(f)
<1>1. n \in Nat /\ DOMAIN Routes[g] = 1..n
  BY RoutesType
<1>2. r \in S
  <2>1. << >> \in Seq(Rec)
    BY EmptySeq
  <2> DEFINE I == r.interfaces_
             e == << >>
  <2> HIDE DEF Rec, I, e
  <2>2. [interfaces_ |-> I, route_table_ |-> e] \in [interfaces_ : {I}, route_table_ : Seq(Rec)]
    BY <2>1 DEF e
  <2>3. r = [interfaces_ |-> I, route_table_ |-> e]
    BY DEF I, e
  <2>4. S = [interfaces_ : {I}, route_table_ : Seq(Rec)]
    BY DEF I
  <2> HIDE DEF S
  <2>5. QED
    BY <2>2, <2>3, <2>4
<1>3. step \in [S \X (1..n) -> S]
  <2>1. ASSUME NEW acc \in S, NEW i \in 1..n
        PROVE  RouteAdded(acc, Routes[g][i]) \in S
    <3> DEFINE rec == Table(g)[i]
               q   == Append(acc.route_table_, rec)
    <3>1. rec = [mask |-> Mask(Routes[g][i].length), route_prefix_ |-> Routes[g][i].prefix,
                 prefix_length_ |-> Routes[g][i].length, next_hop_ |-> Routes[g][i].next_hop,
                 interface_num_ |-> Routes[g][i].interface_num]
      BY <1>1 DEF Table
    <3>2. rec \in Rec
      OBVIOUS
    <3> HIDE DEF Rec, rec
    <3>3. q \in Seq(Rec)
      BY <3>2
    <3>4. RouteAdded(acc, Routes[g][i]) = [acc EXCEPT !.route_table_ = q]
      BY <3>1 DEF RouteAdded, AddRoute
    <3> HIDE DEF q
    <3>5. QED
      BY <3>3, <3>4
  <2> HIDE DEF S, n
  <2>2. QED
    BY <2>1
<1>4. \E f : Is(f)
  <2>1. PICK it : FoldsOver(it, n, S, r, step)
    <3> HIDE DEF S, step, n
    <3>1. QED
      BY <1>1, <1>2, <1>3, FoldExists
  <2> HIDE DEF S
  <2>2. ASSUME NEW s \in SUBSET (1..n), s # {}
        PROVE  it[s] = RouteAdded(it[s \ {Max(s)}], Routes[g][Max(s)])
    <3>1. Max(s) \in 1..n /\ s \ {Max(s)} \in SUBSET (1..n)
      BY <1>1, <2>2, MaxOf
    <3>2. it[s \ {Max(s)}] \in S /\ it[s] = step[<<it[s \ {Max(s)}], Max(s)>>]
      BY <2>1, <2>2, <3>1 DEF FoldsOver
    <3>3. QED
      BY <3>1, <3>2
  <2>3. it = [s \in SUBSET (1..n) |-> it[s]] /\ it[{}] = r
    BY <2>1 DEF FoldsOver
  <2>4. Is(it)
    <3> HIDE DEF step
    <3>1. QED
      BY <1>1, <2>2, <2>3
  <2>5. QED
    BY <2>4
<1>5. Is(F)
  BY <1>4
<1>6. FoldLeft(RouteAdded, r, Routes[g]) = F[DOMAIN Routes[g]]
  BY DEF FoldLeft, MapThenFoldSet
<1> HIDE DEF F
<1> DEFINE f == [k \in 0..n |-> F[1..k]]
<1>7. f[0] = r
  <2>1. 1..0 = {} /\ 1..0 \in SUBSET (1..n) /\ 0 \in 0..n
    BY <1>1
  <2>2. QED
    BY <1>1, <1>5, <2>1
<1>8. ASSUME NEW k \in 0..n - 1
      PROVE  f[k + 1] = RouteAdded(f[k], Routes[g][k + 1])
  <2>1. k \in Nat /\ k \in 0..n /\ k + 1 \in 0..n /\ 1..k + 1 \in SUBSET (1..n)
    BY <1>1
  <2>2. /\ 1..k + 1 # {} /\ Max(1..k + 1) = k + 1
        /\ (1..k + 1) \ {Max(1..k + 1)} = 1..k
    BY <2>1, FoldPrefix
  <2>3. F[1..k + 1] = RouteAdded(F[1..k], Routes[g][k + 1])
    BY <1>1, <1>5, <2>1, <2>2
  <2>4. QED
    BY <2>1, <2>3
<1>9. FoldLeft(RouteAdded, r, Routes[g]) = f[n]
  BY <1>1, <1>6
<1> HIDE DEF f
<1>10. QED
  BY <1>7, <1>8, <1>9

LEMMA RoutesAdded ==
  ASSUME NEW g \in Host, NEW r, r = [interfaces_ |-> r.interfaces_, route_table_ |-> << >>]
  PROVE  FoldLeft(RouteAdded, r, Routes[g])
           = [interfaces_ |-> r.interfaces_, route_table_ |-> Table(g)]
<1> DEFINE n   == Len(Routes[g])
           T   == Table(g)
           Rec == {T[i] : i \in 1..n}
<1>1. n \in Nat /\ DOMAIN Routes[g] = 1..n /\ DOMAIN T = 1..n
  BY RoutesType DEF Table
<1>2. PICK f : /\ f[0] = r
               /\ \A k \in 0..n - 1 : f[k + 1] = RouteAdded(f[k], Routes[g][k + 1])
               /\ FoldLeft(RouteAdded, r, Routes[g]) = f[n]
  BY RoutesAddedSteps
<1>3. \A k \in 1..n : T[k] =
        [mask |-> Mask(Routes[g][k].length), route_prefix_ |-> Routes[g][k].prefix,
         prefix_length_ |-> Routes[g][k].length, next_hop_ |-> Routes[g][k].next_hop,
         interface_num_ |-> Routes[g][k].interface_num]
  BY <1>1 DEF Table
<1> DEFINE Upto(k) == [i \in 1..k |-> T[i]]
           K == {k \in 0..n : f[k] = [interfaces_ |-> r.interfaces_, route_table_ |-> Upto(k)]}
<1>4. 0 \in K
  <2>1. Upto(0) = << >> /\ 0 \in 0..n
    BY <1>1
  <2>2. QED
    BY <1>2, <2>1
<1>5. ASSUME NEW k \in 0..n - 1, k \in K
      PROVE  k + 1 \in K
  <2>1. k \in Nat /\ k + 1 \in 1..n /\ k + 1 \in 0..n /\ k \in 0..n
    BY <1>1
  <2>2. f[k + 1] = [f[k] EXCEPT !.route_table_ = Append(@, T[k + 1])]
    BY <1>2, <1>3, <2>1 DEF RouteAdded, AddRoute
  <2>3. Append(Upto(k), T[k + 1]) = Upto(k + 1)
    <3> HIDE DEF T
    <3>1. Upto(k) \in Seq(Rec) /\ Len(Upto(k)) = k
      <4>1. \A i \in 1..k : i \in 1..n
        BY <1>1
      <4>2. QED
        BY <2>1, <4>1
    <3>2. Upto(k + 1) \in Seq(Rec) /\ Len(Upto(k + 1)) = k + 1
      <4>1. \A i \in 1..k + 1 : i \in 1..n
        BY <1>1, <2>1
      <4>2. QED
        BY <2>1, <4>1
    <3>3. T[k + 1] \in Rec /\ Upto(k + 1)[k + 1] = T[k + 1]
      BY <2>1
    <3>4. \A i \in 1..k : Upto(k)[i] = Upto(k + 1)[i]
      BY <2>1
    <3> HIDE DEF Upto, Rec
    <3>5. QED
      BY <3>1, <3>2, <3>3, <3>4, Appended
  <2> DEFINE I == r.interfaces_
             p == Upto(k)
             q == Upto(k + 1)
  <2>4. f[k] = [interfaces_ |-> I, route_table_ |-> p]
    BY <1>5
  <2> HIDE DEF Upto, T, I, p, q
  <2>5. [f[k] EXCEPT !.route_table_ = Append(@, T[k + 1])]
          = [interfaces_ |-> I, route_table_ |-> Append(p, T[k + 1])]
    BY <2>4, SMTT(60)
  <2>6. f[k + 1] = [interfaces_ |-> I, route_table_ |-> q]
    BY <2>2, <2>3, <2>5 DEF p, q
  <2>7. QED
    BY <2>1, <2>6 DEF I, q
<1>6. n \in K
  <2> HIDE DEF K, n
  <2>1. \A k \in 0..n : k \in K
    BY <1>1, <1>4, <1>5, UpTo
  <2>2. QED
    BY <1>1, <2>1
<1>7. Upto(n) = T
  <2>1. T = [i \in DOMAIN T |-> T[i]]
    BY DEF Table
  <2> HIDE DEF T
  <2>2. QED
    BY <1>1, <2>1
<1> HIDE DEF Upto, T
<1>8. QED
  BY <1>2, <1>6, <1>7 DEF T

LEMMA SetUpRouterGood ==
  ASSUME NEW g \in Host, NEW to
  PROVE  LET r == SetUpRouter(g)
         IN  /\ GoodRouter(r, g, to)
             /\ \A s \in Sides : /\ r.interfaces_[s].maybe_send_queue = << >>
                                 /\ r.interfaces_[s].datagrams_in_ = << >>
             /\ \A seg : AtRouter(r, seg) = 0
<1> DEFINE A == NewAsyncInterface(RouterEthernet[g][1], RouterIp[g][1])
           B == NewAsyncInterface(RouterEthernet[g][2], RouterIp[g][2])
           a == AddInterface(NewRouter, A)
           b == AddInterface(a, B)
           r == SetUpRouter(g)
<1>1. r = FoldLeft(RouteAdded, b, Routes[g])
  BY DEF SetUpRouter, RouteAdded, HostSide, InternetSide
<1> HIDE DEF A, B, r
<1>2. a = [interfaces_ |-> <<A>>, route_table_ |-> << >>]
  <2>1. Append(<< >>, A) = <<A>>
    OBVIOUS
  <2>2. QED
    BY <2>1 DEF AddInterface, NewRouter
<1>3. b = [interfaces_ |-> <<A, B>>, route_table_ |-> << >>]
  <2>1. Append(<<A>>, B) = <<A, B>>
    BY AppendToOne
  <2> HIDE DEF a
  <2> DEFINE one == <<A>>
             two == <<A, B>>
  <2>2. Append(one, B) = two
    BY <2>1
  <2>3. a = [interfaces_ |-> one, route_table_ |-> << >>]
    BY <1>2
  <2> HIDE DEF one, two
  <2>4. AddInterface(a, B) = [interfaces_ |-> two, route_table_ |-> << >>]
    BY <2>2, <2>3 DEF AddInterface
  <2>5. QED
    BY <2>4 DEF two
<1>4. r.interfaces_ = <<A, B>> /\ r.route_table_ = Table(g)
      /\ DOMAIN r = {"interfaces_", "route_table_"}
  <2> HIDE DEF b
  <2>1. b = [interfaces_ |-> b.interfaces_, route_table_ |-> << >>] /\ b.interfaces_ = <<A, B>>
    <3> DEFINE two == <<A, B>>
    <3> HIDE DEF two
    <3>1. b = [interfaces_ |-> two, route_table_ |-> << >>]
      BY <1>3 DEF two
    <3>2. QED
      BY <3>1 DEF two
  <2>2. r = [interfaces_ |-> b.interfaces_, route_table_ |-> Table(g)]
    BY <1>1, <2>1, RoutesAdded
  <2>3. QED
    BY <2>1, <2>2
<1>5. r.interfaces_[1] = A /\ r.interfaces_[2] = B
  BY <1>4
<1>6. /\ GoodInterface(A, RouterEthernet[g][1], RouterIp[g][1], to)
      /\ A.maybe_send_queue = << >>
      /\ "datagrams_in_" \in DOMAIN A /\ A.datagrams_in_ = << >>
      /\ \A seg : AtInterface(A, seg) = 0
  BY NewAsyncGood DEF A
<1>7. /\ GoodInterface(B, RouterEthernet[g][2], RouterIp[g][2], to)
      /\ B.maybe_send_queue = << >>
      /\ "datagrams_in_" \in DOMAIN B /\ B.datagrams_in_ = << >>
      /\ \A seg : AtInterface(B, seg) = 0
  BY NewAsyncGood DEF B
<1>8. \A s \in Sides : s = 1 \/ s = 2
  BY DEF Sides
<1>9. GoodRouter(r, g, to)
  BY <1>4, <1>5, <1>6, <1>7, <1>8 DEF GoodRouter, HasFields
<1>10. \A seg : AtRouter(r, seg) = 0
  BY <1>5, <1>6, <1>7 DEF AtRouter
<1>11. \A s \in Sides : /\ r.interfaces_[s].maybe_send_queue = << >>
                        /\ r.interfaces_[s].datagrams_in_ = << >>
  BY <1>5, <1>6, <1>7, <1>8
<1>12. QED
  BY <1>9, <1>10, <1>11 DEF r

LEMMA NewThreadGood ==
  ASSUME NEW g \in Host, NEW to
  PROVE  LET x == NewThread(SetUpRouter(g), HostSide, InternetSide)
         IN  /\ GoodThread(x, g, to)
             /\ x.to_internet = << >>
             /\ \A s \in Sides : x.router.interfaces_[s].maybe_send_queue = << >>
             /\ \A seg : AtThread(x, seg) = 0
<1> DEFINE r == SetUpRouter(g)
           x == NewThread(r, HostSide, InternetSide)
<1>1. /\ GoodRouter(r, g, to)
      /\ \A s \in Sides : /\ r.interfaces_[s].maybe_send_queue = << >>
                          /\ r.interfaces_[s].datagrams_in_ = << >>
      /\ \A seg : AtRouter(r, seg) = 0
  BY SetUpRouterGood
<1> HIDE DEF r
<1>2. /\ HasFields(x, {"router", "host_side", "internet_side", "frame_rules"} \cup ThreadQueues)
      /\ x.router = r /\ x.host_side = HostSide /\ x.internet_side = InternetSide
      /\ x.router_to_host = << >> /\ x.router_to_internet = << >>
      /\ x.from_host = << >> /\ x.from_internet = << >>
      /\ x.to_host = << >> /\ x.to_internet = << >>
  BY DEF NewThread, HasFields, ThreadQueues
<1>3. x.frame_rules = FrameRules
  BY DEF NewThread, FrameRules
<1> HIDE DEF x
<1>4. << >> \in Seq(Frame(to))
  BY EmptySeq
<1>5. \A q \in ThreadQueues : x[q] \in Seq(Frame(to))
  BY <1>2, <1>4 DEF ThreadQueues
<1>6. GoodThread(x, g, to)
  BY <1>1, <1>2, <1>3, <1>5 DEF GoodThread
<1>7. ASSUME NEW seg
      PROVE  AtThread(x, seg) = 0
  <2>1. Carried(<< >>, seg) = 0
    BY CarriedEmpty
  <2>2. QED
    BY <1>1, <1>2, <2>1 DEF AtThread
<1>8. QED
  BY <1>1, <1>2, <1>6, <1>7 DEF x, r

LEMMA NewAdapterGood ==
  ASSUME NEW h \in Host, NEW to, NEW destination \in Destinations
  PROVE  LET a == NewHostAdapter(h, destination)
         IN  /\ GoodAdapter(a, h, to)
             /\ a.written = << >> /\ a.interface.maybe_send_queue = << >>
             /\ a.tcp = IF h = Client THEN NewAdapter(HostIp[h], destination)
                        ELSE SetListening(NewAdapter(HostIp[h], [ip |-> 0, port |-> 0]), TRUE)
             /\ \A seg : AtInterface(a.interface, seg) = 0
<1> DEFINE n == NewInterface(HostEthernet[h], HostIp[h].ip)
           c == IF h = Client THEN NewAdapter(HostIp[h], destination)
                ELSE SetListening(NewAdapter(HostIp[h], [ip |-> 0, port |-> 0]), TRUE)
           a == NewHostAdapter(h, destination)
<1>1. /\ GoodInterface(n, HostEthernet[h], HostIp[h].ip, to)
      /\ n.maybe_send_queue = << >>
      /\ \A seg : AtInterface(n, seg) = 0
  BY NewInterfaceGood
<1>2. c \in Tcp(h)
  BY DEF Tcp
<1>3. a = [interface |-> n, next_hop |-> RouterIp[h][HostSide], tcp |-> c, written |-> << >>]
  BY DEF NewHostAdapter, NewEthernetAdapter
<1> HIDE DEF n, c, a
<1>4. << >> \in Seq(Frame(to))
  BY EmptySeq
<1>5. GoodAdapter(a, h, to)
  BY <1>1, <1>2, <1>3, <1>4 DEF GoodAdapter, HasFields
<1>6. QED
  BY <1>1, <1>3, <1>5 DEF a, c

\* The segments a host's adapter has returned.
LEMMA ReturnedType ==
  ASSUME NEW U, NEW q \in Seq(U), NEW seg
  PROVE  Returned(q, seg) \in Nat
<1>1. Returned(q, seg) = Hits(q, {seg})
  BY DEF Returned, Hits
<1>2. QED
  BY <1>1, HitsType

LEMMA ReturnedEmpty ==
  ASSUME NEW seg
  PROVE  Returned(<< >>, seg) = 0
<1>1. Returned(<< >>, seg) = Hits(<< >>, {seg})
  BY DEF Returned, Hits
<1>2. << >> \in Seq({})
  OBVIOUS
<1>3. QED
  BY <1>1, <1>2, HitsEmpty

LEMMA ReturnedAppend ==
  ASSUME NEW U, NEW q \in Seq(U), NEW one \in U, NEW seg
  PROVE  Returned(Append(q, one), seg) = Returned(q, seg) + IF one = seg THEN 1 ELSE 0
<1>1. \A p : Returned(p, seg) = Hits(p, {seg})
  BY DEF Returned, Hits
<1>2. <<one>> \in Seq(U) /\ q \o <<one>> = Append(q, one)
  BY AppendIsConcat
<1>3. Hits(<<one>>, {seg}) = IF one = seg THEN 1 ELSE 0
  BY HitsOne
<1>4. Hits(q \o <<one>>, {seg}) = Hits(q, {seg}) + Hits(<<one>>, {seg})
  <2> DEFINE W == {seg}
             t == <<one>>
  <2> HIDE DEF W, t
  <2>1. t \in Seq(U)
    BY <1>2 DEF t
  <2>2. Hits(q \o t, W) = Hits(q, W) + Hits(t, W)
    BY <2>1, HitsConcat
  <2>3. QED
    BY <2>2 DEF W, t
<1>5. QED
  BY <1>1, <1>2, <1>3, <1>4

LEMMA OutgoingType ==
  ASSUME NEW h \in Host
  PROVE  /\ Len(Outgoing[h]) \in Nat /\ DOMAIN Outgoing[h] = 1..Len(Outgoing[h])
         /\ \A i \in DOMAIN Outgoing[h] : Outgoing[h][i] \in Segment
<1>1. Outgoing[h] \in Seq(ToSet(Outgoing[h]))
  BY TrafficAssumption
<1>2. Len(Outgoing[h]) \in Nat /\ DOMAIN Outgoing[h] = 1..Len(Outgoing[h])
  BY <1>1
<1>3. \A i \in DOMAIN Outgoing[h] : Outgoing[h][i] \in ToSet(Outgoing[h])
  BY DEF ToSet
<1>4. QED
  BY <1>2, <1>3 DEF Segment

LEMMA InitGood ==
  ASSUME Init
  PROVE  Inv
<1>1. PICK destination \in Destinations :
        adapter = [h \in Host |-> NewHostAdapter(h, destination)]
  BY DEF Init
<1>2. \A h \in Host : adapter[h] = NewHostAdapter(h, destination)
  BY <1>1
<1>3. \A h \in Host : thread[h] = NewThread(SetUpRouter(h), HostSide, InternetSide)
  BY DEF Init
<1>4. ASSUME NEW h \in Host
      PROVE  /\ GoodAdapter(adapter[h], h, Targets)
             /\ adapter[h].written = << >>
             /\ adapter[h].interface.maybe_send_queue = << >>
             /\ \A seg : AtInterface(adapter[h].interface, seg) = 0
  BY <1>2, NewAdapterGood
<1>5. ASSUME NEW h \in Host
      PROVE  /\ GoodThread(thread[h], h, Targets)
             /\ thread[h].to_internet = << >>
             /\ \A s \in Sides : thread[h].router.interfaces_[s].maybe_send_queue = << >>
             /\ \A seg : AtThread(thread[h], seg) = 0
  BY <1>3, NewThreadGood
<1>6. \A h \in Host : received[h] = << >> /\ sent[h] = 0
  BY DEF Init
<1>7. /\ DOMAIN adapter = Host /\ DOMAIN thread = Host
      /\ sent \in [Host -> Nat] /\ received \in [Host -> Seq(Segment)]
      /\ \A h \in Host : sent[h] <= Len(Outgoing[h])
  <2>1. << >> \in Seq(Segment)
    BY EmptySeq
  <2>2. QED
    BY <1>1, <1>6, <2>1, OutgoingType DEF Init
<1>8. ASSUME NEW h \in Host, NEW seg
      PROVE  AtHost(adapter[h], thread[h], received[h], seg) = 0
  BY <1>4, <1>5, <1>6, ReturnedEmpty DEF AtHost
<1>9. \A seg : Everywhere(seg) = 0
  <2>1. Client \in Host /\ Other(Client) \in Host
    BY HostAssumption, Hosts
  <2>2. QED
    BY <1>8, <2>1 DEF Everywhere
<1>10. ASSUME NEW h \in Host, NEW i \in DOMAIN Outgoing[h]
       PROVE  Everywhere(Outgoing[h][i]) <= IF i <= sent[h] THEN 1 ELSE 0
  BY <1>9
<1>11. QED
  BY <1>4, <1>5, <1>6, <1>7, <1>10 DEF Inv

-----------------------------------------------------------------------------
(* The steps of a host and of its thread. *)
\* y is x but for q, where it has v.
Changed(x, y, q, v) ==
  DOMAIN y = DOMAIN x /\ y[q] = v /\ \A p \in DOMAIN x \ {q} : y[p] = x[p]

LEMMA NumbersReplaced ==
  ASSUME NEW x, NEW y, NEW seg, NEW q \in ThreadQueues, NEW v, Numbers(x, seg),
         \A p \in ThreadQueues : p # q => y[p] = x[p], y[q] = v, y.router = x.router,
         Carried(v, seg) \in Nat
  PROVE  AtThread(y, seg) + Carried(x[q], seg) = AtThread(x, seg) + Carried(v, seg)
<1> DEFINE a == x.router_to_host
           b == x.router_to_internet
           c == x.from_host
           d == x.from_internet
           e == x.to_host
           f == x.to_internet
           A == y.router_to_host
           B == y.router_to_internet
           C == y.from_host
           D == y.from_internet
           E == y.to_host
           F == y.to_internet
           n(p) == Carried(p, seg)
           r == AtRouter(x.router, seg)
<1>1. /\ n(a) \in Nat /\ n(b) \in Nat /\ n(c) \in Nat /\ n(d) \in Nat
      /\ n(e) \in Nat /\ n(f) \in Nat /\ r \in Nat /\ n(v) \in Nat
  BY DEF Numbers
<1>2. /\ AtThread(x, seg) = n(c) + n(e) + n(d) + n(a) + n(b) + n(f) + r
      /\ AtThread(y, seg) = n(C) + n(E) + n(D) + n(A) + n(B) + n(F) + r
  BY DEF AtThread
<1>3. \/ q = "router_to_host" /\ A = v /\ x[q] = a /\ B = b /\ C = c /\ D = d /\ E = e /\ F = f
      \/ q = "router_to_internet" /\ B = v /\ x[q] = b /\ A = a /\ C = c /\ D = d /\ E = e /\ F = f
      \/ q = "from_host" /\ C = v /\ x[q] = c /\ A = a /\ B = b /\ D = d /\ E = e /\ F = f
      \/ q = "from_internet" /\ D = v /\ x[q] = d /\ A = a /\ B = b /\ C = c /\ E = e /\ F = f
      \/ q = "to_host" /\ E = v /\ x[q] = e /\ A = a /\ B = b /\ C = c /\ D = d /\ F = f
      \/ q = "to_internet" /\ F = v /\ x[q] = f /\ A = a /\ B = b /\ C = c /\ D = d /\ E = e
  BY DEF ThreadQueues
<1> DEFINE w == x[q]
<1>4. n(w) = Carried(x[q], seg) /\ n(v) = Carried(v, seg)
  OBVIOUS
<1>5. \/ A = v /\ w = a /\ B = b /\ C = c /\ D = d /\ E = e /\ F = f
      \/ B = v /\ w = b /\ A = a /\ C = c /\ D = d /\ E = e /\ F = f
      \/ C = v /\ w = c /\ A = a /\ B = b /\ D = d /\ E = e /\ F = f
      \/ D = v /\ w = d /\ A = a /\ B = b /\ C = c /\ E = e /\ F = f
      \/ E = v /\ w = e /\ A = a /\ B = b /\ C = c /\ D = d /\ F = f
      \/ F = v /\ w = f /\ A = a /\ B = b /\ C = c /\ D = d /\ E = e
  BY <1>3
<1> HIDE DEF a, b, c, d, e, f, A, B, C, D, E, F, n, r, w
<1>6. AtThread(y, seg) + n(w) = AtThread(x, seg) + n(v)
  BY <1>1, <1>2, <1>5
<1>7. QED
  BY <1>4, <1>6

LEMMA QueueReplaced ==
  ASSUME NEW x, NEW g, NEW to, GoodThread(x, g, to), NEW q \in ThreadQueues,
         NEW v \in Seq(Frame(to)), NEW y, Changed(x, y, q, v)
  PROVE  /\ GoodThread(y, g, to)
         /\ y[q] = v /\ \A p \in ThreadQueues \ {q} : y[p] = x[p]
         /\ y.router = x.router
         /\ \A seg : AtThread(y, seg) + Carried(x[q], seg) = AtThread(x, seg) + Carried(v, seg)
<1>1. DOMAIN y = DOMAIN x /\ ThreadQueues \subseteq DOMAIN x
  BY DEF GoodThread, HasFields, Changed
<1>2. y[q] = v /\ \A p \in DOMAIN x \ {q} : y[p] = x[p]
  BY DEF Changed
<1>3. /\ "router" # q /\ "host_side" # q /\ "internet_side" # q /\ "frame_rules" # q
      /\ {"router", "host_side", "internet_side", "frame_rules"} \subseteq DOMAIN x
  BY DEF ThreadQueues, GoodThread, HasFields
<1>4. /\ y.router = x.router /\ y.host_side = x.host_side
      /\ y.internet_side = x.internet_side /\ y.frame_rules = x.frame_rules
  BY <1>2, <1>3
<1>5. \A p \in ThreadQueues : y[p] \in Seq(Frame(to))
  BY <1>1, <1>2 DEF GoodThread
<1>6. GoodThread(y, g, to)
  BY <1>1, <1>4, <1>5 DEF GoodThread, HasFields
<1>7. ASSUME NEW seg
      PROVE  AtThread(y, seg) + Carried(x[q], seg) = AtThread(x, seg) + Carried(v, seg)
  <2>1. /\ Carried(x.from_host, seg) \in Nat /\ Carried(x.to_host, seg) \in Nat
        /\ Carried(x.from_internet, seg) \in Nat /\ Carried(x.router_to_host, seg) \in Nat
        /\ Carried(x.router_to_internet, seg) \in Nat /\ Carried(x.to_internet, seg) \in Nat
        /\ AtRouter(x.router, seg) \in Nat
    BY ThreadTypes
  <2>2. Carried(v, seg) \in Nat
    BY CarriedType
  <2>3. \A p \in ThreadQueues : Carried(y[p], seg) = IF p = q THEN Carried(v, seg)
                                                    ELSE Carried(x[p], seg)
    BY <1>1, <1>2
  <2>4. \A p \in ThreadQueues : p # q => y[p] = x[p]
    BY <1>1, <1>2
  <2>5. QED
    BY <1>1, <1>2, <1>4, <2>1, <2>2, <2>4, NumbersReplaced DEF Numbers
<1>8. QED
  BY <1>1, <1>2, <1>4, <1>6, <1>7

\* A host and its thread between two steps.
HostGood(h, a, x, to) ==
  /\ GoodAdapter(a, h, to) /\ a.written = << >> /\ a.interface.maybe_send_queue = << >>
  /\ GoodThread(x, h, to) /\ x.to_internet = << >>
  /\ \A s \in Sides : x.router.interfaces_[s].maybe_send_queue = << >>

AtBoth(a, x, seg) == AtInterface(a.interface, seg) + AtThread(x, seg)

LEMMA BothType ==
  ASSUME NEW h, NEW a, NEW x, NEW to, HostGood(h, a, x, to), NEW seg
  PROVE  /\ AtInterface(a.interface, seg) \in Nat /\ AtThread(x, seg) \in Nat
         /\ AtBoth(a, x, seg) \in Nat
<1>1. AtInterface(a.interface, seg) \in Nat
  BY KeptType DEF HostGood, GoodAdapter
<1>2. AtThread(x, seg) \in Nat
  BY ThreadTypes DEF HostGood
<1>3. QED
  BY <1>1, <1>2 DEF AtBoth

\* What an adapter has written is read by the thread.
Unwritten(a) == [a EXCEPT !.written = << >>]

Handing(x, a) == [x EXCEPT !.from_host = x.from_host \o a.written]

LEMMA HandedGood ==
  ASSUME NEW h \in Host, NEW to, NEW a, GoodAdapter(a, h, to),
         a.interface.maybe_send_queue = << >>,
         NEW x, GoodThread(x, h, to), x.to_internet = << >>,
         \A s \in Sides : x.router.interfaces_[s].maybe_send_queue = << >>
  PROVE  LET b == Unwritten(a)
             y == Handing(x, a)
         IN  /\ HostGood(h, b, y, to)
             /\ b.interface = a.interface /\ b.tcp = a.tcp
             /\ \A seg : /\ AtThread(y, seg) = AtThread(x, seg) + Carried(a.written, seg)
                         /\ Carried(a.written, seg) \in Nat
<1> DEFINE b == [a EXCEPT !.written = << >>]
           v == x.from_host \o a.written
           y == [x EXCEPT !.from_host = v]
<1>1. /\ DOMAIN b = DOMAIN a /\ b.interface = a.interface /\ b.next_hop = a.next_hop
      /\ b.tcp = a.tcp /\ b.written = << >>
  BY DEF GoodAdapter, HasFields
<1>2. << >> \in Seq(Frame(to))
  BY EmptySeq
<1>3. GoodAdapter(b, h, to)
  <2> HIDE DEF b
  <2>1. QED
    BY <1>1, <1>2 DEF GoodAdapter, HasFields
<1>4. x.from_host \in Seq(Frame(to)) /\ a.written \in Seq(Frame(to)) /\ v \in Seq(Frame(to))
  <2>1. x.from_host \in Seq(Frame(to)) /\ a.written \in Seq(Frame(to))
    BY DEF GoodThread, GoodAdapter, ThreadQueues
  <2>2. QED
    BY <2>1, ConcatProperties
<1> DEFINE q == "from_host"
<1>5. q \in ThreadQueues /\ "to_internet" \in ThreadQueues \ {q}
  BY DEF ThreadQueues
<1> HIDE DEF v
<1>7. Changed(x, y, q, v)
  BY DEF Changed, GoodThread, HasFields, ThreadQueues
<1> HIDE DEF y
<1>6. /\ GoodThread(y, h, to)
      /\ y[q] = v /\ \A p \in ThreadQueues \ {q} : y[p] = x[p]
      /\ y.router = x.router
      /\ \A seg : AtThread(y, seg) + Carried(x[q], seg) = AtThread(x, seg) + Carried(v, seg)
  <2> HIDE DEF q, b
  <2>1. QED
    BY <1>4, <1>5, <1>7, QueueReplaced
<1>8. HostGood(h, b, y, to)
  <2>1. y.to_internet = << >> /\ y.router = x.router /\ GoodThread(y, h, to)
    BY <1>5, <1>6
  <2> HIDE DEF b
  <2>2. QED
    BY <1>1, <1>3, <2>1 DEF HostGood
<1>9. ASSUME NEW seg
      PROVE  /\ AtThread(y, seg) = AtThread(x, seg) + Carried(a.written, seg)
             /\ Carried(a.written, seg) \in Nat
  <2>1. AtThread(y, seg) + Carried(x.from_host, seg) = AtThread(x, seg) + Carried(v, seg)
    BY <1>6
  <2>2. Carried(v, seg) = Carried(x.from_host, seg) + Carried(a.written, seg)
    BY <1>4, CarriedConcat DEF v
  <2>3. Carried(x.from_host, seg) \in Nat /\ Carried(a.written, seg) \in Nat
    BY <1>4, CarriedType
  <2>4. AtThread(x, seg) \in Nat /\ AtThread(y, seg) \in Nat
    <3>1. GoodThread(y, h, to)
      BY <1>6
    <3>2. QED
      BY <3>1, ThreadTypes
  <2>5. QED
    BY <2>1, <2>2, <2>3, <2>4
<1>10. QED
  BY <1>1, <1>8, <1>9 DEF b, y, v, Unwritten, Handing

LEMMA TailGood ==
  ASSUME NEW x, NEW g, NEW to, GoodThread(x, g, to), NEW q \in ThreadQueues, x[q] # << >>,
         NEW y, Changed(x, y, q, Tail(x[q]))
  PROVE  /\ Head(x[q]) \in Frame(to) /\ GoodThread(y, g, to)
         /\ \A p \in ThreadQueues \ {q} : y[p] = x[p]
         /\ y.router = x.router
         /\ \A seg : /\ AtThread(y, seg) + Weight(Head(x[q]), seg) = AtThread(x, seg)
                     /\ Weight(Head(x[q]), seg) \in Nat /\ AtThread(y, seg) \in Nat
<1> DEFINE v == Tail(x[q])
           f == Head(x[q])
<1>1. x[q] \in Seq(Frame(to))
  BY DEF GoodThread
<1>2. /\ f \in Frame(to) /\ v \in Seq(Frame(to))
      /\ \A seg : Carried(x[q], seg) = Weight(f, seg) + Carried(v, seg)
  BY <1>1, CarriedTail
<1> HIDE DEF v, f
<1>3. Changed(x, y, q, v)
  BY DEF v
<1>4. /\ GoodThread(y, g, to)
      /\ \A p \in ThreadQueues \ {q} : y[p] = x[p]
      /\ y.router = x.router
      /\ \A seg : AtThread(y, seg) + Carried(x[q], seg) = AtThread(x, seg) + Carried(v, seg)
  BY <1>2, <1>3, QueueReplaced
<1>5. ASSUME NEW seg
      PROVE  /\ AtThread(y, seg) + Weight(f, seg) = AtThread(x, seg)
             /\ Weight(f, seg) \in Nat /\ AtThread(y, seg) \in Nat
  <2>1. Carried(v, seg) \in Nat
    BY <1>2, CarriedType
  <2>2. AtThread(y, seg) \in Nat /\ AtThread(x, seg) \in Nat
    BY <1>4, ThreadTypes
  <2>3. Weight(f, seg) \in Nat
    BY DEF Weight
  <2>4. /\ Carried(x[q], seg) = Weight(f, seg) + Carried(v, seg)
        /\ AtThread(y, seg) + Carried(x[q], seg) = AtThread(x, seg) + Carried(v, seg)
    BY <1>2, <1>4
  <2>5. QED
    BY <2>1, <2>2, <2>3, <2>4
<1>6. QED
  BY <1>2, <1>4, <1>5 DEF f

LEMMA AppendedGood ==
  ASSUME NEW x, NEW g, NEW to, GoodThread(x, g, to), NEW q \in ThreadQueues,
         NEW w \in Seq(Frame(to)), NEW y, Changed(x, y, q, x[q] \o w)
  PROVE  /\ GoodThread(y, g, to)
         /\ \A p \in ThreadQueues \ {q} : y[p] = x[p]
         /\ y.router = x.router
         /\ \A seg : /\ AtThread(y, seg) = AtThread(x, seg) + Carried(w, seg)
                     /\ Carried(w, seg) \in Nat
<1> DEFINE v == x[q] \o w
<1>1. x[q] \in Seq(Frame(to))
  BY DEF GoodThread
<1>2. v \in Seq(Frame(to)) /\ \A seg : Carried(v, seg) = Carried(x[q], seg) + Carried(w, seg)
  BY <1>1, ConcatProperties, CarriedConcat
<1> HIDE DEF v
<1>3. Changed(x, y, q, v)
  BY DEF v
<1>4. /\ GoodThread(y, g, to)
      /\ \A p \in ThreadQueues \ {q} : y[p] = x[p]
      /\ y.router = x.router
      /\ \A seg : AtThread(y, seg) + Carried(x[q], seg) = AtThread(x, seg) + Carried(v, seg)
  BY <1>2, <1>3, QueueReplaced
<1>5. ASSUME NEW seg
      PROVE  /\ AtThread(y, seg) = AtThread(x, seg) + Carried(w, seg)
             /\ Carried(w, seg) \in Nat
  <2>1. Carried(w, seg) \in Nat /\ Carried(x[q], seg) \in Nat
    BY <1>1, CarriedType
  <2>2. AtThread(y, seg) \in Nat /\ AtThread(x, seg) \in Nat
    BY <1>4, ThreadTypes
  <2>3. /\ Carried(v, seg) = Carried(x[q], seg) + Carried(w, seg)
        /\ AtThread(y, seg) + Carried(x[q], seg) = AtThread(x, seg) + Carried(v, seg)
    BY <1>2, <1>4
  <2>4. QED
    BY <2>1, <2>2, <2>3
<1>6. QED
  BY <1>4, <1>5

LEMMA WriteStep ==
  ASSUME NEW h \in Host, NEW a, NEW x, NEW to, HostGood(h, a, x, to),
         ~a.tcp.listening, a.tcp.destination \in to[h], NEW segment \in Segment
  PROVE  LET new == AdapterWrite(a, segment)
             b   == Unwritten(new)
             y   == Handing(x, new)
         IN  /\ HostGood(h, b, y, to) /\ b.tcp = a.tcp
             /\ \A seg : AtBoth(b, y, seg) <= AtBoth(a, x, seg)
                                               + IF seg = segment THEN 1 ELSE 0
<1> DEFINE new == AdapterWrite(a, segment)
           b   == Unwritten(new)
           y   == Handing(x, new)
<1>1. /\ GoodAdapter(new, h, to)
      /\ new.interface.maybe_send_queue = << >>
      /\ new.tcp = a.tcp
      /\ \A seg : AtInterface(new.interface, seg) + Carried(new.written, seg)
                    <= AtInterface(a.interface, seg) + (IF seg = segment THEN 1 ELSE 0)
  BY WriteGood DEF HostGood
<1> HIDE DEF new
<1>2. /\ HostGood(h, b, y, to)
      /\ b.interface = new.interface /\ b.tcp = new.tcp
      /\ \A seg : /\ AtThread(y, seg) = AtThread(x, seg) + Carried(new.written, seg)
                  /\ Carried(new.written, seg) \in Nat
  <2>1. /\ GoodThread(x, h, to) /\ x.to_internet = << >>
        /\ \A s \in Sides : x.router.interfaces_[s].maybe_send_queue = << >>
    BY DEF HostGood
  <2>2. QED
    BY <1>1, <2>1, HandedGood
<1> HIDE DEF b, y
<1>3. ASSUME NEW seg
      PROVE  AtBoth(b, y, seg) <= AtBoth(a, x, seg) + IF seg = segment THEN 1 ELSE 0
  <2> DEFINE one == IF seg = segment THEN 1 ELSE 0
  <2>1. one \in Nat
    OBVIOUS
  <2>2. /\ AtInterface(a.interface, seg) \in Nat /\ AtThread(x, seg) \in Nat
        /\ AtInterface(b.interface, seg) \in Nat /\ AtThread(y, seg) \in Nat
    BY <1>2, BothType
  <2>3. AtInterface(b.interface, seg) + Carried(new.written, seg)
          <= AtInterface(a.interface, seg) + one
    BY <1>1, <1>2
  <2> HIDE DEF one
  <2>4. AtBoth(b, y, seg) <= AtBoth(a, x, seg) + one
    BY <1>2, <2>1, <2>2, <2>3 DEF AtBoth
  <2>5. QED
    BY <2>4 DEF one
<1>4. QED
  BY <1>1, <1>2, <1>3 DEF b, y, new

LEMMA TickStep ==
  ASSUME NEW h \in Host, NEW a, NEW x, NEW to, HostGood(h, a, x, to), NEW ms \in Nat
  PROVE  LET new == AdapterTick(a, ms)
             b   == Unwritten(new)
             y   == Handing(x, new)
         IN  /\ HostGood(h, b, y, to) /\ b.tcp = a.tcp
             /\ \A seg : AtBoth(b, y, seg) = AtBoth(a, x, seg)
<1> DEFINE new == AdapterTick(a, ms)
           b   == Unwritten(new)
           y   == Handing(x, new)
<1>1. /\ GoodAdapter(new, h, to)
      /\ new.interface.maybe_send_queue = << >>
      /\ new.tcp = a.tcp
      /\ \A seg : AtInterface(new.interface, seg) + Carried(new.written, seg)
                    = AtInterface(a.interface, seg)
  BY AdapterTickGood DEF HostGood
<1> HIDE DEF new
<1>2. /\ HostGood(h, b, y, to)
      /\ b.interface = new.interface /\ b.tcp = new.tcp
      /\ \A seg : /\ AtThread(y, seg) = AtThread(x, seg) + Carried(new.written, seg)
                  /\ Carried(new.written, seg) \in Nat
  <2>1. /\ GoodThread(x, h, to) /\ x.to_internet = << >>
        /\ \A s \in Sides : x.router.interfaces_[s].maybe_send_queue = << >>
    BY DEF HostGood
  <2>2. QED
    BY <1>1, <2>1, HandedGood
<1> HIDE DEF b, y
<1>3. ASSUME NEW seg
      PROVE  AtBoth(b, y, seg) = AtBoth(a, x, seg)
  <2>1. /\ AtInterface(a.interface, seg) \in Nat /\ AtThread(x, seg) \in Nat
        /\ AtInterface(b.interface, seg) \in Nat /\ AtThread(y, seg) \in Nat
    BY <1>2, BothType
  <2>2. AtInterface(b.interface, seg) + Carried(new.written, seg) = AtInterface(a.interface, seg)
    BY <1>1, <1>2
  <2>3. QED
    BY <1>2, <2>1, <2>2 DEF AtBoth
<1>4. QED
  BY <1>1, <1>2, <1>3 DEF b, y, new

HandingRead(x, a) ==
  [x EXCEPT !.to_host = Tail(x.to_host), !.from_host = x.from_host \o a.written]

LEMMA ReadStep ==
  ASSUME NEW h \in Host, NEW a, NEW x, NEW to, HostGood(h, a, x, to), Sane(to),
         x.to_host # << >>
  PROVE  LET f    == Head(x.to_host)
             read == AdapterRead(a, f)
             b    == Unwritten(read.adapter)
             y    == HandingRead(x, read.adapter)
         IN  /\ HostGood(h, b, y, to)
             /\ ~a.tcp.listening => b.tcp = a.tcp
             /\ read.segment # NoSegment =>
                  read.segment \in Segment /\ HostIp[h] \in to[Other(h)]
             /\ \A seg : AtBoth(b, y, seg)
                           + (IF read.segment # NoSegment /\ read.segment = seg THEN 1 ELSE 0)
                         <= AtBoth(a, x, seg)
<1> DEFINE f    == Head(x.to_host)
           v    == Tail(x.to_host)
           z    == [x EXCEPT !.to_host = v]
           read == AdapterRead(a, f)
           new  == read.adapter
           b    == Unwritten(new)
           y    == Handing(z, new)
           q    == "to_host"
<1>1. Changed(x, z, q, Tail(x[q]))
  BY DEF Changed, HostGood, GoodThread, HasFields, ThreadQueues
<1>2. GoodThread(x, h, to) /\ x[q] # << >> /\ q \in ThreadQueues
  BY DEF HostGood, ThreadQueues
<1> HIDE DEF z
<1>3. /\ f \in Frame(to) /\ GoodThread(z, h, to)
      /\ \A p \in ThreadQueues \ {q} : z[p] = x[p]
      /\ z.router = x.router
      /\ \A seg : /\ AtThread(z, seg) + Weight(f, seg) = AtThread(x, seg)
                  /\ Weight(f, seg) \in Nat /\ AtThread(z, seg) \in Nat
  <2> HIDE DEF q
  <2>1. /\ Head(x[q]) \in Frame(to) /\ GoodThread(z, h, to)
        /\ \A p \in ThreadQueues \ {q} : z[p] = x[p]
        /\ z.router = x.router
        /\ \A seg : /\ AtThread(z, seg) + Weight(Head(x[q]), seg) = AtThread(x, seg)
                    /\ Weight(Head(x[q]), seg) \in Nat /\ AtThread(z, seg) \in Nat
    BY <1>1, <1>2, TailGood
  <2>2. f = Head(x[q])
    BY DEF q
  <2> HIDE DEF f
  <2>3. QED
    BY <2>1, <2>2
<1> HIDE DEF f
<1>4. z.from_host = x.from_host /\ z.to_internet = << >>
  BY <1>3 DEF HostGood, ThreadQueues
<1>5. /\ GoodAdapter(new, h, to)
      /\ new.interface.maybe_send_queue = << >>
      /\ ~a.tcp.listening => new.tcp = a.tcp
      /\ read.segment # NoSegment => read.segment \in Segment /\ HostIp[h] \in to[Other(h)]
      /\ \A seg : /\ AtInterface(new.interface, seg) + Carried(new.written, seg)
                       = AtInterface(a.interface, seg)
                  /\ read.segment # NoSegment /\ read.segment = seg => Weight(f, seg) = 1
  <2>1. GoodAdapter(a, h, to) /\ a.written = << >> /\ f \in Frame(to)
    BY <1>3 DEF HostGood
  <2>2. LET r == AdapterRead(a, f)
        IN  /\ GoodAdapter(r.adapter, h, to)
            /\ r.adapter.interface.maybe_send_queue = << >>
            /\ ~a.tcp.listening => r.adapter.tcp = a.tcp
            /\ r.segment # NoSegment =>
                 /\ r.segment \in Segment /\ ~r.adapter.tcp.listening
                 /\ HostIp[h] \in to[Other(h)]
            /\ \A seg : /\ AtInterface(r.adapter.interface, seg) + Carried(r.adapter.written, seg)
                              = AtInterface(a.interface, seg)
                        /\ r.segment # NoSegment /\ r.segment = seg => Weight(f, seg) = 1
    <3> HIDE DEF b, y
    <3>1. QED
      BY <2>1, ReadGood
  <2>3. QED
    BY <2>2
<1> HIDE DEF read
<1>6. /\ HostGood(h, b, y, to)
      /\ b.interface = new.interface /\ b.tcp = new.tcp
      /\ \A seg : /\ AtThread(y, seg) = AtThread(z, seg) + Carried(new.written, seg)
                  /\ Carried(new.written, seg) \in Nat
  <2> HIDE DEF new
  <2>1. \A s \in Sides : z.router.interfaces_[s].maybe_send_queue = << >>
    BY <1>3 DEF HostGood
  <2>2. QED
    BY <1>3, <1>4, <1>5, <2>1, HandedGood
<1>7. y = HandingRead(x, read.adapter)
  BY <1>4 DEF z, Handing, HandingRead
<1> HIDE DEF b, y, new
<1>8. ASSUME NEW seg
      PROVE  AtBoth(b, y, seg)
               + (IF read.segment # NoSegment /\ read.segment = seg THEN 1 ELSE 0)
               <= AtBoth(a, x, seg)
  <2> DEFINE one == IF read.segment # NoSegment /\ read.segment = seg THEN 1 ELSE 0
  <2>1. one \in Nat /\ one <= Weight(f, seg)
    BY <1>3, <1>5
  <2>2. /\ AtInterface(a.interface, seg) \in Nat /\ AtThread(x, seg) \in Nat
        /\ AtInterface(b.interface, seg) \in Nat /\ AtThread(y, seg) \in Nat
    BY <1>6, BothType
  <2>3. AtInterface(b.interface, seg) + Carried(new.written, seg) = AtInterface(a.interface, seg)
    BY <1>5, <1>6
  <2>4. /\ AtThread(z, seg) + Weight(f, seg) = AtThread(x, seg)
        /\ Weight(f, seg) \in Nat /\ AtThread(z, seg) \in Nat
        /\ AtThread(y, seg) = AtThread(z, seg) + Carried(new.written, seg)
        /\ Carried(new.written, seg) \in Nat
    BY <1>3, <1>6
  <2> HIDE DEF one
  <2>5. AtBoth(b, y, seg) + one <= AtBoth(a, x, seg)
    BY <2>1, <2>2, <2>3, <2>4, SMTT(60) DEF AtBoth
  <2>6. QED
    BY <2>5 DEF one
<1>9. QED
  BY <1>5, <1>6, <1>7, <1>8 DEF b, new, read, f

Outgone(x) == [x EXCEPT !.to_internet = << >>]

Filled(x, w) == [x EXCEPT !.from_internet = x.from_internet \o w]

Lost(x) == [x EXCEPT !.from_internet = Tail(x.from_internet)]

\* What a round writes to the Internet is handed to the other program.
LEMMA RoundStep ==
  ASSUME NEW h \in Host, NEW a, NEW x, NEW to, HostGood(h, a, x, to), NEW ms \in Nat,
         NEW z, z = ThreadRound(x, ms)
  PROVE  LET y == Outgone(z)
         IN  /\ HostGood(h, a, y, to)
             /\ z.to_internet \in Seq(Frame(to))
             /\ \A seg : /\ Carried(z.to_internet, seg) \in Nat
                         /\ AtBoth(a, y, seg) + Carried(z.to_internet, seg) <= AtBoth(a, x, seg)
<1> DEFINE q == "to_internet"
           v == << >>
           y == [z EXCEPT ![q] = v]
<1>1. /\ GoodThread(z, h, to)
      /\ \A s \in Sides : z.router.interfaces_[s].maybe_send_queue = << >>
      /\ \A seg : AtThread(z, seg) <= AtThread(x, seg)
  <2>1. GoodThread(x, h, to)
    BY DEF HostGood
  <2>2. QED
    BY <2>1, RoundGood
<1>2. q \in ThreadQueues /\ v \in Seq(Frame(to)) /\ \A seg : Carried(v, seg) = 0
  BY EmptySeq, CarriedEmpty DEF ThreadQueues
<1>3. Changed(z, y, q, v)
  BY <1>1 DEF Changed, GoodThread, HasFields, ThreadQueues
<1>4. z[q] \in Seq(Frame(to)) /\ z[q] = z.to_internet
  BY <1>1, <1>2 DEF GoodThread
<1> HIDE DEF y, v
<1>5. /\ GoodThread(y, h, to)
      /\ y[q] = v /\ y.router = z.router
      /\ \A seg : AtThread(y, seg) + Carried(z[q], seg) = AtThread(z, seg) + Carried(v, seg)
  <2> HIDE DEF q
  <2>1. QED
    BY <1>1, <1>2, <1>3, QueueReplaced
<1>6. HostGood(h, a, y, to)
  BY <1>1, <1>5 DEF HostGood, v
<1>7. ASSUME NEW seg
      PROVE  /\ Carried(z.to_internet, seg) \in Nat
             /\ AtBoth(a, y, seg) + Carried(z.to_internet, seg) <= AtBoth(a, x, seg)
  <2>1. Carried(z.to_internet, seg) \in Nat
    BY <1>4, CarriedType
  <2>2. /\ AtInterface(a.interface, seg) \in Nat /\ AtThread(x, seg) \in Nat
        /\ AtThread(y, seg) \in Nat
    BY <1>6, BothType
  <2>3. AtThread(z, seg) \in Nat
    BY <1>1, ThreadTypes
  <2>4. /\ AtThread(y, seg) + Carried(z.to_internet, seg) = AtThread(z, seg) + 0
        /\ AtThread(z, seg) <= AtThread(x, seg)
    BY <1>1, <1>2, <1>4, <1>5
  <2>5. QED
    BY <2>1, <2>2, <2>3, <2>4 DEF AtBoth
<1>8. QED
  BY <1>4, <1>6, <1>7 DEF y, v, Outgone

LEMMA ArriveStep ==
  ASSUME NEW h \in Host, NEW a, NEW x, NEW to, HostGood(h, a, x, to), NEW w \in Seq(Frame(to))
  PROVE  LET y == Filled(x, w)
         IN  /\ HostGood(h, a, y, to)
             /\ \A seg : AtBoth(a, y, seg) = AtBoth(a, x, seg) + Carried(w, seg)
<1> DEFINE q == "from_internet"
           y == [x EXCEPT ![q] = x[q] \o w]
<1>1. GoodThread(x, h, to) /\ q \in ThreadQueues /\ "to_internet" \in ThreadQueues \ {q}
  BY DEF HostGood, ThreadQueues
<1>2. Changed(x, y, q, x[q] \o w)
  BY <1>1 DEF Changed, GoodThread, HasFields, ThreadQueues
<1> HIDE DEF y
<1>3. /\ GoodThread(y, h, to)
      /\ \A p \in ThreadQueues \ {q} : y[p] = x[p]
      /\ y.router = x.router
      /\ \A seg : /\ AtThread(y, seg) = AtThread(x, seg) + Carried(w, seg)
                  /\ Carried(w, seg) \in Nat
  <2> HIDE DEF q
  <2>1. QED
    BY <1>1, <1>2, AppendedGood
<1>4. HostGood(h, a, y, to)
  BY <1>1, <1>3 DEF HostGood
<1>5. ASSUME NEW seg
      PROVE  AtBoth(a, y, seg) = AtBoth(a, x, seg) + Carried(w, seg)
  <2>1. /\ AtInterface(a.interface, seg) \in Nat /\ AtThread(x, seg) \in Nat
        /\ AtThread(y, seg) \in Nat
    BY <1>4, BothType
  <2>2. QED
    BY <1>3, <2>1 DEF AtBoth
<1>6. QED
  BY <1>4, <1>5 DEF y, Filled

LEMMA LoseStep ==
  ASSUME NEW h \in Host, NEW a, NEW x, NEW to, HostGood(h, a, x, to), x.from_internet # << >>
  PROVE  LET y == Lost(x)
         IN  /\ HostGood(h, a, y, to)
             /\ \A seg : AtBoth(a, y, seg) <= AtBoth(a, x, seg)
<1> DEFINE q == "from_internet"
           y == [x EXCEPT ![q] = Tail(x[q])]
<1>1. /\ GoodThread(x, h, to) /\ q \in ThreadQueues /\ "to_internet" \in ThreadQueues \ {q}
      /\ x[q] # << >>
  BY DEF HostGood, ThreadQueues
<1>2. Changed(x, y, q, Tail(x[q]))
  BY <1>1 DEF Changed, GoodThread, HasFields, ThreadQueues
<1> HIDE DEF y
<1>3. /\ GoodThread(y, h, to)
      /\ \A p \in ThreadQueues \ {q} : y[p] = x[p]
      /\ y.router = x.router
      /\ \A seg : /\ AtThread(y, seg) + Weight(Head(x[q]), seg) = AtThread(x, seg)
                  /\ Weight(Head(x[q]), seg) \in Nat /\ AtThread(y, seg) \in Nat
  <2>1. GoodThread(x, h, to) /\ q \in ThreadQueues /\ x[q] # << >>
    BY <1>1
  <2> HIDE DEF q
  <2>2. Head(x[q]) \in Frame(to) /\ GoodThread(y, h, to)
    BY <1>2, <2>1, TailGood
  <2>3. \A p \in ThreadQueues \ {q} : y[p] = x[p]
    BY <1>2, <2>1, TailGood
  <2>4. y.router = x.router
    BY <1>2, <2>1, TailGood
  <2>5. ASSUME NEW seg
        PROVE  /\ AtThread(y, seg) + Weight(Head(x[q]), seg) = AtThread(x, seg)
               /\ Weight(Head(x[q]), seg) \in Nat /\ AtThread(y, seg) \in Nat
    BY <1>2, <2>1, TailGood
  <2>6. QED
    BY <2>2, <2>3, <2>4, <2>5
<1>4. HostGood(h, a, y, to)
  BY <1>1, <1>3 DEF HostGood
<1>5. ASSUME NEW seg
      PROVE  AtBoth(a, y, seg) <= AtBoth(a, x, seg)
  <2>1. AtInterface(a.interface, seg) \in Nat /\ AtThread(x, seg) \in Nat
    BY BothType
  <2> HIDE DEF q
  <2>2. QED
    BY <1>3, <2>1 DEF AtBoth
<1>6. QED
  BY <1>4, <1>5 DEF y, Lost

-----------------------------------------------------------------------------
(* The invariant. *)
LEMMA HostWider ==
  ASSUME NEW to, NEW more, Wider(to, more), NEW h, NEW a, NEW x, HostGood(h, a, x, to)
  PROVE  HostGood(h, a, x, more)
BY WiderAdapter, WiderThread DEF HostGood

Total(A, X, Q, seg) ==
  AtHost(A[Client], X[Client], Q[Client], seg)
  + AtHost(A[Other(Client)], X[Other(Client)], Q[Other(Client)], seg)

LEMMA AtHostType ==
  ASSUME NEW h, NEW a, NEW x, NEW to, HostGood(h, a, x, to), NEW U, NEW q \in Seq(U), NEW seg
  PROVE  /\ AtHost(a, x, q, seg) = AtBoth(a, x, seg) + Returned(q, seg)
         /\ AtBoth(a, x, seg) \in Nat /\ Returned(q, seg) \in Nat
         /\ AtHost(a, x, q, seg) \in Nat
<1>1. AtHost(a, x, q, seg) = AtBoth(a, x, seg) + Returned(q, seg)
  BY DEF AtHost, AtBoth
<1>2. AtBoth(a, x, seg) \in Nat /\ Returned(q, seg) \in Nat
  BY BothType, ReturnedType
<1>3. QED
  BY <1>1, <1>2

AllGood(A, X, to) == \A g \in Host : HostGood(g, A[g], X[g], to)

LEMMA TotalOf ==
  ASSUME NEW A, NEW X, NEW Q \in [Host -> Seq(Segment)], NEW to,
         AllGood(A, X, to), NEW h \in Host, NEW seg
  PROVE  /\ Total(A, X, Q, seg) = AtHost(A[h], X[h], Q[h], seg)
                                  + AtHost(A[Other(h)], X[Other(h)], Q[Other(h)], seg)
         /\ Total(A, X, Q, seg) \in Nat
         /\ AtHost(A[h], X[h], Q[h], seg) \in Nat
         /\ AtHost(A[Other(h)], X[Other(h)], Q[Other(h)], seg) \in Nat
<1>1. \A g \in Host : AtHost(A[g], X[g], Q[g], seg) \in Nat
  <2>1. ASSUME NEW g \in Host
        PROVE  AtHost(A[g], X[g], Q[g], seg) \in Nat
    <3>1. HostGood(g, A[g], X[g], to) /\ Q[g] \in Seq(Segment)
      BY DEF AllGood
    <3>2. QED
      BY <3>1, AtHostType
  <2>2. QED
    BY <2>1
<1>2. Client \in Host /\ Other(h) \in Host /\ Other(Client) \in Host
  BY HostAssumption, Hosts
<1>3. h = Client \/ (h = Other(Client) /\ Other(h) = Client)
  BY <1>2, Hosts
<1> DEFINE n(g) == AtHost(A[g], X[g], Q[g], seg)
<1>4. Total(A, X, Q, seg) = n(Client) + n(Other(Client))
  BY DEF Total
<1>5. n(h) \in Nat /\ n(Other(h)) \in Nat /\ n(Client) \in Nat /\ n(Other(Client)) \in Nat
  BY <1>1, <1>2
<1> HIDE DEF n
<1>6. Total(A, X, Q, seg) = n(h) + n(Other(h)) /\ Total(A, X, Q, seg) \in Nat
  BY <1>3, <1>4, <1>5
<1>7. QED
  BY <1>5, <1>6 DEF n

LEMMA InvHosts ==
  ASSUME Inv
  PROVE  /\ AllGood(adapter, thread, Targets)
         /\ Sane(Targets)
         /\ received \in [Host -> Seq(Segment)]
         /\ DOMAIN adapter = Host /\ DOMAIN thread = Host
<1>1. \A h \in Host : HostGood(h, adapter[h], thread[h], Targets)
  BY DEF Inv, HostGood
<1>2. ASSUME NEW h \in Host
      PROVE  HostIp[h] \notin Targets[h]
  <2>1. adapter[h].tcp \in Tcp(h)
    BY <1>1 DEF HostGood, GoodAdapter
  <2>2. ~adapter[h].tcp.listening => adapter[h].tcp.destination # HostIp[h]
    BY <2>1, TcpParts
  <2>3. QED
    BY <2>2 DEF Targets
<1>3. QED
  BY <1>1, <1>2 DEF Inv, Sane, AllGood

LEMMA TargetsWider ==
  ASSUME \A g \in Host : ~adapter[g].tcp.listening => adapter'[g].tcp = adapter[g].tcp
  PROVE  Wider(Targets, Targets')
BY DEF Wider, Targets

LEMMA SameTargets ==
  ASSUME \A g \in Host : adapter'[g].tcp = adapter[g].tcp
  PROVE  Targets' = Targets
BY DEF Targets

LEMMA InvKept ==
  ASSUME Inv, sent' = sent, received' \in [Host -> Seq(Segment)],
         DOMAIN adapter' = Host, DOMAIN thread' = Host,
         AllGood(adapter', thread', Targets'),
         \A g \in Host : received'[g] # << >> => HostIp[g] \in Targets'[Other(g)],
         \A seg : Total(adapter', thread', received', seg) <= Total(adapter, thread, received, seg)
  PROVE  Inv'
<1>1. \A g \in Host : \A i \in DOMAIN Outgoing[g] :
        Everywhere(Outgoing[g][i])' <= IF i <= sent'[g] THEN 1 ELSE 0
  <2>1. ASSUME NEW g \in Host, NEW i \in DOMAIN Outgoing[g]
        PROVE  Everywhere(Outgoing[g][i])' <= IF i <= sent'[g] THEN 1 ELSE 0
    <3> DEFINE seg == Outgoing[g][i]
               n   == Total(adapter, thread, received, seg)
               m   == Total(adapter', thread', received', seg)
    <3>1. Everywhere(seg) = n /\ Everywhere(seg)' = m
      BY DEF Everywhere, Total
    <3>2. m <= n
      OBVIOUS
    <3>3. n <= IF i <= sent'[g] THEN 1 ELSE 0
      BY <3>1 DEF Inv
    <3>4. n \in Nat /\ m \in Nat
      <4>1. /\ AllGood(adapter, thread, Targets)
            /\ received \in [Host -> Seq(Segment)]
        BY InvHosts
      <4>2. n \in Nat
        BY <4>1, TotalOf
      <4>3. m \in Nat
        BY TotalOf
      <4>4. QED
        BY <4>2, <4>3
    <3> HIDE DEF n, m
    <3>5. QED
      BY <3>1, <3>2, <3>3, <3>4
  <2>2. QED
    BY <2>1
<1>2. \A g \in Host :
        /\ GoodAdapter(adapter'[g], g, Targets')
        /\ adapter'[g].written = << >> /\ adapter'[g].interface.maybe_send_queue = << >>
        /\ GoodThread(thread'[g], g, Targets') /\ thread'[g].to_internet = << >>
        /\ \A s \in Sides : thread'[g].router.interfaces_[s].maybe_send_queue = << >>
  BY DEF HostGood, AllGood
<1>3. /\ sent' \in [Host -> Nat] /\ \A g \in Host : sent'[g] <= Len(Outgoing[g])
  BY DEF Inv
<1>4. QED
  BY <1>1, <1>2, <1>3 DEF Inv

(* The sum over both hosts changes by what it changes at the one that acts. *)
LEMMA OneHost ==
  ASSUME NEW A, NEW X, NEW Q \in [Host -> Seq(Segment)], NEW to,
         AllGood(A, X, to),
         NEW B, NEW Y, NEW R \in [Host -> Seq(Segment)], NEW more,
         AllGood(B, Y, more), NEW h \in Host, NEW seg, NEW w \in Nat,
         B[Other(h)] = A[Other(h)], Y[Other(h)] = X[Other(h)], R[Other(h)] = Q[Other(h)],
         AtBoth(B[h], Y[h], seg) + Returned(R[h], seg)
           <= AtBoth(A[h], X[h], seg) + Returned(Q[h], seg) + w
  PROVE  Total(B, Y, R, seg) <= Total(A, X, Q, seg) + w
<1> DEFINE a == AtHost(A[h], X[h], Q[h], seg)
           b == AtHost(B[h], Y[h], R[h], seg)
           c == AtHost(A[Other(h)], X[Other(h)], Q[Other(h)], seg)
           d == AtHost(B[Other(h)], Y[Other(h)], R[Other(h)], seg)
<1>1. Total(A, X, Q, seg) = a + c /\ a \in Nat /\ c \in Nat
  BY TotalOf
<1>2. Total(B, Y, R, seg) = b + d /\ b \in Nat
  BY TotalOf
<1>3. d = c
  OBVIOUS
<1>4. b <= a + w
  BY DEF AtHost, AtBoth
<1> HIDE DEF a, b, c, d
<1>5. QED
  BY <1>1, <1>2, <1>3, <1>4

LEMMA HandedKeeps ==
  ASSUME Inv, NEW h \in Host, NEW a, Handed(h, a), UNCHANGED received,
         LET b == Unwritten(a)
             y == Handing(thread[h], a)
         IN  HostGood(h, b, y, Targets) /\ b.tcp = adapter[h].tcp
  PROVE  /\ Targets' = Targets
         /\ AllGood(adapter', thread', Targets')
         /\ DOMAIN adapter' = Host /\ DOMAIN thread' = Host
         /\ received' \in [Host -> Seq(Segment)]
         /\ adapter'[h] = Unwritten(a)
         /\ thread'[h] = Handing(thread[h], a)
         /\ adapter'[Other(h)] = adapter[Other(h)] /\ thread'[Other(h)] = thread[Other(h)]
         /\ \A g \in Host : received'[g] # << >> => HostIp[g] \in Targets'[Other(g)]
<1> DEFINE b == Unwritten(a)
           y == Handing(thread[h], a)
<1>1. /\ AllGood(adapter, thread, Targets)
      /\ received \in [Host -> Seq(Segment)]
      /\ DOMAIN adapter = Host /\ DOMAIN thread = Host
  BY InvHosts
<1>2. /\ HostGood(h, b, y, Targets) /\ b.tcp = adapter[h].tcp
  OBVIOUS
<1>3. adapter' = [adapter EXCEPT ![h] = b] /\ thread' = [thread EXCEPT ![h] = y]
  BY DEF Handed, Unwritten, Handing
<1> HIDE DEF b, y
<1>4. /\ DOMAIN adapter' = Host /\ DOMAIN thread' = Host
      /\ adapter'[h] = b /\ thread'[h] = y
      /\ \A g \in Host \ {h} : adapter'[g] = adapter[g] /\ thread'[g] = thread[g]
  BY <1>1, <1>3
<1>5. Targets' = Targets
  <2>1. \A g \in Host : adapter'[g].tcp = adapter[g].tcp
    BY <1>2, <1>4
  <2>2. QED
    BY <2>1, SameTargets
<1>6. AllGood(adapter', thread', Targets')
  BY <1>1, <1>2, <1>4, <1>5 DEF AllGood
<1>7. Other(h) \in Host \ {h}
  BY Hosts
<1>8. \A g \in Host : received'[g] # << >> => HostIp[g] \in Targets'[Other(g)]
  BY <1>5 DEF Inv
<1>9. QED
  BY <1>1, <1>4, <1>5, <1>6, <1>7, <1>8 DEF b, y

LEMMA TicksKeeps ==
  ASSUME Inv, NEW h \in Host, HostTicks(h)
  PROVE  Inv'
<1>0. PICK ms \in Nat : ms = 1
  OBVIOUS
<1> DEFINE new == AdapterTick(adapter[h], ms)
           b   == Unwritten(new)
           y   == Handing(thread[h], new)
<1>1. /\ AllGood(adapter, thread, Targets)
      /\ received \in [Host -> Seq(Segment)]
  BY InvHosts
<1>2. /\ HostGood(h, b, y, Targets) /\ b.tcp = adapter[h].tcp
      /\ \A seg : AtBoth(b, y, seg) = AtBoth(adapter[h], thread[h], seg)
  <2>1. HostGood(h, adapter[h], thread[h], Targets)
    BY <1>1 DEF AllGood
  <2>2. QED
    BY <2>1, TickStep
<1>3. Handed(h, new) /\ UNCHANGED received /\ UNCHANGED sent
  BY <1>0 DEF HostTicks
<1> HIDE DEF new
<1>4. /\ Targets' = Targets
      /\ AllGood(adapter', thread', Targets')
      /\ DOMAIN adapter' = Host /\ DOMAIN thread' = Host
      /\ received' \in [Host -> Seq(Segment)]
      /\ adapter'[h] = b /\ thread'[h] = y
      /\ adapter'[Other(h)] = adapter[Other(h)] /\ thread'[Other(h)] = thread[Other(h)]
      /\ \A g \in Host : received'[g] # << >> => HostIp[g] \in Targets'[Other(g)]
  BY <1>2, <1>3, HandedKeeps
<1> HIDE DEF b, y
<1>5. ASSUME NEW seg
      PROVE  Total(adapter', thread', received', seg) <= Total(adapter, thread, received, seg)
  <2> DEFINE n == Total(adapter, thread, received, seg)
             m == Total(adapter', thread', received', seg)
  <2>1. /\ AtBoth(b, y, seg) \in Nat /\ AtBoth(adapter[h], thread[h], seg) \in Nat
        /\ Returned(received[h], seg) \in Nat
    BY <1>1, <1>2, BothType, ReturnedType DEF AllGood
  <2>2. AtBoth(adapter'[h], thread'[h], seg) + Returned(received'[h], seg)
           <= AtBoth(adapter[h], thread[h], seg) + Returned(received[h], seg) + 0
    BY <1>2, <1>3, <1>4, <2>1
  <2>3. m <= n + 0
    <3>1. received'[Other(h)] = received[Other(h)] /\ 0 \in Nat
      BY <1>3
    <3>2. QED
      BY <1>1, <1>4, <2>2, <3>1, OneHost
  <2>4. n \in Nat /\ m \in Nat
    BY <1>1, <1>4, TotalOf
  <2> HIDE DEF n, m
  <2>5. m <= n
    BY <2>3, <2>4
  <2>6. QED
    BY <2>5 DEF n, m
<1>6. QED
  BY <1>3, <1>4, <1>5, InvKept

LEMMA WritesKeeps ==
  ASSUME Inv, NEW h \in Host, HostWrites(h)
  PROVE  Inv'
<1> DEFINE k   == sent[h] + 1
           one == Outgoing[h][k]
           new == AdapterWrite(adapter[h], one)
           b   == Unwritten(new)
           y   == Handing(thread[h], new)
<1>1. /\ AllGood(adapter, thread, Targets)
      /\ received \in [Host -> Seq(Segment)]
  BY InvHosts
<1>2. /\ sent[h] \in Nat /\ sent[h] < Len(Outgoing[h]) /\ ~adapter[h].tcp.listening
      /\ Handed(h, new) /\ UNCHANGED received /\ sent' = [sent EXCEPT ![h] = k]
  BY DEF HostWrites, Inv
<1>3. /\ k \in DOMAIN Outgoing[h] /\ one \in Segment
  BY <1>2, OutgoingType
<1>4. /\ HostGood(h, b, y, Targets) /\ b.tcp = adapter[h].tcp
      /\ \A seg : AtBoth(b, y, seg) <= AtBoth(adapter[h], thread[h], seg)
                                        + IF seg = one THEN 1 ELSE 0
  <2>1. HostGood(h, adapter[h], thread[h], Targets)
    BY <1>1 DEF AllGood
  <2>2. adapter[h].tcp.destination \in Targets[h]
    BY <1>2 DEF Targets
  <2> HIDE DEF one
  <2>3. QED
    BY <1>2, <1>3, <2>1, <2>2, WriteStep
<1> HIDE DEF new
<1>5. /\ Targets' = Targets
      /\ AllGood(adapter', thread', Targets')
      /\ DOMAIN adapter' = Host /\ DOMAIN thread' = Host
      /\ received' \in [Host -> Seq(Segment)]
      /\ adapter'[h] = b /\ thread'[h] = y
      /\ adapter'[Other(h)] = adapter[Other(h)] /\ thread'[Other(h)] = thread[Other(h)]
      /\ \A g \in Host : received'[g] # << >> => HostIp[g] \in Targets'[Other(g)]
  BY <1>2, <1>4, HandedKeeps
<1> HIDE DEF b, y
<1>6. ASSUME NEW g \in Host, NEW i \in DOMAIN Outgoing[g]
      PROVE  Everywhere(Outgoing[g][i])' <= IF i <= sent'[g] THEN 1 ELSE 0
  <2> DEFINE seg == Outgoing[g][i]
             w == IF seg = one THEN 1 ELSE 0
             n == Total(adapter, thread, received, seg)
             m == Total(adapter', thread', received', seg)
  <2>1. Everywhere(seg) = n /\ Everywhere(seg)' = m
    BY DEF Everywhere, Total
  <2>2. n <= IF i <= sent[g] THEN 1 ELSE 0
    BY <2>1 DEF Inv
  <2>3. n \in Nat /\ m \in Nat /\ w \in Nat
    BY <1>1, <1>5, TotalOf
  <2>4. /\ AtBoth(b, y, seg) \in Nat /\ AtBoth(adapter[h], thread[h], seg) \in Nat
        /\ Returned(received[h], seg) \in Nat
    BY <1>1, <1>4, BothType, ReturnedType DEF AllGood
  <2>5. AtBoth(adapter'[h], thread'[h], seg) + Returned(received'[h], seg)
          <= AtBoth(adapter[h], thread[h], seg) + Returned(received[h], seg) + w
    <3> DEFINE p == AtBoth(b, y, seg)
               q == AtBoth(adapter[h], thread[h], seg)
               r == Returned(received[h], seg)
    <3>1. p <= q + w
      BY <1>4
    <3>2. AtBoth(adapter'[h], thread'[h], seg) = p /\ Returned(received'[h], seg) = r
      BY <1>2, <1>5
    <3>3. p \in Nat /\ q \in Nat /\ r \in Nat
      BY <2>4
    <3> HIDE DEF p, q, r, w
    <3>4. p + r <= q + r + w
      BY <2>3, <3>1, <3>3
    <3>5. QED
      BY <3>2, <3>4 DEF q, r
  <2>6. m <= n + w
    <3>1. received'[Other(h)] = received[Other(h)]
      BY <1>2
    <3> HIDE DEF w
    <3>2. QED
      BY <1>1, <1>5, <2>3, <2>5, <3>1, OneHost
  <2>7. /\ sent[g] \in Nat /\ sent'[g] = IF g = h THEN sent[h] + 1 ELSE sent[g]
        /\ i \in Nat
    BY <1>2, OutgoingType DEF Inv
  <2>8. seg = one => g = h /\ i = k
    BY <1>3, TrafficAssumption
  <2> HIDE DEF n, m, w
  <2>9. m <= IF i <= sent'[g] THEN 1 ELSE 0
    <3>1. CASE seg = one
      <4>1. g = h /\ i = sent[h] + 1 /\ w = 1
        BY <2>8, <3>1 DEF w
      <4>2. ~(i <= sent[g]) /\ i <= sent'[g]
        BY <2>7, <4>1
      <4>3. QED
        BY <2>2, <2>3, <2>6, <4>1, <4>2
    <3>2. CASE seg # one
      <4>1. w = 0
        BY <3>2 DEF w
      <4>2. i <= sent[g] => i <= sent'[g]
        BY <2>7
      <4>3. QED
        BY <2>2, <2>3, <2>6, <4>1, <4>2
    <3>3. QED
      BY <3>1, <3>2
  <2>10. QED
    BY <2>1, <2>9
<1>7. \A g \in Host :
        /\ GoodAdapter(adapter'[g], g, Targets')
        /\ adapter'[g].written = << >> /\ adapter'[g].interface.maybe_send_queue = << >>
        /\ GoodThread(thread'[g], g, Targets') /\ thread'[g].to_internet = << >>
        /\ \A s \in Sides : thread'[g].router.interfaces_[s].maybe_send_queue = << >>
  BY <1>5 DEF HostGood, AllGood
<1>8. /\ sent' \in [Host -> Nat] /\ \A g \in Host : sent'[g] <= Len(Outgoing[g])
  <2>1. sent \in [Host -> Nat] /\ \A g \in Host : sent[g] <= Len(Outgoing[g])
    BY DEF Inv
  <2>2. Len(Outgoing[h]) \in Nat
    BY OutgoingType
  <2>3. QED
    BY <1>2, <2>1, <2>2
<1>9. QED
  BY <1>5, <1>6, <1>7, <1>8 DEF Inv

LEMMA ReadsKeeps ==
  ASSUME Inv, NEW h \in Host, HostReads(h)
  PROVE  Inv'
<1> DEFINE f    == Head(thread[h].to_host)
           read == AdapterRead(adapter[h], f)
           b    == Unwritten(read.adapter)
           y    == HandingRead(thread[h], read.adapter)
           some == read.segment # NoSegment
<1>1. /\ AllGood(adapter, thread, Targets) /\ Sane(Targets)
      /\ received \in [Host -> Seq(Segment)]
      /\ DOMAIN adapter = Host /\ DOMAIN thread = Host
  BY InvHosts
<1>2. /\ thread[h].to_host # << >> /\ UNCHANGED sent
      /\ adapter' = [adapter EXCEPT ![h] = b]
      /\ thread' = [thread EXCEPT ![h] = y]
      /\ received' = IF ~some THEN received
                     ELSE [received EXCEPT ![h] = Append(received[h], read.segment)]
  BY <1>1 DEF HostReads, Unwritten, HandingRead
<1>3. /\ HostGood(h, b, y, Targets)
      /\ ~adapter[h].tcp.listening => b.tcp = adapter[h].tcp
      /\ some => read.segment \in Segment /\ HostIp[h] \in Targets[Other(h)]
      /\ \A seg : AtBoth(b, y, seg) + (IF some /\ read.segment = seg THEN 1 ELSE 0)
                    <= AtBoth(adapter[h], thread[h], seg)
  <2>1. HostGood(h, adapter[h], thread[h], Targets)
    BY <1>1 DEF AllGood
  <2>2. QED
    BY <1>1, <1>2, <2>1, ReadStep
<1> HIDE DEF f, read, b, y, some
<1>4. /\ DOMAIN adapter' = Host /\ DOMAIN thread' = Host
      /\ adapter'[h] = b /\ thread'[h] = y
      /\ \A g \in Host \ {h} : adapter'[g] = adapter[g] /\ thread'[g] = thread[g]
  BY <1>1, <1>2
<1>5. Wider(Targets, Targets')
  <2>1. \A g \in Host : ~adapter[g].tcp.listening => adapter'[g].tcp = adapter[g].tcp
    BY <1>3, <1>4
  <2>2. QED
    BY <2>1, TargetsWider
<1>6. AllGood(adapter', thread', Targets')
  <2>1. ASSUME NEW g \in Host
        PROVE  HostGood(g, adapter'[g], thread'[g], Targets')
    <3>1. HostGood(g, adapter'[g], thread'[g], Targets)
      BY <1>1, <1>3, <1>4 DEF AllGood
    <3>2. QED
      BY <1>5, <3>1, HostWider
  <2>2. QED
    BY <2>1 DEF AllGood
<1>7. /\ received' \in [Host -> Seq(Segment)]
      /\ \A g \in Host \ {h} : received'[g] = received[g]
      /\ received'[h] = IF ~some THEN received[h] ELSE Append(received[h], read.segment)
  <2>1. some => Append(received[h], read.segment) \in Seq(Segment)
    BY <1>1, <1>3
  <2>2. QED
    BY <1>1, <1>2, <2>1
<1>8. Other(h) \in Host \ {h}
  BY Hosts
<1>9. ASSUME NEW g \in Host, received'[g] # << >>
      PROVE  HostIp[g] \in Targets'[Other(g)]
  <2>1. HostIp[g] \in Targets[Other(g)]
    <3>1. CASE received'[g] = received[g]
      BY <1>9, <3>1 DEF Inv
    <3>2. CASE received'[g] # received[g]
      BY <1>3, <1>7, <3>2
    <3>3. QED
      BY <3>1, <3>2
  <2>2. Other(g) \in Host
    BY Hosts
  <2>3. QED
    BY <1>5, <2>1, <2>2 DEF Wider
<1>10. ASSUME NEW seg
       PROVE  Total(adapter', thread', received', seg) <= Total(adapter, thread, received, seg)
  <2> DEFINE n == Total(adapter, thread, received, seg)
             m == Total(adapter', thread', received', seg)
             p == AtBoth(b, y, seg)
             q == AtBoth(adapter[h], thread[h], seg)
             r == Returned(received[h], seg)
             w == IF some /\ read.segment = seg THEN 1 ELSE 0
  <2>1. p \in Nat /\ q \in Nat /\ r \in Nat /\ w \in Nat
    BY <1>1, <1>3, BothType, ReturnedType DEF AllGood
  <2>2. p + w <= q
    BY <1>3
  <2>3. AtBoth(adapter'[h], thread'[h], seg) = p
    BY <1>4
  <2>4. Returned(received'[h], seg) = r + w
    <3>1. CASE some
      <4>1. Returned(Append(received[h], read.segment), seg)
              = r + IF read.segment = seg THEN 1 ELSE 0
        BY <1>1, <1>3, <3>1, ReturnedAppend
      <4>2. QED
        BY <1>7, <3>1, <4>1
    <3>2. CASE ~some
      BY <1>7, <2>1, <3>2
    <3>3. QED
      BY <3>1, <3>2
  <2>5. AtBoth(adapter'[h], thread'[h], seg) + Returned(received'[h], seg) <= q + r + 0
    <3> HIDE DEF p, q, r, w
    <3>1. QED
      BY <2>1, <2>2, <2>3, <2>4
  <2>6. m <= n + 0
    <3>1. /\ received'[Other(h)] = received[Other(h)] /\ 0 \in Nat
          /\ adapter'[Other(h)] = adapter[Other(h)] /\ thread'[Other(h)] = thread[Other(h)]
      BY <1>4, <1>7, <1>8
    <3>2. QED
      BY <1>1, <1>6, <1>7, <2>5, <3>1, OneHost
  <2>7. n \in Nat /\ m \in Nat
    BY <1>1, <1>6, <1>7, TotalOf
  <2> HIDE DEF n, m
  <2>8. m <= n
    BY <2>6, <2>7
  <2>9. QED
    BY <2>8 DEF n, m
<1>11. QED
  BY <1>2, <1>4, <1>6, <1>7, <1>9, <1>10, InvKept

LEMMA RoundsKeeps ==
  ASSUME Inv, NEW h \in Host, Rounds(h)
  PROVE  Inv'
<1> DEFINE o == Other(h)
<1>1. /\ AllGood(adapter, thread, Targets)
      /\ received \in [Host -> Seq(Segment)]
      /\ DOMAIN adapter = Host /\ DOMAIN thread = Host
  BY InvHosts
<1>2. PICK ms \in 0..1 :
        /\ \E z \in {ThreadRound(thread[h], ms)} :
             thread' = [thread EXCEPT ![h] = Outgone(z),
                                      ![o] = Filled(thread[o], z.to_internet)]
        /\ UNCHANGED <<adapter, sent, received>>
  <2>1. PICK ms \in 0..1 :
          /\ \E z \in {ThreadRound(thread[h], ms)} :
               thread' = [thread EXCEPT ![h] = [z EXCEPT !.to_internet = << >>],
                                        ![Other(h)].from_internet = @ \o z.to_internet]
          /\ UNCHANGED <<adapter, sent, received, faults>>
    BY DEF Rounds
  <2>2. PICK z \in {ThreadRound(thread[h], ms)} :
          thread' = [thread EXCEPT ![h] = [z EXCEPT !.to_internet = << >>],
                                   ![Other(h)].from_internet = @ \o z.to_internet]
    BY <2>1
  <2>3. Other(h) # h
    BY Hosts
  <2>4. thread' = [thread EXCEPT ![h] = Outgone(z),
                                 ![o] = Filled(thread[o], z.to_internet)]
    BY <2>2, <2>3 DEF Outgone, Filled
  <2>5. QED
    BY <2>1, <2>4
<1>3. PICK z :
        /\ z = ThreadRound(thread[h], ms)
        /\ thread' = [thread EXCEPT ![h] = Outgone(z),
                                    ![o] = Filled(thread[o], z.to_internet)]
  BY <1>2
<1>4. o \in Host /\ o # h /\ \A g \in Host : g = h \/ g = o
  BY Hosts
<1> HIDE DEF o
<1> DEFINE y == Outgone(z)
           v == z.to_internet
           x == Filled(thread[o], v)
<1>5. DOMAIN thread' = Host /\ thread'[h] = y /\ thread'[o] = x
  BY <1>1, <1>3, <1>4
<1>6. HostGood(h, adapter[h], thread[h], Targets) /\ HostGood(o, adapter[o], thread[o], Targets)
  BY <1>1, <1>4 DEF AllGood
<1>7. /\ HostGood(h, adapter[h], y, Targets)
      /\ v \in Seq(Frame(Targets))
      /\ \A seg : /\ Carried(v, seg) \in Nat
                  /\ AtBoth(adapter[h], y, seg) + Carried(v, seg)
                       <= AtBoth(adapter[h], thread[h], seg)
  <2>1. ms \in Nat /\ z = ThreadRound(thread[h], ms)
    BY <1>3
  <2>2. QED
    BY <1>6, <2>1, RoundStep
<1> HIDE DEF v
<1>8. /\ HostGood(o, adapter[o], x, Targets)
      /\ \A seg : AtBoth(adapter[o], x, seg) = AtBoth(adapter[o], thread[o], seg) + Carried(v, seg)
  BY <1>4, <1>6, <1>7, ArriveStep
<1> HIDE DEF x, y
<1>9. Targets' = Targets
  BY <1>2, SameTargets
<1>10. AllGood(adapter', thread', Targets')
  BY <1>2, <1>4, <1>5, <1>7, <1>8, <1>9 DEF AllGood
<1>11. ASSUME NEW seg
       PROVE  Total(adapter', thread', received', seg) <= Total(adapter, thread, received, seg)
  <2> DEFINE n == Total(adapter, thread, received, seg)
             m == Total(adapter', thread', received', seg)
             a == AtBoth(adapter[h], thread[h], seg)
             b == AtBoth(adapter[o], thread[o], seg)
             c == AtBoth(adapter[h], y, seg)
             d == AtBoth(adapter[o], x, seg)
             q == Returned(received[h], seg)
             r == Returned(received[o], seg)
             w == Carried(v, seg)
  <2>1. /\ a \in Nat /\ b \in Nat /\ c \in Nat /\ d \in Nat /\ q \in Nat /\ r \in Nat /\ w \in Nat
    BY <1>1, <1>4, <1>6, <1>7, <1>8, BothType, ReturnedType
  <2>2. c + w <= a /\ d = b + w
    BY <1>7, <1>8
  <2>3. n = (a + q) + (b + r)
    <3>1. n = AtHost(adapter[h], thread[h], received[h], seg)
              + AtHost(adapter[o], thread[o], received[o], seg)
      BY <1>1, TotalOf DEF o
    <3>2. QED
      BY <3>1 DEF AtHost, AtBoth
  <2>4. m = (c + q) + (d + r)
    <3>1. received' \in [Host -> Seq(Segment)]
      BY <1>1, <1>2
    <3>2. m = AtHost(adapter'[h], thread'[h], received'[h], seg)
              + AtHost(adapter'[o], thread'[o], received'[o], seg)
      BY <1>10, <3>1, TotalOf DEF o
    <3>3. m = AtHost(adapter[h], y, received[h], seg) + AtHost(adapter[o], x, received[o], seg)
      BY <1>2, <1>5, <3>2
    <3>4. QED
      BY <3>3 DEF AtHost, AtBoth
  <2> HIDE DEF n, m, a, b, c, d, q, r, w
  <2>5. m <= n
    BY <2>1, <2>2, <2>3, <2>4
  <2>6. QED
    BY <2>5 DEF n, m
<1>12. \A g \in Host : received'[g] # << >> => HostIp[g] \in Targets'[Other(g)]
  BY <1>2, <1>9 DEF Inv
<1>13. QED
  BY <1>1, <1>2, <1>5, <1>10, <1>11, <1>12, InvKept

LEMMA LosesKeeps ==
  ASSUME Inv, NEW h \in Host, Loses(h)
  PROVE  Inv'
<1> DEFINE y == Lost(thread[h])
<1>1. /\ AllGood(adapter, thread, Targets)
      /\ received \in [Host -> Seq(Segment)]
      /\ DOMAIN adapter = Host /\ DOMAIN thread = Host
  BY InvHosts
<1>2. /\ thread[h].from_internet # << >>
      /\ thread' = [thread EXCEPT ![h] = y]
      /\ UNCHANGED <<adapter, sent, received>>
  BY DEF Loses, Lost
<1>3. /\ HostGood(h, adapter[h], y, Targets)
      /\ \A seg : AtBoth(adapter[h], y, seg) <= AtBoth(adapter[h], thread[h], seg)
  <2>1. HostGood(h, adapter[h], thread[h], Targets)
    BY <1>1 DEF AllGood
  <2>2. QED
    BY <1>2, <2>1, LoseStep
<1> HIDE DEF y
<1>4. /\ DOMAIN thread' = Host /\ thread'[h] = y
      /\ \A g \in Host \ {h} : thread'[g] = thread[g]
  BY <1>1, <1>2
<1>5. Targets' = Targets
  BY <1>2, SameTargets
<1>6. AllGood(adapter', thread', Targets')
  BY <1>1, <1>2, <1>3, <1>4, <1>5 DEF AllGood
<1>7. Other(h) \in Host \ {h}
  BY Hosts
<1>8. ASSUME NEW seg
      PROVE  Total(adapter', thread', received', seg) <= Total(adapter, thread, received, seg)
  <2> DEFINE n == Total(adapter, thread, received, seg)
             m == Total(adapter', thread', received', seg)
             a == AtBoth(adapter[h], thread[h], seg)
             b == AtBoth(adapter[h], y, seg)
             r == Returned(received[h], seg)
  <2>1. a \in Nat /\ b \in Nat /\ r \in Nat
    BY <1>1, <1>3, BothType, ReturnedType DEF AllGood
  <2>2. b <= a
    BY <1>3
  <2>3. AtBoth(adapter'[h], thread'[h], seg) + Returned(received'[h], seg) <= a + r + 0
    <3>1. AtBoth(adapter'[h], thread'[h], seg) = b /\ Returned(received'[h], seg) = r
      BY <1>2, <1>4
    <3> HIDE DEF a, b, r
    <3>2. QED
      BY <2>1, <2>2, <3>1
  <2>4. m <= n + 0
    <3>1. /\ received'[Other(h)] = received[Other(h)] /\ 0 \in Nat
          /\ adapter'[Other(h)] = adapter[Other(h)] /\ thread'[Other(h)] = thread[Other(h)]
          /\ received' \in [Host -> Seq(Segment)]
      BY <1>1, <1>2, <1>4, <1>7
    <3>2. QED
      BY <1>1, <1>6, <2>3, <3>1, OneHost
  <2>5. n \in Nat /\ m \in Nat
    BY <1>1, <1>2, <1>6, TotalOf
  <2> HIDE DEF n, m
  <2>6. m <= n
    BY <2>4, <2>5
  <2>7. QED
    BY <2>6 DEF n, m
<1>9. \A g \in Host : received'[g] # << >> => HostIp[g] \in Targets'[Other(g)]
  BY <1>2, <1>5 DEF Inv
<1>10. QED
  BY <1>1, <1>2, <1>4, <1>6, <1>8, <1>9, InvKept

LEMMA StepKeeps ==
  ASSUME Inv, [Next]_vars
  PROVE  Inv'
<1>1. CASE UNCHANGED vars
  BY <1>1 DEF Inv, vars, Targets, Everywhere
<1>2. ASSUME NEW h \in Host, HostWrites(h)
      PROVE  Inv'
  BY <1>2, WritesKeeps
<1>3. ASSUME NEW h \in Host, HostReads(h)
      PROVE  Inv'
  BY <1>3, ReadsKeeps
<1>4. ASSUME NEW h \in Host, HostTicks(h)
      PROVE  Inv'
  BY <1>4, TicksKeeps
<1>5. ASSUME NEW h \in Host, Rounds(h)
      PROVE  Inv'
  BY <1>5, RoundsKeeps
<1>6. ASSUME NEW h \in Host, Loses(h)
      PROVE  Inv'
  BY <1>6, LosesKeeps
<1>7. QED
  BY <1>1, <1>2, <1>3, <1>4, <1>5, <1>6 DEF Next

-----------------------------------------------------------------------------
(* From the invariant to the property. *)
WaitingFor(n, seg) == {at \in {n} \X Waiting(n) : at[2][2].segment = seg}

LEMMA WaitingOne ==
  ASSUME NEW n, NEW ethernet, NEW ip, NEW to, GoodInterface(n, ethernet, ip, to),
         NEW w \in Waiting(n)
  PROVE  /\ w[1] \in Asked(n)
         /\ w = <<w[1], n.ip_addr_to_ethernet_datagram_queue[w[1]].datagrams[1]>>
         /\ w[2] \in OnTheWay(ethernet, w[1], to)
<1>1. PICK i \in Asked(n) :
        w \in {i} \X ToSet(n.ip_addr_to_ethernet_datagram_queue[i].datagrams)
  BY DEF Waiting
<1> DEFINE q == n.ip_addr_to_ethernet_datagram_queue[i].datagrams
<1>2. q \in Seq(OnTheWay(ethernet, i, to)) /\ Len(q) = 1
  BY DEF GoodInterface
<1>3. w[1] = i /\ w[2] \in ToSet(q) /\ w = <<w[1], w[2]>>
  BY <1>1
<1>4. PICK k \in DOMAIN q : w[2] = q[k]
  BY <1>3 DEF ToSet
<1> HIDE DEF q
<1>5. k = 1 /\ q[k] \in OnTheWay(ethernet, i, to)
  BY <1>2, <1>4
<1>6. QED
  BY <1>3, <1>4, <1>5 DEF q

LEMMA WaitingCount ==
  ASSUME NEW n, NEW ethernet, NEW ip, NEW to, GoodInterface(n, ethernet, ip, to), NEW seg
  PROVE  /\ IsFiniteSet(WaitingFor(n, seg))
         /\ Cardinality(WaitingFor(n, seg)) \in Nat
         /\ Cardinality(WaitingFor(n, seg)) <= Kept(n, seg)
<1> DEFINE d(i) == n.ip_addr_to_ethernet_datagram_queue[i].datagrams[1]
           K    == {i \in Asked(n) : d(i).segment = seg}
           W    == WaitingFor(n, seg)
           f    == [i \in K |-> <<n, <<i, d(i)>>>>]
<1>1. IsFiniteSet(K) /\ Cardinality(K) = Kept(n, seg)
  <2>1. Asked(n) \in SUBSET IPAddress
    BY DEF GoodInterface
  <2>2. K \in SUBSET IPAddress
    BY <2>1
  <2>3. IsFiniteSet(K)
    <3> HIDE DEF K
    <3>1. QED
      BY <2>2, AskedFinite
  <2>4. QED
    BY <2>3 DEF Kept
<1>2. \A at \in W : \E i \in K : f[i] = at
  <2>1. ASSUME NEW at \in W
        PROVE  \E i \in K : f[i] = at
    <3>1. /\ at[1] = n /\ at[2] \in Waiting(n) /\ at = <<at[1], at[2]>>
          /\ at[2][2].segment = seg
      BY DEF WaitingFor
    <3> DEFINE w == at[2]
    <3>2. w[1] \in Asked(n) /\ w = <<w[1], d(w[1])>>
      BY <3>1, WaitingOne
    <3>3. w[2] = d(w[1])
      <4> DEFINE i == w[1]
                 e == d(i)
      <4>1. w = <<i, e>>
        BY <3>2
      <4> HIDE DEF i, e
      <4>2. w[2] = e
        BY <4>1
      <4>3. QED
        BY <4>2 DEF e, i
    <3>4. w[1] \in K
      BY <3>1, <3>2, <3>3
    <3>5. f[w[1]] = <<n, <<w[1], d(w[1])>>>>
      BY <3>4
    <3>6. QED
      BY <3>1, <3>2, <3>4, <3>5
  <2>2. QED
    BY <2>1
<1>3. \A i \in K : f[i] \in W
  <2>1. ASSUME NEW i \in K
        PROVE  f[i] \in W
    <3> DEFINE q == n.ip_addr_to_ethernet_datagram_queue[i].datagrams
               w == <<i, d(i)>>
    <3>1. i \in Asked(n) /\ d(i).segment = seg
      OBVIOUS
    <3>2. q \in Seq(OnTheWay(ethernet, i, to)) /\ Len(q) = 1
      BY <3>1 DEF GoodInterface
    <3>3. d(i) \in ToSet(q)
      <4> HIDE DEF q
      <4>1. 1 \in DOMAIN q
        BY <3>2
      <4>2. q[1] \in ToSet(q)
        BY <4>1 DEF ToSet
      <4>3. QED
        BY <4>2 DEF q
    <3>4. w \in {i} \X ToSet(q)
      BY <3>3
    <3>5. w \in Waiting(n)
      BY <3>1, <3>4 DEF Waiting
    <3>6. w[2].segment = seg
      BY <3>1
    <3>7. f[i] = <<n, w>>
      OBVIOUS
    <3> HIDE DEF w, f
    <3>8. QED
      BY <3>5, <3>6, <3>7 DEF WaitingFor
  <2>2. QED
    BY <2>1
<1>4. f \in Surjection(K, W)
  <2>1. f \in [K -> W]
    BY <1>3
  <2> HIDE DEF f, K, W
  <2>2. QED
    BY <1>2, <2>1 DEF Surjection
<1>5. IsFiniteSet(W) /\ Cardinality(W) <= Cardinality(K)
  <2> HIDE DEF f, K, W
  <2>1. QED
    BY <1>1, <1>4, FS_Surjection
<1>6. Cardinality(W) \in Nat
  BY <1>5, FS_CardinalityType
<1>7. QED
  BY <1>1, <1>5, <1>6

LEMMA UnionCount ==
  ASSUME NEW S, IsFiniteSet(S), NEW T, IsFiniteSet(T)
  PROVE  /\ IsFiniteSet(S \cup T) /\ Cardinality(S \cup T) \in Nat
         /\ Cardinality(S \cup T) <= Cardinality(S) + Cardinality(T)
<1>1. IsFiniteSet(S \cup T) /\ IsFiniteSet(S \cap T)
  BY FS_Union, FS_Subset
<1>2. Cardinality(S \cup T) = Cardinality(S) + Cardinality(T) - Cardinality(S \cap T)
  BY FS_Union
<1>3. /\ Cardinality(S) \in Nat /\ Cardinality(T) \in Nat
      /\ Cardinality(S \cup T) \in Nat /\ Cardinality(S \cap T) \in Nat
  BY <1>1, FS_CardinalityType
<1>4. QED
  BY <1>1, <1>2, <1>3

\* The interfaces of a host and of its router.
LEMMA HostInterfaces ==
  ASSUME NEW h, NEW a, NEW x, NEW to, HostGood(h, a, x, to)
  PROVE  LET n == a.interface
             l == x.router.interfaces_[1]
             r == x.router.interfaces_[2]
         IN  /\ ToSet(x.router.interfaces_) = {l, r}
             /\ GoodInterface(n, HostEthernet[h], HostIp[h].ip, to)
             /\ GoodInterface(l, RouterEthernet[h][1], RouterIp[h][1], to)
             /\ GoodInterface(r, RouterEthernet[h][2], RouterIp[h][2], to)
             /\ n.maybe_send_queue = << >> /\ l.maybe_send_queue = << >>
             /\ r.maybe_send_queue = << >>
<1> DEFINE l == x.router.interfaces_[1]
           r == x.router.interfaces_[2]
<1>1. x.router.interfaces_ = <<l, r>>
  BY DEF HostGood, GoodThread, GoodRouter
<1>2. ToSet(x.router.interfaces_) = {l, r}
  <2> HIDE DEF l, r
  <2>1. DOMAIN <<l, r>> = 1..2 /\ <<l, r>>[1] = l /\ <<l, r>>[2] = r
    OBVIOUS
  <2>2. 1..2 = {1, 2}
    OBVIOUS
  <2>3. {<<l, r>>[i] : i \in {1, 2}} = {l, r}
    BY <2>1
  <2>4. QED
    BY <1>1, <2>1, <2>2, <2>3 DEF ToSet
<1>3. 1 \in Sides /\ 2 \in Sides
  BY DEF Sides
<1>4. QED
  BY <1>2, <1>3 DEF HostGood, GoodAdapter, GoodThread, GoodRouter

LEMMA FramesCount ==
  ASSUME NEW h, NEW a, NEW x, NEW to, HostGood(h, a, x, to), NEW seg
  PROVE  /\ FramesOf(x) \in Seq(Frame(to))
         /\ Carried(FramesOf(x), seg)
              = Carried(x.from_host, seg) + Carried(x.to_host, seg)
                + Carried(x.from_internet, seg) + Carried(x.router_to_host, seg)
                + Carried(x.router_to_internet, seg)
<1> DEFINE p == x.from_host
           q == x.to_host
           r == x.from_internet
           s == x.router_to_host
           t == x.router_to_internet
           S == Frame(to)
<1>1. p \in Seq(S) /\ q \in Seq(S) /\ r \in Seq(S) /\ s \in Seq(S) /\ t \in Seq(S)
  BY DEF HostGood, GoodThread, ThreadQueues
<1>2. FramesOf(x) = (((p \o q) \o r) \o s) \o t
  BY DEF FramesOf
<1> HIDE DEF p, q, r, s, t, S
<1>3. /\ p \o q \in Seq(S) /\ (p \o q) \o r \in Seq(S)
      /\ ((p \o q) \o r) \o s \in Seq(S) /\ (((p \o q) \o r) \o s) \o t \in Seq(S)
  BY <1>1, ConcatProperties
<1>4. Carried(p \o q, seg) = Carried(p, seg) + Carried(q, seg)
  BY <1>1, CarriedConcat
<1>5. Carried((p \o q) \o r, seg) = Carried(p \o q, seg) + Carried(r, seg)
  BY <1>1, <1>3, CarriedConcat
<1>6. Carried(((p \o q) \o r) \o s, seg) = Carried((p \o q) \o r, seg) + Carried(s, seg)
  BY <1>1, <1>3, CarriedConcat
<1>7. Carried((((p \o q) \o r) \o s) \o t, seg)
        = Carried(((p \o q) \o r) \o s, seg) + Carried(t, seg)
  BY <1>1, <1>3, CarriedConcat
<1>8. Carried(FramesOf(x), seg)
        = Carried(p, seg) + Carried(q, seg) + Carried(r, seg) + Carried(s, seg) + Carried(t, seg)
  BY <1>2, <1>4, <1>5, <1>6, <1>7
<1>9. QED
  BY <1>2, <1>3, <1>8 DEF p, q, r, s, t, S

ReturnedTo(h, q, seg) == {at \in {h} \X DOMAIN q : q[at[2]] = seg}

LEMMA ReturnedCount ==
  ASSUME NEW h, NEW U, NEW q \in Seq(U), NEW seg
  PROVE  /\ IsFiniteSet(ReturnedTo(h, q, seg))
         /\ Cardinality(ReturnedTo(h, q, seg)) <= Returned(q, seg)
<1> DEFINE K == {i \in DOMAIN q : q[i] = seg}
           W == ReturnedTo(h, q, seg)
           f == [i \in K |-> <<h, i>>]
<1>1. IsFiniteSet(K) /\ Cardinality(K) = Returned(q, seg)
  <2>1. K = {i \in DOMAIN q : q[i] \in {seg}}
    OBVIOUS
  <2>2. IsFiniteSet({i \in DOMAIN q : q[i] \in {seg}})
    BY HitsType
  <2>3. QED
    BY <2>1, <2>2 DEF Returned
<1>2. f \in Surjection(K, W)
  <2>1. \A at \in W : at[2] \in K /\ f[at[2]] = at
    BY DEF ReturnedTo
  <2>2. f \in [K -> W]
    BY DEF ReturnedTo
  <2> HIDE DEF f, K, W
  <2>3. QED
    BY <2>1, <2>2 DEF Surjection
<1>3. QED
  <2> HIDE DEF f, K
  <2>1. QED
    BY <1>1, <1>2, FS_Surjection

WaitingAt(a, x, seg) ==
  WaitingFor(a.interface, seg)
  \cup (WaitingFor(x.router.interfaces_[1], seg) \cup WaitingFor(x.router.interfaces_[2], seg))

\* The copies at one host, counted.
LEMMA HostCount ==
  ASSUME NEW h, NEW a, NEW x, NEW to, HostGood(h, a, x, to), NEW U, NEW q \in Seq(U), NEW seg
  PROVE  /\ IsFiniteSet(WaitingAt(a, x, seg)) /\ Cardinality(WaitingAt(a, x, seg)) \in Nat
         /\ IsFiniteSet(ReturnedTo(h, q, seg)) /\ Cardinality(ReturnedTo(h, q, seg)) \in Nat
         /\ Carried(FramesOf(x), seg) \in Nat
         /\ Carried(FramesOf(x), seg) + Cardinality(WaitingAt(a, x, seg))
            + Cardinality(ReturnedTo(h, q, seg)) <= AtHost(a, x, q, seg)
<1> DEFINE n == a.interface
           l == x.router.interfaces_[1]
           r == x.router.interfaces_[2]
           A == WaitingFor(n, seg)
           B == WaitingFor(l, seg)
           C == WaitingFor(r, seg)
           f == Carried(FramesOf(x), seg)
           w == Cardinality(WaitingAt(a, x, seg))
           g == Cardinality(ReturnedTo(h, q, seg))
<1>1. /\ GoodInterface(n, HostEthernet[h], HostIp[h].ip, to)
      /\ GoodInterface(l, RouterEthernet[h][1], RouterIp[h][1], to)
      /\ GoodInterface(r, RouterEthernet[h][2], RouterIp[h][2], to)
      /\ n.maybe_send_queue = << >> /\ l.maybe_send_queue = << >>
      /\ r.maybe_send_queue = << >>
  BY HostInterfaces
<1>2. AtInterface(n, seg) = Kept(n, seg) /\ Kept(n, seg) \in Nat
  BY <1>1, KeptType, CarriedEmpty DEF AtInterface
<1>3. AtInterface(l, seg) = Kept(l, seg) /\ Kept(l, seg) \in Nat
  BY <1>1, KeptType, CarriedEmpty DEF AtInterface
<1>4. AtInterface(r, seg) = Kept(r, seg) /\ Kept(r, seg) \in Nat
  BY <1>1, KeptType, CarriedEmpty DEF AtInterface
<1>5. IsFiniteSet(A) /\ Cardinality(A) \in Nat /\ Cardinality(A) <= Kept(n, seg)
  BY <1>1, WaitingCount
<1>6. IsFiniteSet(B) /\ Cardinality(B) \in Nat /\ Cardinality(B) <= Kept(l, seg)
  BY <1>1, WaitingCount
<1>7. IsFiniteSet(C) /\ Cardinality(C) \in Nat /\ Cardinality(C) <= Kept(r, seg)
  BY <1>1, WaitingCount
<1>8. WaitingAt(a, x, seg) = A \cup (B \cup C)
  BY DEF WaitingAt
<1> HIDE DEF A, B, C
<1>9. /\ IsFiniteSet(B \cup C) /\ Cardinality(B \cup C) \in Nat
      /\ Cardinality(B \cup C) <= Cardinality(B) + Cardinality(C)
  BY <1>6, <1>7, UnionCount
<1>10. /\ IsFiniteSet(A \cup (B \cup C)) /\ Cardinality(A \cup (B \cup C)) \in Nat
       /\ Cardinality(A \cup (B \cup C)) <= Cardinality(A) + Cardinality(B \cup C)
  BY <1>5, <1>9, UnionCount
<1>11. /\ IsFiniteSet(WaitingAt(a, x, seg)) /\ w \in Nat
       /\ w <= Kept(n, seg) + (Kept(l, seg) + Kept(r, seg))
  BY <1>2, <1>3, <1>4, <1>5, <1>6, <1>7, <1>8, <1>9, <1>10
<1>12. IsFiniteSet(ReturnedTo(h, q, seg)) /\ g \in Nat /\ g <= Returned(q, seg)
       /\ Returned(q, seg) \in Nat
  BY ReturnedCount, ReturnedType, FS_CardinalityType
<1>13. /\ Carried(x.from_host, seg) \in Nat /\ Carried(x.to_host, seg) \in Nat
       /\ Carried(x.from_internet, seg) \in Nat /\ Carried(x.router_to_host, seg) \in Nat
       /\ Carried(x.router_to_internet, seg) \in Nat
  BY ThreadTypes DEF HostGood
<1>14. f = Carried(x.from_host, seg) + Carried(x.to_host, seg)
           + Carried(x.from_internet, seg) + Carried(x.router_to_host, seg)
           + Carried(x.router_to_internet, seg)
  BY FramesCount
<1>15. x.to_internet = << >> /\ Carried(x.to_internet, seg) = 0
  BY CarriedEmpty DEF HostGood
<1>16. AtHost(a, x, q, seg)
         = Kept(n, seg) + (f + (Kept(l, seg) + Kept(r, seg))) + Returned(q, seg)
  <2>1. AtThread(x, seg) = f + (Kept(l, seg) + Kept(r, seg))
    <3>1. AtRouter(x.router, seg) = Kept(l, seg) + Kept(r, seg)
      BY <1>3, <1>4 DEF AtRouter
    <3> HIDE DEF l, r, f
    <3>2. QED
      BY <1>3, <1>4, <1>13, <1>14, <1>15, <3>1 DEF AtThread
  <2>2. QED
    BY <1>2, <2>1 DEF AtHost
<1>17. f \in Nat
  BY <1>13, <1>14
<1> DEFINE K == Kept(n, seg)
           L == Kept(l, seg)
           R == Kept(r, seg)
           Q == Returned(q, seg)
<1>18. K \in Nat /\ L \in Nat /\ R \in Nat /\ Q \in Nat
  BY <1>2, <1>3, <1>4, <1>12
<1>19. /\ w \in Nat /\ w <= K + (L + R) /\ g \in Nat /\ g <= Q
       /\ AtHost(a, x, q, seg) = K + (f + (L + R)) + Q
  BY <1>11, <1>12, <1>16
<1> HIDE DEF K, L, R, Q, f, w, g
<1>20. f + w + g <= AtHost(a, x, q, seg)
  BY <1>17, <1>18, <1>19
<1>21. QED
  BY <1>11, <1>12, <1>17, <1>20 DEF f, w, g

\* What FollowsRoutes counts is counted by Everywhere.
LEMMA CopiesCounted ==
  ASSUME Inv, NEW seg
  PROVE  /\ Copies(seg) <= Everywhere(seg)
         /\ Copies(seg) \in Nat /\ Everywhere(seg) \in Nat
         /\ Frames \in Seq(Frame(Targets))
<1> DEFINE c == Client
           o == Other(Client)
           F(h) == FramesOf(thread[h])
           W(h) == WaitingAt(adapter[h], thread[h], seg)
           R(h) == ReturnedTo(h, received[h], seg)
           E(h) == AtHost(adapter[h], thread[h], received[h], seg)
           Fs == {i \in DOMAIN Frames : Frames[i].type = "IPv4" /\ Frames[i].payload.segment = seg}
           Ws == {at \in UNION {{n} \X Waiting(n) : n \in Interfaces} : at[2][2].segment = seg}
           Rs == {at \in UNION {{h} \X DOMAIN received[h] : h \in Host} :
                    received[at[1]][at[2]] = seg}
<1>1. /\ AllGood(adapter, thread, Targets)
      /\ received \in [Host -> Seq(Segment)]
  BY InvHosts
<1>2. c \in Host /\ o \in Host /\ \A h \in Host : h = c \/ h = o
  BY HostAssumption, Hosts
<1>3. \A h \in Host : HostGood(h, adapter[h], thread[h], Targets)
  BY <1>1 DEF AllGood
<1>4. \A h \in Host :
        /\ IsFiniteSet(W(h)) /\ Cardinality(W(h)) \in Nat
        /\ IsFiniteSet(R(h)) /\ Cardinality(R(h)) \in Nat
        /\ Carried(F(h), seg) \in Nat
        /\ Carried(F(h), seg) + Cardinality(W(h)) + Cardinality(R(h)) <= E(h)
        /\ E(h) \in Nat
        /\ F(h) \in Seq(Frame(Targets))
  <2>1. ASSUME NEW h \in Host
        PROVE  /\ IsFiniteSet(W(h)) /\ Cardinality(W(h)) \in Nat
               /\ IsFiniteSet(R(h)) /\ Cardinality(R(h)) \in Nat
               /\ Carried(F(h), seg) \in Nat
               /\ Carried(F(h), seg) + Cardinality(W(h)) + Cardinality(R(h)) <= E(h)
               /\ E(h) \in Nat
               /\ F(h) \in Seq(Frame(Targets))
    <3>1. HostGood(h, adapter[h], thread[h], Targets) /\ received[h] \in Seq(Segment)
      BY <1>1, <1>3
    <3>2. /\ IsFiniteSet(W(h)) /\ Cardinality(W(h)) \in Nat
          /\ IsFiniteSet(R(h)) /\ Cardinality(R(h)) \in Nat
          /\ Carried(F(h), seg) \in Nat
          /\ Carried(F(h), seg) + Cardinality(W(h)) + Cardinality(R(h)) <= E(h)
      BY <3>1, HostCount
    <3>3. F(h) \in Seq(Frame(Targets))
      BY <3>1, FramesCount
    <3>4. E(h) \in Nat
      BY <3>1, AtHostType
    <3>5. QED
      BY <3>2, <3>3, <3>4
  <2>2. QED
    BY <2>1
<1>5. Frames = F(c) \o F(o)
  BY DEF Frames
<1>6. Cardinality(Fs) = Carried(F(c), seg) + Carried(F(o), seg) /\ Frames \in Seq(Frame(Targets))
  <2>1. Cardinality(Fs) = Carried(Frames, seg)
    BY DEF Carried
  <2>2. F(c) \in Seq(Frame(Targets)) /\ F(o) \in Seq(Frame(Targets))
    BY <1>2, <1>4
  <2> HIDE DEF F, Fs
  <2>3. Frames \in Seq(Frame(Targets))
    BY <1>5, <2>2, ConcatProperties
  <2>4. Carried(F(c) \o F(o), seg) = Carried(F(c), seg) + Carried(F(o), seg)
    BY <2>2, CarriedConcat
  <2>5. QED
    BY <1>5, <2>1, <2>3, <2>4
<1>7. Ws = W(c) \cup W(o)
  <2>1. \A h \in Host : ToSet(thread[h].router.interfaces_)
                          = {thread[h].router.interfaces_[1], thread[h].router.interfaces_[2]}
    BY <1>3, HostInterfaces
  <2>2. Interfaces = {adapter[c].interface, adapter[o].interface}
                     \cup ToSet(thread[c].router.interfaces_) \cup ToSet(thread[o].router.interfaces_)
    BY <1>2 DEF Interfaces
  <2>3. \A n : n \in Interfaces <=>
          \/ n = adapter[c].interface \/ n = adapter[o].interface
          \/ n = thread[c].router.interfaces_[1] \/ n = thread[c].router.interfaces_[2]
          \/ n = thread[o].router.interfaces_[1] \/ n = thread[o].router.interfaces_[2]
    BY <1>2, <2>1, <2>2
  <2>4. \A at : at \in Ws <=> \E n \in Interfaces : at \in WaitingFor(n, seg)
    BY DEF WaitingFor
  <2>5. \A at, h : at \in W(h) <=>
          \/ at \in WaitingFor(adapter[h].interface, seg)
          \/ at \in WaitingFor(thread[h].router.interfaces_[1], seg)
          \/ at \in WaitingFor(thread[h].router.interfaces_[2], seg)
    BY DEF WaitingAt
  <2> HIDE DEF Ws, W
  <2>6. \A at : at \in Ws <=> at \in W(c) \/ at \in W(o)
    BY <2>3, <2>4, <2>5
  <2>7. QED
    BY <2>6
<1>8. Rs = R(c) \cup R(o)
  BY <1>2 DEF ReturnedTo
<1>9. /\ Cardinality(Ws) <= Cardinality(W(c)) + Cardinality(W(o)) /\ Cardinality(Ws) \in Nat
      /\ Cardinality(Rs) <= Cardinality(R(c)) + Cardinality(R(o)) /\ Cardinality(Rs) \in Nat
  <2> HIDE DEF Ws, Rs, W, R
  <2>1. QED
    BY <1>2, <1>4, <1>7, <1>8, UnionCount
<1>10. Copies(seg) = Cardinality(Fs) + Cardinality(Ws) + Cardinality(Rs)
  BY DEF Copies
<1>11. Everywhere(seg) = E(c) + E(o)
  BY DEF Everywhere
<1> DEFINE f(h) == Carried(F(h), seg)
           w(h) == Cardinality(W(h))
           r(h) == Cardinality(R(h))
           fs == Cardinality(Fs)
           ws == Cardinality(Ws)
           rs == Cardinality(Rs)
<1>12. /\ f(c) \in Nat /\ w(c) \in Nat /\ r(c) \in Nat /\ E(c) \in Nat
       /\ f(o) \in Nat /\ w(o) \in Nat /\ r(o) \in Nat /\ E(o) \in Nat
       /\ f(c) + w(c) + r(c) <= E(c) /\ f(o) + w(o) + r(o) <= E(o)
  BY <1>2, <1>4
<1>13. /\ fs = f(c) + f(o) /\ ws <= w(c) + w(o) /\ rs <= r(c) + r(o)
       /\ ws \in Nat /\ rs \in Nat
       /\ Copies(seg) = fs + ws + rs
  BY <1>6, <1>9, <1>10
<1> HIDE DEF f, w, r, fs, ws, rs, E
<1>14. Copies(seg) <= Everywhere(seg) /\ Copies(seg) \in Nat /\ Everywhere(seg) \in Nat
  BY <1>11, <1>12, <1>13
<1>15. QED
  BY <1>6, <1>14

LEMMA InvFollowsRoutes ==
  ASSUME Inv
  PROVE  FollowsRoutes
<1>1. /\ AllGood(adapter, thread, Targets) /\ DOMAIN thread = Host
  BY InvHosts
<1>2. ASSUME NEW frame \in ToSet(Frames), frame.type = "IPv4"
      PROVE  \E ip \in IPAddress : Owns(ip, frame.dst) /\ OnItsLeg(frame.payload, frame.src, ip)
  <2>1. frame \in Frame(Targets)
    <3>1. Frames \in Seq(Frame(Targets))
      BY CopiesCounted
    <3>2. PICK i \in DOMAIN Frames : frame = Frames[i]
      BY DEF ToSet
    <3> HIDE DEF Frames
    <3>3. QED
      BY <3>1, <3>2
  <2>2. frame \in DataFrame(Targets)
    BY <1>2, <2>1 DEF Frame, ArpFrame
  <2>3. QED
    BY <2>2 DEF DataFrame, OnTheWay
<1>3. ASSUME NEW n \in Interfaces, NEW w \in Waiting(n)
      PROVE  OnItsLeg(w[2], n.ethernet_address_, w[1])
  <2>1. PICK h \in Host : n = adapter[h].interface \/ n \in ToSet(thread[h].router.interfaces_)
    BY DEF Interfaces
  <2>2. PICK ethernet, ip : GoodInterface(n, ethernet, ip, Targets)
    <3>1. HostGood(h, adapter[h], thread[h], Targets)
      BY <1>1 DEF AllGood
    <3>2. /\ GoodInterface(adapter[h].interface, HostEthernet[h], HostIp[h].ip, Targets)
          /\ GoodInterface(thread[h].router.interfaces_[1], RouterEthernet[h][1],
                           RouterIp[h][1], Targets)
          /\ GoodInterface(thread[h].router.interfaces_[2], RouterEthernet[h][2],
                           RouterIp[h][2], Targets)
      BY <3>1, HostInterfaces
    <3>3. ToSet(thread[h].router.interfaces_)
            = {thread[h].router.interfaces_[1], thread[h].router.interfaces_[2]}
      BY <3>1, HostInterfaces
    <3>4. QED
      BY <2>1, <3>2, <3>3
  <2>3. n.ethernet_address_ = ethernet
    BY <2>2 DEF GoodInterface
  <2>4. w[2] \in OnTheWay(ethernet, w[1], Targets)
    BY <2>2, WaitingOne
  <2>5. QED
    BY <2>3, <2>4 DEF OnTheWay
<1>4. ASSUME NEW h \in Host, NEW i \in 1..sent[h]
      PROVE  Copies(Outgoing[h][i]) <= 1
  <2> DEFINE seg == Outgoing[h][i]
             n == Copies(seg)
             m == Everywhere(seg)
  <2>1. sent[h] \in Nat /\ sent[h] <= Len(Outgoing[h])
    BY DEF Inv
  <2>2. i \in DOMAIN Outgoing[h] /\ i <= sent[h]
    BY <2>1, OutgoingType
  <2>3. m <= 1
    BY <2>2 DEF Inv
  <2>4. n <= m /\ n \in Nat /\ m \in Nat
    BY CopiesCounted
  <2> HIDE DEF n, m
  <2>5. n <= 1
    BY <2>3, <2>4
  <2>6. QED
    BY <2>5 DEF n
<1>5. ASSUME NEW h \in Host, received[h] # << >>
      PROVE  adapter[Other(h)].tcp.destination = HostIp[h]
  <2>1. HostIp[h] \in Targets[Other(h)] /\ Other(h) \in Host
    BY <1>5, Hosts DEF Inv
  <2>2. QED
    BY <2>1 DEF Targets
<1>6. QED
  BY <1>2, <1>3, <1>4, <1>5 DEF FollowsRoutes

(* Whatever the routes, the addresses and the segments are: every datagram *)
(* is where its time to live and the longest matching prefixes say, at one *)
(* place at most, and a segment is returned by the host it is addressed to *)
(* (router.cc:34-66, router.hh:24-44, endtoend.cc:103-123).                *)
THEOREM RoutesFollowed == Spec => []FollowsRoutes
<1>1. Init => Inv
  BY InitGood
<1>2. Inv /\ [Next]_vars => Inv'
  BY StepKeeps
<1>3. Inv => FollowsRoutes
  BY InvFollowsRoutes
<1>4. QED
  BY <1>1, <1>2, <1>3, PTL DEF Spec

=============================================================================
