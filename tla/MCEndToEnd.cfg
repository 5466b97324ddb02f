SPECIFICATION Spec
CONSTANTS
  a = a
  b = b
  Host = {a, b}
  Client = a
  broadcast = broadcast
  none = none
  ethA = ethA
  ethB = ethB
  ethA1 = ethA1
  ethA2 = ethA2
  ethB1 = ethB1
  ethB2 = ethB2
  EthernetAddress = {broadcast, none, ethA, ethB, ethA1, ethA2, ethB1, ethB2}
  IPAddress <- MCIPAddress
  InternetDatagram <- MCInternetDatagram
  Broadcast = broadcast
  NoAddress = none
  NoDatagram = NoDatagram
  NoSegment = NoSegment
  AnyAddress = AnyAddress
  MappingLifetime = 2
  RequestInterval = 1
  AddressBits = 4
  Direct = Direct
  DefaultTtl = 3
  HostIp <- MCHostIp
  HostEthernet <- MCHostEthernet
  RouterIp <- MCRouterIp
  RouterEthernet <- MCRouterEthernet
  Routes <- MCRoutes
  Destinations <- MCDestinations
  Outgoing <- MCOutgoing
  MaxTicks = 2
  MaxFaults = 1
INVARIANTS
  FollowsRoutes
PROPERTIES
  Settles
  Arrives
CHECK_DEADLOCK FALSE
