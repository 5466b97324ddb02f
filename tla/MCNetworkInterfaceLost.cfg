SPECIFICATION Spec
CONSTANTS
  a = a
  b = b
  ipA = ipA
  ipB = ipB
  ipNone = ipNone
  ethA = ethA
  ethB = ethB
  Host = {a, b}
  EthernetAddress = {ethA, ethB, Broadcast, NoAddress}
  IPAddress = {ipA, ipB, ipNone}
  InternetDatagram = {d1, d2}
  Broadcast = Broadcast
  NoAddress = NoAddress
  NoDatagram = NoDatagram
  MappingLifetime = 2
  RequestInterval = 1
  EthernetOf <- HostEthernets
  IpOf <- HostIps
  MaxTicks = 2
INVARIANTS
  NothingForgotten
CHECK_DEADLOCK FALSE
