------------------------------ MODULE MCEndToEnd ----------------------------
(* EndToEndSpec with addresses of four bits: the client's network is 00xx,  *)
(* the server's 01xx, the Internet 10xx.  The server's router sends 0111    *)
(* back to the client's, which sends it to the server's.                    *)
EXTENDS EndToEndSpec

CONSTANTS a, b, broadcast, none, ethA, ethB, ethA1, ethA2, ethB1, ethB2

MCHostIp == a :> [ip |-> 2, port |-> 1] @@ b :> [ip |-> 6, port |-> 2]

MCHostEthernet == a :> ethA @@ b :> ethB

MCRouterIp == a :> <<1, 9>> @@ b :> <<5, 10>>

MCRouterEthernet == a :> <<ethA1, ethA2>> @@ b :> <<ethB1, ethB2>>

To(prefix, length, next_hop, interface_num) ==
  [prefix |-> prefix, length |-> length, next_hop |-> next_hop,
   interface_num |-> interface_num]

MCRoutes == a :> <<To(0, 2, Direct, 1), To(8, 2, Direct, 2), To(4, 2, 10, 2)>>
         @@ b :> <<To(7, 4, 9, 2), To(4, 2, Direct, 1), To(8, 2, Direct, 2), To(0, 2, 9, 2)>>

\* The server, the circle, an address nobody has, and one without a route.
MCDestinations == {[ip |-> ip, port |-> 2] : ip \in {6, 7, 11, 12}}

Numbered(n, syn) ==
  [number |-> n, sender_message |-> [SYN |-> syn], reset |-> FALSE]

MCOutgoing == a :> <<Numbered(1, TRUE), Numbered(2, FALSE)>>
           @@ b :> <<Numbered(3, FALSE), Numbered(4, FALSE)>>

MCIPAddress == 0..15

MCInternetDatagram ==
  [src : {MCHostIp[a], MCHostIp[b]}, dst : MCDestinations \cup {MCHostIp[a]},
   segment : ToSet(MCOutgoing[a]) \cup ToSet(MCOutgoing[b]), ttl : 0..DefaultTtl]

=============================================================================
