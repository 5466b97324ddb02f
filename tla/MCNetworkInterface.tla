------------------------- MODULE MCNetworkInterface -------------------------
(* NetworkInterfaceSpec with two hosts, one IP address that no host has,   *)
(* and distinct Ethernet addresses.                                        *)
EXTENDS NetworkInterfaceSpec, TLC

CONSTANTS a, b, ipA, ipB, ipNone, ethA, ethB

HostEthernets == a :> ethA @@ b :> ethB

HostIps == a :> ipA @@ b :> ipB

=============================================================================
