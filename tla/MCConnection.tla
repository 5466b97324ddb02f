----------------------------- MODULE MCConnection ---------------------------
(* A client with two bytes to send and a server with none, while one thing goes    *)
(* wrong; and both with bytes to send while nothing does, through windows and      *)
(* pipes of one, with a copy that holds the input or one that does not.            *)
EXTENDS ConnectionSpec

CONSTANTS a, b

MCAddressOf == a :> [ip |-> "a", port |-> 1] @@ b :> [ip |-> "b", port |-> 2]

MCListenAddress == [ip |-> AnyAddress, port |-> 2]

MCStranger == [ip |-> "c", port |-> 1]

MCIsnOf == a :> 14 @@ b :> 3

MCSetups ==
  {[input |-> a :> 2 @@ b :> 0, buffer |-> 3, send |-> 2, recv |-> 2, in |-> 1, out |-> 2,
    faults |-> 1],
   [input |-> a :> 2 @@ b :> 2, buffer |-> 2, send |-> 1, recv |-> 1, in |-> 1, out |-> 1,
    faults |-> 0],
   [input |-> a :> 2 @@ b :> 1, buffer |-> 1, send |-> 1, recv |-> 1, in |-> 1, out |-> 1,
    faults |-> 0]}

=============================================================================
