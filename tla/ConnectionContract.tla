------------------------- MODULE ConnectionContract -------------------------
(***************************************************************************)
(* A connection as its two applications see it: "a reliable data stream"   *)
(* each way (src/util/tcp_minnow_socket.hh:112-116).  What one of them     *)
(* writes the other gets, in the same order, and then is told the end;     *)
(* only a reset tells it earlier.                                          *)
(***************************************************************************)
EXTENDS ByteStream

CONSTANT End  \* the two ends

VARIABLES length,   \* how many bytes are written for each end
          accepted, \* how many bytes were taken for each end
          received, \* the bytes its application got
          told,     \* the ends whose application was told the end
          reset     \* the ends that were sent a reset

vars == <<length, accepted, received, told, reset>>

Init == /\ length \in [End -> Nat]
        /\ accepted = [e \in End |-> 0] /\ received = [e \in End |-> << >>]
        /\ told = {} /\ reset = {}

Accepts(e) == /\ \E n \in accepted[e] + 1..length[e] :
                   accepted' = [accepted EXCEPT ![e] = n]
              /\ UNCHANGED <<length, received, told, reset>>

\* The end may be told together with the last bytes.
Delivers(e) == /\ e \notin told
               /\ \E n \in Len(received[e])..accepted[e] :
                    /\ received' = [received EXCEPT ![e] = BytesFrom(0, n)]
                    /\ \/ told' = told
                       \/ told' = told \cup {e} /\ (n = length[e] \/ e \in reset)
               /\ UNCHANGED <<length, accepted, reset>>

Resets(e) == /\ reset' = reset \cup {e}
             /\ UNCHANGED <<length, accepted, received, told>>

Next == \E e \in End : Accepts(e) \/ Delivers(e) \/ Resets(e)

Spec == Init /\ [][Next]_vars

=============================================================================
