----------------------------- MODULE MCTCPSender ----------------------------
(* TCPSenderSpec with segments of up to two bytes, a window that closes,   *)
(* and sequence numbers that wrap within the stream.                       *)
EXTENDS TCPSenderSpec

=============================================================================
