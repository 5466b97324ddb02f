---------------------------- MODULE MCTCPReceiver ---------------------------
(* TCPReceiverSpec with a window of a few bytes and an isn shortly before  *)
(* the wrap of the sequence numbers.                                       *)
EXTENDS TCPReceiverSpec

JustBeforeWrap == {Word32 - 3}

=============================================================================
