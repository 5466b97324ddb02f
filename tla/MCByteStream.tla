---------------------------- MODULE MCByteStream ----------------------------
(* ByteStreamSpec with a buffer smaller than the stream and pushes and     *)
(* reads that may exceed what fits and what there is.                      *)
EXTENDS ByteStreamSpec

=============================================================================
