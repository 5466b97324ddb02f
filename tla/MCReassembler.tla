---------------------------- MODULE MCReassembler ---------------------------
(* ReassemblerSpec on a stream about twice as long as the window, so that  *)
(* the window slides, is cut at both edges and closes.                     *)
EXTENDS ReassemblerSpec

=============================================================================
