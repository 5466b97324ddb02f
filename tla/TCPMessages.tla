----------------------------- MODULE TCPMessages ----------------------------
(***************************************************************************)
(* The two messages of a TCP segment: TCPSenderMessage and                 *)
(* TCPReceiverMessage of src/util/tcp_{sender,receiver}_message.hh.        *)
(***************************************************************************)
EXTENDS WrappingIntegers, ByteStream

CONSTANT Word16  \* number of values of a uint16_t

ASSUME Word16Assumption == Word16 \in Nat \ {0, 1}

\* The empty optional of an ackno.
Nullopt == -1

SenderMessages ==
  [seqno : SequenceNumber, SYN : BOOLEAN, payload : Seq(Byte), FIN : BOOLEAN]

ReceiverMessages ==
  [ackno : SequenceNumber \cup {Nullopt}, window_size : 0..Word16 - 1]

SequenceLength(message) ==
  (IF message.SYN THEN 1 ELSE 0) + Len(message.payload)
    + (IF message.FIN THEN 1 ELSE 0)

=============================================================================
