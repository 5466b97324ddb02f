----------------------------- MODULE TCPReceiver ----------------------------
(***************************************************************************)
(* TCPReceiver of src/src/tcp_receiver.{hh,cc}: which segments reach the   *)
(* Reassembler, and the acknowledgment and window sent back.               *)
(***************************************************************************)
EXTENDS TCPMessages, Reassembler

ReceiverStates == [isn : SequenceNumber, fin : BOOLEAN, syn : BOOLEAN]

NewReceiver == [isn |-> 0, fin |-> FALSE, syn |-> FALSE]

\* Mutated form of LastAck: the FIN counts as soon as it is seen.
LastAckEager(r, inbound_stream) ==
  BytesPushed(inbound_stream) + 1 + (IF r.fin THEN 1 ELSE 0)

\* last_ack_abs_seqno: the number after the last one received in order; the FIN
\* counts once the stream is closed.
LastAck(r, inbound_stream) ==
  BytesPushed(inbound_stream) + 1
    + (IF r.fin /\ IsClosed(inbound_stream) THEN 1 ELSE 0)

\* Mutated form of OverlapsWindow: the right edge is not checked.
OverlapsLeftOnly(abs_seqno, length, last_ack, window_size) ==
  abs_seqno + length > last_ack

\* Does the segment overlap the window that starts at last_ack_abs_seqno?
OverlapsWindow(abs_seqno, length, last_ack, window_size) ==
  /\ abs_seqno < last_ack + window_size
  /\ abs_seqno + length > last_ack

\* The first SYN fixes the isn; segments before it are ignored.
Synchronized(r, message) ==
  IF message.SYN /\ ~r.syn THEN [r EXCEPT !.syn = TRUE, !.isn = message.seqno]
                           ELSE r

\* Mutated form of ReceiverReceive: the SYN's number is not taken off the index.
ReceiveSynCounted(r, message, reassembler, inbound_stream) ==
  LET synced    == Synchronized(r, message)
      abs_seqno == Unwrap(message.seqno, synced.isn, BytesPushed(inbound_stream))
      fin       == synced.fin \/ message.FIN
      inserted  == Insert(reassembler, abs_seqno, message.payload, fin, inbound_stream)
  IN  IF synced.syn /\ OverlapsWindow(abs_seqno, SequenceLength(message),
                                     LastAck(synced, inbound_stream),
                                     AvailableCapacity(inbound_stream))
      THEN [receiver |-> [synced EXCEPT !.fin = fin],
            reassembler |-> inserted.reassembler,
            inbound |-> inserted.output]
      ELSE [receiver |-> synced, reassembler |-> reassembler,
            inbound |-> inbound_stream]

ReceiverReceive(r, message, reassembler, inbound_stream) ==
  LET synced    == Synchronized(r, message)
      abs_seqno == Unwrap(message.seqno, synced.isn, BytesPushed(inbound_stream))
      accepted  == OverlapsWindow(abs_seqno, SequenceLength(message),
                                  LastAck(synced, inbound_stream),
                                  AvailableCapacity(inbound_stream))
      idx       == IF abs_seqno >= 1 THEN abs_seqno - 1 ELSE abs_seqno
      fin       == synced.fin \/ message.FIN
      inserted  == Insert(reassembler, idx, message.payload, fin, inbound_stream)
  IN  IF synced.syn /\ accepted
      THEN [receiver |-> [synced EXCEPT !.fin = fin],
            reassembler |-> inserted.reassembler,
            inbound |-> inserted.output]
      ELSE [receiver |-> synced, reassembler |-> reassembler,
            inbound |-> inbound_stream]

\* Mutated forms of ReceiverSend: the window does not fit its field; no window is
\* offered until everything is read.
SendUnclamped(r, inbound_stream) ==
  [ackno |-> IF r.syn THEN Wrap(LastAck(r, inbound_stream), r.isn) ELSE Nullopt,
   window_size |-> AvailableCapacity(inbound_stream)]

SendAllOrNothing(r, inbound_stream) ==
  [ackno |-> IF r.syn THEN Wrap(LastAck(r, inbound_stream), r.isn) ELSE Nullopt,
   window_size |-> IF BytesBuffered(inbound_stream) > 0 THEN 0
                   ELSE Lesser(AvailableCapacity(inbound_stream), Word16 - 1)]

ReceiverSend(r, inbound_stream) ==
  [ackno |-> IF r.syn THEN Wrap(LastAck(r, inbound_stream), r.isn) ELSE Nullopt,
   window_size |-> Lesser(AvailableCapacity(inbound_stream), Word16 - 1)]

=============================================================================
