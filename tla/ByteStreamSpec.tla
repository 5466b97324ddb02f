--------------------------- MODULE ByteStreamSpec ---------------------------
(***************************************************************************)
(* One ByteStream between a writing and a reading client, as TCPPeer uses  *)
(* it (src/util/tcp_peer.hh:19): the writer offers the next bytes of its   *)
(* data, possibly more than fit, and closes once; the reader reads or pops *)
(* any number of bytes, also more than there are.                          *)
(***************************************************************************)
EXTENDS ByteStream

CONSTANTS Capacity,    \* capacity of the stream
          MaxPush,     \* longest string offered by one push or asked by one read
          StreamLength \* bytes the writer has to send

ASSUME CapacityAssumption == Capacity \in Nat
ASSUME MaxPushAssumption == MaxPush \in Nat
ASSUME StreamLengthAssumption == StreamLength \in Nat

VARIABLES s,         \* the ByteStream
          delivered  \* history: every byte the reader took out, in order

vars == <<s, delivered>>

Init == /\ s = NewByteStream(Capacity)
        /\ delivered = << >>

\* The writer offers the n bytes after the last one the stream accepted.
WriterPush(n) == /\ ~IsClosed(s)
                 /\ BytesPushed(s) + n <= StreamLength
                 /\ s' = Push(s, BytesFrom(BytesPushed(s), n))
                 /\ UNCHANGED delivered

WriterClose == /\ ~IsClosed(s)
               /\ s' = Close(s)
               /\ UNCHANGED delivered

\* A reset or an error elsewhere marks the stream and stops nobody.
WriterSetError == /\ ~HasError(s)
                  /\ s' = SetError(s)
                  /\ UNCHANGED delivered

ReaderRead(n) == /\ s' = Read(s, n)
                 /\ delivered' = delivered \o ReadOut(s, n)

\* Pop after a peek; the bytes popped were seen by the peek.
ReaderPop(n) == /\ s' = Pop(s, n)
                /\ delivered' = IF n > Len(s.stream) THEN delivered
                                ELSE delivered \o SubSeq(s.stream, 1, n)

Next == \/ \E n \in 0..MaxPush : WriterPush(n)
        \/ WriterClose
        \/ WriterSetError
        \/ \E n \in 1..MaxPush : ReaderRead(n)
        \/ \E n \in 1..MaxPush : ReaderPop(n)

\* The reader keeps reading (the socket's rule 3 polls for it); nothing is
\* assumed of the writer but that it closes in the end.
Fairness == /\ WF_vars(WriterClose)
            /\ WF_vars(ReaderRead(1))

Spec == Init /\ [][Next]_vars /\ Fairness

-----------------------------------------------------------------------------
(* Every variable keeps its type; available_capacity(), an unsigned        *)
(* difference (byte_stream.cc:37-41), never goes below zero.               *)
TypeOK == /\ s \in StreamStates
          /\ AvailableCapacity(s) \in 0..Capacity
          /\ delivered \in Seq(Byte)

(* What has been read followed by what is buffered is exactly the bytes    *)
(* the stream accepted, in order and without gaps (byte_stream.cc:9-17,    *)
(* 65-74): no push, truncated push, read or refused pop loses, repeats or  *)
(* reorders a byte.                                                        *)
StreamIntegrity ==
  /\ Contiguous(delivered, 0)
  /\ Contiguous(s.stream, Len(delivered))
  /\ s.bytes_write = Len(delivered) + Len(s.stream)

(* The two cumulative counters account for the buffer: is_finished() and   *)
(* bytes_buffered() are computed from the counters, available_capacity()   *)
(* and the guard of pop() from the buffer (byte_stream.cc:37-80).          *)
CountersAgree == /\ BytesBuffered(s) = Len(s.stream)
                 /\ BytesPopped(s) = Len(delivered)

(* A reader that once saw is_finished() has seen the whole stream: nothing *)
(* is delivered any more (byte_stream.hh:39).                              *)
FinishedIsFinal ==
  [][IsFinished(s) => IsFinished(s') /\ delivered' = delivered]_vars

(* Once closed, the stream is read to its end and reports it.              *)
ClosedLeadsToFinished == IsClosed(s) ~> IsFinished(s)

=============================================================================
