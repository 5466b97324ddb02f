--------------------------- MODULE ReassemblerSpec --------------------------
(***************************************************************************)
(* A Reassembler that writes to a ByteStream: substrings of one stream of  *)
(* StreamLength bytes arrive in any order, overlapping and repeated, while *)
(* the application reads.  This is how TCPReceiver uses it: it hands over  *)
(* only segments that overlap the window (src/src/tcp_receiver.cc:39-50),  *)
(* so no substring starts beyond the window's end.  A substring is marked  *)
(* as the last one only if its final byte can be kept or is there already; *)
(* TCPReceiverSpec shows what an early mark does.                          *)
(***************************************************************************)
EXTENDS Reassembler

CONSTANTS Capacity,        \* of the output stream
          StreamLength     \* bytes of the stream that is reassembled

ASSUME CapacityAssumption == Capacity \in Nat
ASSUME StreamLengthAssumption == StreamLength \in Nat

VARIABLES reassembler, output

vars == <<reassembler, output>>

Init == /\ reassembler = NewReassembler
        /\ output = NewByteStream(Capacity)

WindowEnd == reassembler.base_index + AvailableCapacity(output)

\* The substrings of the stream that may arrive now: [first, end) and whether
\* it is marked as the last one.
Arrives(first, end, is_last) ==
  /\ first <= end
  /\ first <= WindowEnd
  /\ is_last => /\ end = StreamLength
                /\ end <= WindowEnd
                /\ first < end \/ reassembler.base_index = end

InsertSubstring(first, end, is_last) ==
  /\ Arrives(first, end, is_last)
  /\ \E result \in {Insert(reassembler, first, BytesFrom(first, end - first),
                           is_last, output)} :
       /\ reassembler' = result.reassembler
       /\ output' = result.output

ReadSome(n) == /\ BytesBuffered(output) > 0
               /\ output' = Read(output, n)
               /\ UNCHANGED reassembler

Next == \/ \E first, end \in 0..StreamLength, is_last \in BOOLEAN :
             InsertSubstring(first, end, is_last)
        \/ \E n \in 1..Capacity : ReadSome(n)

\* The substring of the next byte, marked last with the last one; at the end of
\* the stream, the mark alone.
NextByteArrives ==
  LET next == reassembler.base_index
      end  == Lesser(next + 1, StreamLength)
  IN  InsertSubstring(next, end, end = StreamLength)

\* The sender retransmits the first byte that is not acknowledged
\* (src/src/tcp_sender.cc:192) and the application keeps reading.
Fairness == WF_vars(NextByteArrives) /\ WF_vars(ReadSome(1))

Spec == Init /\ [][Next]_vars /\ Fairness

-----------------------------------------------------------------------------
\* The offsets at which a byte waits, and the indices of these bytes.
Pending == {o \in 0..reassembler.size - 1 : reassembler.buffer[o] # Empty}

PendingBytes == {reassembler.base_index + o : o \in Pending}

(* Every variable keeps its type and available_capacity() its range; the   *)
(* vectors keep the length the first insert gave them (reassembler.cc:9-13,*)
(* 52-56).                                                                 *)
TypeOK ==
  /\ output \in StreamStates
  /\ AvailableCapacity(output) \in 0..Capacity
  /\ reassembler \in ReassemblerStates(IF reassembler.initialized THEN Capacity
                                                                  ELSE 0)

(* Each byte waits at the offset of its own index and is written at its    *)
(* own place of the stream, whatever overlapped, came twice or was cut at  *)
(* either edge of the window (reassembler.cc:24-61).                       *)
ContentIntegrity ==
  /\ Intact(output)
  /\ reassembler.base_index = BytesPushed(output)
  /\ \A o \in Pending : reassembler.buffer[o] = reassembler.base_index + o

(* bytes_pending(), kept by increments and one subtraction in three places *)
(* (reassembler.cc:29, 39, 59), counts the bytes that wait.                *)
PendingCounted == BytesPending(reassembler) = Cardinality(Pending)

(* No byte waits that could be written now, and none that could not be     *)
(* written if the gaps before it were filled (reassembler.hh:26-34): what  *)
(* waits never exceeds what the output can take, so that the push at       *)
(* reassembler.cc:58 never drops a byte while base_index counts it.        *)
WindowRespected ==
  \A o \in Pending : o # 0 /\ o < AvailableCapacity(output)

(* No index into flag and buffer lies outside the vectors for any          *)
(* substring that can arrive (reassembler.cc:26-28, 36-38 check nothing).  *)
OffsetsInBounds ==
  \A first, end \in 0..StreamLength :
    Arrives(first, end, FALSE) =>
      LET opened == Initialized(reassembler, output)
      IN  Offsets(opened, first, end - first, output) \subseteq 0..opened.size - 1

(* Every operation does what the contract of reassembler.hh says: nothing  *)
(* learned inside the window is forgotten, nothing contiguous is held      *)
(* back, the end of the stream is signalled with its last byte.            *)
Contract ==
  INSTANCE ReassemblyContract
    WITH known <- 0..reassembler.base_index - 1 \cup PendingBytes,
         pushed <- BytesPushed(output),
         popped <- BytesPopped(output),
         ended <- reassembler.eof,
         closed <- IsClosed(output)

ImplementsContract == Contract!CSpec

(* If every byte keeps being offered and the application keeps reading,    *)
(* the whole stream is delivered and its end reported.                     *)
EventuallyDelivered ==
  <>(IsFinished(output) /\ BytesPopped(output) = StreamLength)

=============================================================================
