-------------------------- MODULE ConnectionProofs --------------------------
(***************************************************************************)
(* ConnectionSpec keeps NoBusyWait, for every input, capacity, size of the *)
(* local sockets and number of faults, whether or not a FIN arrives early. *)
(***************************************************************************)
EXTENDS ConnectionSpec, OperatorLemmas

(* What there is on both sides and between them. *)
ByteStreams == {s \in StreamStates : /\ Len(s.stream) <= s.capacity_
                                     /\ s.bytes_write = s.bytes_read + Len(s.stream)}

Pipes == [bytes : Seq(Byte), room : Nat, shut : BOOLEAN]

\* What is in flight is only a number here: that it is the length of the outstanding
\* messages is a matter of TCPSenderProofs.
Senders ==
  [isn_ : SequenceNumber,
   send_messages_ : Seq(SenderMessages), outstanding_messages_ : Seq(SenderMessages),
   next_abs_seqno_ : Nat, sequence_numbers_in_flight_ : Int,
   consecutive_retransmissions_ : Nat, retransmission_timeout_ : Nat,
   receiver_window_size_ : Nat, receiver_window_space_ : Nat,
   time_elapsed_ : Nat, syn : BOOLEAN, fin : BOOLEAN, free_window : BOOLEAN]

ReassemblersOf(size) ==
  [base_index : Nat, unassembled_size : Int, size : {size},
   buffer : [0..size-1 -> Byte \cup {Empty}], eof : BOOLEAN, initialized : BOOLEAN]

Reassemblers == UNION {ReassemblersOf(size) : size \in Nat}

Peers == [sender_ : Senders, receiver_ : ReceiverStates, reassembler_ : Reassemblers,
          outbound_stream_ : ByteStreams, inbound_stream_ : ByteStreams,
          need_send_ : BOOLEAN]

Addresses == {AddressOf[h] : h \in Host}
               \cup {ListenAddress, Stranger, [ip |-> AnyAddress, port |-> 0]}

Datagrams == [src : Addresses, dst : Addresses, segment : TCPSegment]

Adapters == [source : Addresses, destination : Addresses, listening : BOOLEAN]

TcpRules == {Receive, PushOut, ReadIn, Send}

CopyRules == {ReadInput, WriteSocket, ReadSocket, WriteOutput}

StreamCopies ==
  [copy_rules : Seq(CopyRules), outbound : ByteStreams, inbound : ByteStreams,
   outbound_shutdown : BOOLEAN, inbound_shutdown : BOOLEAN,
   input_eof : BOOLEAN, socket_eof : BOOLEAN, input : Pipes, output : Pipes]

\* No event loop has thrown.
Sockets ==
  [copy : StreamCopies, tcp : Peers, adapter : Adapters, tcp_rules : Seq(TcpRules),
   outgoing_segments_ : Seq(TCPSegment), outbound_shutdown : BOOLEAN,
   inbound_shutdown : BOOLEAN, abort : BOOLEAN, thread_eof : BOOLEAN,
   to_thread : Pipes, to_owner : Pipes,
   tun_in : Seq(Datagrams), tun_out : Seq(Datagrams), failed : {"no", "SIGPIPE"}]

\* The inductive invariant.
Inv == socket \in [Host -> Sockets]

-----------------------------------------------------------------------------
(* Sequences that are cut. *)
LEMMA Cut ==
  ASSUME NEW S, NEW q \in Seq(S), NEW n \in 0..Len(q)
  PROVE  /\ Len(q) \in Nat
         /\ SubSeq(q, 1, n) \in Seq(S) /\ Len(SubSeq(q, 1, n)) = n
         /\ SubSeq(q, n + 1, Len(q)) \in Seq(S)
         /\ Len(SubSeq(q, n + 1, Len(q))) = Len(q) - n
<1>1. Len(q) \in Nat
  BY LenProperties
<1>2. \A i \in 1..Len(q) : q[i] \in S
  BY <1>1, ElementOfSeq
<1>3. /\ SubSeq(q, 1, n) \in Seq(S)
      /\ Len(SubSeq(q, 1, n)) = IF 1 <= n THEN n - 1 + 1 ELSE 0
  BY <1>1, <1>2, SubSeqProperties
<1>4. /\ SubSeq(q, n + 1, Len(q)) \in Seq(S)
      /\ Len(SubSeq(q, n + 1, Len(q)))
            = IF n + 1 <= Len(q) THEN Len(q) - (n + 1) + 1 ELSE 0
  BY <1>1, <1>2, SubSeqProperties
<1>5. QED
  BY <1>1, <1>3, <1>4

(* The methods of a stream. *)
LEMMA StreamParts ==
  ASSUME NEW s \in ByteStreams
  PROVE  /\ s \in StreamStates /\ s.stream \in Seq(Byte) /\ Len(s.stream) \in Nat
         /\ s.capacity_ \in Nat /\ s.bytes_read \in Nat /\ s.bytes_write \in Nat
         /\ s.error_ \in BOOLEAN /\ s.close_ \in BOOLEAN
         /\ Len(s.stream) <= s.capacity_ /\ s.bytes_write = s.bytes_read + Len(s.stream)
         /\ BytesBuffered(s) = Len(s.stream)
         /\ AvailableCapacity(s) \in Nat
         /\ IsFinished(s) \in BOOLEAN /\ HasError(s) \in BOOLEAN /\ IsClosed(s) \in BOOLEAN
<1>1. /\ s \in StreamStates /\ s.stream \in Seq(Byte)
      /\ s.capacity_ \in Nat /\ s.bytes_read \in Nat /\ s.bytes_write \in Nat
      /\ s.error_ \in BOOLEAN /\ s.close_ \in BOOLEAN
      /\ Len(s.stream) <= s.capacity_ /\ s.bytes_write = s.bytes_read + Len(s.stream)
  BY DEF ByteStreams, StreamStates
<1>2. Len(s.stream) \in Nat
  BY <1>1, LenProperties
<1>3. BytesBuffered(s) = Len(s.stream) /\ AvailableCapacity(s) \in Nat
  BY <1>1, <1>2 DEF BytesBuffered, AvailableCapacity
<1>4. IsFinished(s) \in BOOLEAN /\ HasError(s) \in BOOLEAN /\ IsClosed(s) \in BOOLEAN
  BY <1>1 DEF IsFinished, HasError, IsClosed
<1>5. QED
  BY <1>1, <1>2, <1>3, <1>4

LEMMA NewCounted ==
  ASSUME NEW capacity \in Nat
  PROVE  NewByteStream(capacity) \in ByteStreams
BY DEF NewByteStream, ByteStreams, StreamStates, Byte

LEMMA PushCounted ==
  ASSUME NEW s \in ByteStreams, NEW data \in Seq(Byte)
  PROVE  Push(s, data) \in ByteStreams
<1> DEFINE n == Lesser(Len(data), AvailableCapacity(s))
           taken == SubSeq(data, 1, n)
           bytes == s.stream \o taken
           written == s.bytes_write + n
<1>1. /\ s.stream \in Seq(Byte) /\ s.bytes_read \in Nat /\ s.bytes_write \in Nat
      /\ s.capacity_ \in Nat /\ s \in StreamStates
      /\ s.bytes_write = s.bytes_read + Len(s.stream)
      /\ Len(s.stream) <= s.capacity_ /\ Len(s.stream) \in Nat
  BY StreamParts
<1>2. Len(data) \in Nat
  BY LenProperties
<1>3. n \in 0..Len(data) /\ n <= s.capacity_ - Len(s.stream)
  BY <1>1, <1>2 DEF Lesser, AvailableCapacity
<1>4. Push(s, data) = [s EXCEPT !.stream = bytes, !.bytes_write = written]
  BY DEF Push
<1> HIDE DEF n
<1>5. taken \in Seq(Byte) /\ Len(taken) = n
  BY <1>3, Cut
<1> HIDE DEF taken
<1>6. bytes \in Seq(Byte) /\ Len(bytes) = Len(s.stream) + n
  BY <1>1, <1>5, ConcatProperties
<1> HIDE DEF bytes
<1>7. /\ written \in Nat /\ written = s.bytes_read + Len(bytes)
      /\ Len(bytes) <= s.capacity_
  <2>1. /\ s.bytes_read \in Nat /\ s.bytes_write \in Nat /\ s.capacity_ \in Nat
        /\ s.bytes_write = s.bytes_read + Len(s.stream) /\ Len(s.stream) \in Nat
        /\ n \in Nat /\ n <= s.capacity_ - Len(s.stream)
        /\ Len(bytes) = Len(s.stream) + n
    BY <1>1, <1>2, <1>3, <1>6
  <2>2. QED
    BY <2>1, SMTT(60)
<1> HIDE DEF written
<1>8. Push(s, data) \in StreamStates
  BY <1>1, <1>4, <1>6, <1>7, Zenon DEF StreamStates
<1>9. /\ Push(s, data).stream = bytes
      /\ Push(s, data).bytes_write = written
      /\ Push(s, data).bytes_read = s.bytes_read
      /\ Push(s, data).capacity_ = s.capacity_
  BY <1>1, <1>4 DEF StreamStates
<1>10. QED
  BY <1>7, <1>8, <1>9 DEF ByteStreams

LEMMA PopCounted ==
  ASSUME NEW s \in ByteStreams, NEW len \in Nat
  PROVE  Pop(s, len) \in ByteStreams
<1> DEFINE rest == SubSeq(s.stream, len + 1, Len(s.stream))
           read == s.bytes_read + len
<1>1. /\ s.stream \in Seq(Byte) /\ s.bytes_read \in Nat /\ s.bytes_write \in Nat
      /\ s.capacity_ \in Nat /\ s \in StreamStates
      /\ s.bytes_write = s.bytes_read + Len(s.stream)
      /\ Len(s.stream) <= s.capacity_ /\ Len(s.stream) \in Nat
  BY StreamParts
<1>2. CASE len > Len(s.stream)
  <2>1. Pop(s, len) = [s EXCEPT !.error_ = TRUE]
    BY <1>2 DEF Pop
  <2>2. Pop(s, len) \in StreamStates
    BY <1>1, <2>1, Zenon DEF StreamStates
  <2>3. /\ Pop(s, len).stream = s.stream
        /\ Pop(s, len).bytes_write = s.bytes_write
        /\ Pop(s, len).bytes_read = s.bytes_read
        /\ Pop(s, len).capacity_ = s.capacity_
    BY <1>1, <2>1 DEF StreamStates
  <2>4. QED
    BY <1>1, <2>2, <2>3 DEF ByteStreams
<1>3. CASE ~(len > Len(s.stream))
  <2>1. rest \in Seq(Byte) /\ Len(rest) = Len(s.stream) - len
    BY <1>1, <1>3, Cut
  <2>2. Pop(s, len) = [s EXCEPT !.stream = rest, !.bytes_read = read]
    BY <1>3 DEF Pop
  <2> HIDE DEF rest
  <2>3. /\ read \in Nat /\ s.bytes_write = read + Len(rest)
        /\ Len(rest) <= s.capacity_
    <3>1. /\ s.bytes_read \in Nat /\ s.capacity_ \in Nat
          /\ s.bytes_write = s.bytes_read + Len(s.stream) /\ Len(s.stream) \in Nat
          /\ Len(s.stream) <= s.capacity_ /\ Len(rest) = Len(s.stream) - len
      BY <1>1, <2>1
    <3>2. QED
      BY <3>1
  <2> HIDE DEF read
  <2>4. Pop(s, len) \in StreamStates
    BY <1>1, <2>1, <2>2, <2>3, Zenon DEF StreamStates
  <2>5. /\ Pop(s, len).stream = rest
        /\ Pop(s, len).bytes_read = read
        /\ Pop(s, len).bytes_write = s.bytes_write
        /\ Pop(s, len).capacity_ = s.capacity_
    BY <1>1, <2>2 DEF StreamStates
  <2>6. QED
    BY <2>3, <2>4, <2>5 DEF ByteStreams
<1>4. QED
  BY <1>2, <1>3

LEMMA ReadCounted ==
  ASSUME NEW s \in ByteStreams, NEW len \in Nat
  PROVE  Read(s, len) \in ByteStreams /\ ReadOut(s, len) \in Seq(Byte)
<1> DEFINE n == Lesser(len, BytesBuffered(s))
<1>1. s.stream \in Seq(Byte) /\ BytesBuffered(s) = Len(s.stream) /\ Len(s.stream) \in Nat
  BY StreamParts
<1>2. n \in 0..Len(s.stream)
  BY <1>1 DEF Lesser
<1>3. ReadOut(s, len) = SubSeq(s.stream, 1, n) /\ Read(s, len) = Pop(s, n)
  BY DEF ReadOut, Read
<1> HIDE DEF n
<1>4. n \in Nat /\ SubSeq(s.stream, 1, n) \in Seq(Byte)
  BY <1>1, <1>2, Cut
<1>5. QED
  BY <1>3, <1>4, PopCounted

LEMMA FlagCounted ==
  ASSUME NEW s \in ByteStreams
  PROVE  Close(s) \in ByteStreams /\ SetError(s) \in ByteStreams
<1>1. /\ s \in StreamStates /\ Len(s.stream) <= s.capacity_
      /\ s.bytes_write = s.bytes_read + Len(s.stream)
  BY StreamParts
<1>2. Close(s) \in StreamStates /\ SetError(s) \in StreamStates
  BY <1>1, Zenon DEF Close, SetError, StreamStates
<1>3. /\ Close(s).stream = s.stream /\ SetError(s).stream = s.stream
      /\ Close(s).capacity_ = s.capacity_ /\ SetError(s).capacity_ = s.capacity_
      /\ Close(s).bytes_read = s.bytes_read /\ SetError(s).bytes_read = s.bytes_read
      /\ Close(s).bytes_write = s.bytes_write /\ SetError(s).bytes_write = s.bytes_write
  BY <1>1 DEF Close, SetError, StreamStates
<1>4. QED
  BY <1>1, <1>2, <1>3 DEF ByteStreams

-----------------------------------------------------------------------------
(* Pipes. *)
LEMMA PipeParts ==
  ASSUME NEW p \in Pipes
  PROVE  /\ p.bytes \in Seq(Byte) /\ Len(p.bytes) \in Nat /\ p.room \in Nat
         /\ p.shut \in BOOLEAN /\ AtEof(p) \in BOOLEAN
<1>1. p.bytes \in Seq(Byte) /\ p.room \in Nat /\ p.shut \in BOOLEAN
  BY DEF Pipes
<1>2. QED
  BY <1>1, LenProperties DEF AtEof

LEMMA NewPiped ==
  ASSUME NEW room \in Nat
  PROVE  NewPipe(room) \in Pipes
BY DEF NewPipe, Pipes

LEMMA ReadPiped ==
  ASSUME NEW p \in Pipes, NEW n \in Nat
  PROVE  ReadBytes(p, n) \in Seq(Byte) /\ AfterRead(p, n) \in Pipes
<1> DEFINE k == Lesser(n, Len(p.bytes))
           rest == SubSeq(p.bytes, k + 1, Len(p.bytes))
<1>1. p.bytes \in Seq(Byte) /\ Len(p.bytes) \in Nat
  BY PipeParts
<1>2. k \in 0..Len(p.bytes)
  BY <1>1 DEF Lesser
<1>3. ReadBytes(p, n) = SubSeq(p.bytes, 1, k) /\ AfterRead(p, n) = [p EXCEPT !.bytes = rest]
  BY DEF ReadBytes, AfterRead
<1> HIDE DEF k
<1>4. SubSeq(p.bytes, 1, k) \in Seq(Byte) /\ rest \in Seq(Byte)
  BY <1>1, <1>2, Cut
<1> HIDE DEF rest
<1>5. QED
  BY <1>3, <1>4 DEF Pipes

(* A pipe that is written to takes something, if there is anything. *)
LEMMA WritePiped ==
  ASSUME NEW p \in Pipes, Writable(p), NEW data \in Seq(Byte)
  PROVE  /\ BytesWritten(p, data) \in Nat
         /\ AfterWrite(p, data) \in Pipes
         /\ Len(data) > 0 => Len(AfterWrite(p, data).bytes) > Len(p.bytes)
<1> DEFINE n == BytesWritten(p, data)
           taken == SubSeq(data, 1, n)
           bytes == p.bytes \o taken
<1>1. p.bytes \in Seq(Byte) /\ Len(p.bytes) \in Nat /\ p.room \in Nat /\ Len(data) \in Nat
  BY PipeParts, LenProperties
<1>2. n \in 0..Len(data) /\ (Len(data) > 0 => n > 0)
  BY <1>1 DEF BytesWritten, Writable, Lesser
<1>3. AfterWrite(p, data) = [p EXCEPT !.bytes = bytes]
  BY DEF AfterWrite
<1>4. n = BytesWritten(p, data)
  OBVIOUS
<1> HIDE DEF n
<1>5. taken \in Seq(Byte) /\ Len(taken) = n
  BY <1>2, Cut
<1> HIDE DEF taken
<1>6. bytes \in Seq(Byte) /\ Len(bytes) = Len(p.bytes) + n
  BY <1>1, <1>5, ConcatProperties
<1> HIDE DEF bytes
<1>7. AfterWrite(p, data) \in Pipes /\ AfterWrite(p, data).bytes = bytes
  BY <1>3, <1>6 DEF Pipes
<1>8. QED
  BY <1>1, <1>2, <1>4, <1>6, <1>7

LEMMA ShutPiped ==
  ASSUME NEW p \in Pipes
  PROVE  Shutdown(p) \in Pipes /\ Shutdown(p).bytes = p.bytes
BY DEF Shutdown, Pipes

-----------------------------------------------------------------------------
(* The reassembler. *)
LEMMA ReassemblerParts ==
  ASSUME NEW r \in Reassemblers
  PROVE  \E size \in Nat :
           /\ r \in ReassemblersOf(size) /\ r.size = size
           /\ r.base_index \in Nat /\ r.unassembled_size \in Int
           /\ r.buffer \in [0..size - 1 -> Byte \cup {Empty}]
           /\ r.eof \in BOOLEAN /\ r.initialized \in BOOLEAN
<1>1. PICK size \in Nat : r \in ReassemblersOf(size)
  BY DEF Reassemblers
<1>2. QED
  BY <1>1 DEF ReassemblersOf

LEMMA InitializedTyped ==
  ASSUME NEW r \in Reassemblers, NEW output, AvailableCapacity(output) \in Nat
  PROVE  Initialized(r, output) \in Reassemblers
<1> DEFINE avail == AvailableCapacity(output)
           buffer == [o \in 0..avail - 1 |-> Empty]
<1>1. CASE r.initialized
  BY <1>1 DEF Initialized
<1>2. CASE ~r.initialized
  <2>1. Initialized(r, output) = [r EXCEPT !.size = avail, !.buffer = buffer,
                                           !.initialized = TRUE]
    BY <1>2 DEF Initialized
  <2>2. buffer \in [0..avail - 1 -> Byte \cup {Empty}] /\ avail \in Nat
    OBVIOUS
  <2> HIDE DEF buffer, avail
  <2>3. PICK size \in Nat : r \in ReassemblersOf(size)
    BY ReassemblerParts
  <2>4. Initialized(r, output) \in ReassemblersOf(avail)
    BY <2>1, <2>2, <2>3 DEF ReassemblersOf
  <2>5. QED
    BY <2>2, <2>4 DEF Reassemblers
<1>3. QED
  BY <1>1, <1>2

(* An offset that is written to has its byte in the substring. *)
LEMMA OffsetsInData ==
  ASSUME NEW r \in Reassemblers, NEW output, AvailableCapacity(output) \in Nat,
         NEW first \in Nat, NEW n \in Nat,
         NEW o \in Offsets(r, first, n, output)
  PROVE  o \in Int /\ o + r.base_index - first + 1 \in 1..n
<1> DEFINE avail == AvailableCapacity(output)
           base == r.base_index
           len == WindowLength(r, first, n, output)
<1>1. base \in Nat /\ r.size \in Nat /\ avail \in Nat /\ Word64 \in Nat
  BY ReassemblerParts, Word64Assumption
<1>2. CASE first > base
  <2>1. o \in first - base..first - base + Lesser(len, n) - 1
    BY <1>2 DEF Offsets
  <2>2. len \in Int
    BY <1>1 DEF WindowLength, Difference64, Lesser, Greater
  <2> HIDE DEF len, base
  <2>3. Lesser(len, n) \in Int /\ Lesser(len, n) <= n
    BY <2>2 DEF Lesser
  <2>4. o \in Int /\ o + base - first + 1 \in 1..n
    BY <1>1, <2>1, <2>3
  <2>5. QED
    BY <2>4 DEF base
<1>3. CASE ~(first > base) /\ first + n > base
  <2>1. o \in 0..Lesser(len, r.size) - 1
    BY <1>3 DEF Offsets
  <2>2. len = Lesser(base + avail, first + n) - base
    BY <1>1, <1>3 DEF WindowLength, Difference64, Lesser, Greater
  <2> HIDE DEF len, base, avail
  <2>3. len \in Int /\ len <= first + n - base
    BY <1>1, <1>3, <2>2 DEF Lesser
  <2>4. Lesser(len, r.size) \in Int /\ Lesser(len, r.size) <= len
    BY <1>1, <2>3 DEF Lesser
  <2>5. o \in Int /\ o + base - first + 1 \in 1..n
    BY <1>1, <1>3, <2>1, <2>3, <2>4
  <2>6. QED
    BY <2>5 DEF base
<1>4. CASE ~(first > base) /\ ~(first + n > base)
  BY <1>4 DEF Offsets
<1>5. QED
  BY <1>2, <1>3, <1>4

LEMMA StoredTyped ==
  ASSUME NEW r \in Reassemblers, NEW first, NEW data, NEW at,
         \A o \in at : data[o + r.base_index - first + 1] \in Byte
  PROVE  Stored(r, first, data, at) \in Reassemblers
<1> DEFINE fresh  == {o \in at \cap (0..r.size - 1) : r.buffer[o] = Empty}
           buffer == [o \in 0..r.size - 1 |-> IF o \in fresh
                                               THEN data[o + r.base_index - first + 1]
                                               ELSE r.buffer[o]]
           count == r.unassembled_size + Cardinality(fresh)
<1>1. PICK size \in Nat :
        /\ r \in ReassemblersOf(size) /\ r.size = size /\ r.unassembled_size \in Int
        /\ r.buffer \in [0..size - 1 -> Byte \cup {Empty}]
  BY ReassemblerParts
<1>2. Cardinality(fresh) \in Nat
  <2>1. IsFiniteSet(0..size - 1) /\ fresh \subseteq 0..size - 1
    BY <1>1, FS_Interval
  <2> HIDE DEF fresh
  <2>2. QED
    BY <2>1, FS_Subset, FS_CardinalityType
<1>3. buffer \in [0..size - 1 -> Byte \cup {Empty}]
  BY <1>1
<1>4. count \in Int
  <2> HIDE DEF fresh
  <2>1. QED
    BY <1>1, <1>2
<1>5. Stored(r, first, data, at) = [r EXCEPT !.buffer = buffer, !.unassembled_size = count]
  BY DEF Stored
<1> HIDE DEF buffer, count
<1>6. Stored(r, first, data, at) \in ReassemblersOf(size)
  BY <1>1, <1>3, <1>4, <1>5 DEF ReassemblersOf
<1>7. QED
  BY <1>6 DEF Reassemblers

LEMMA ShiftedTyped ==
  ASSUME NEW r \in Reassemblers, NEW cnt \in Nat, NEW eof \in BOOLEAN
  PROVE  [Shifted(r, cnt) EXCEPT !.eof = eof] \in Reassemblers
<1> DEFINE buffer == [o \in 0..r.size - 1 |->
                        IF o + cnt < r.size THEN r.buffer[o + cnt] ELSE Empty]
           count == r.unassembled_size - cnt
           base == r.base_index + cnt
<1>1. PICK size \in Nat :
        /\ r \in ReassemblersOf(size) /\ r.size = size
        /\ r.unassembled_size \in Int /\ r.base_index \in Nat
        /\ r.buffer \in [0..size - 1 -> Byte \cup {Empty}]
  BY ReassemblerParts
<1>2. buffer \in [0..size - 1 -> Byte \cup {Empty}] /\ count \in Int /\ base \in Nat
  BY <1>1
<1>3. Shifted(r, cnt) = [r EXCEPT !.buffer = buffer, !.unassembled_size = count,
                                  !.base_index = base]
  BY DEF Shifted
<1> HIDE DEF buffer, count, base
<1>4. [Shifted(r, cnt) EXCEPT !.eof = eof] \in ReassemblersOf(size)
  BY <1>1, <1>2, <1>3 DEF ReassemblersOf
<1>5. QED
  BY <1>4 DEF Reassemblers

LEMMA InsertTyped ==
  ASSUME NEW r \in Reassemblers, NEW first \in Nat, NEW data \in Seq(Byte),
         NEW last \in BOOLEAN, NEW output \in ByteStreams
  PROVE  /\ Insert(r, first, data, last, output).reassembler \in Reassemblers
         /\ Insert(r, first, data, last, output).output \in ByteStreams
<1> DEFINE opened == Initialized(r, output)
           at     == Offsets(opened, first, Len(data), output)
           stored == Stored(opened, first, data, at)
           cnt    == Assembled(stored)
           eof    == r.eof \/ last
           after  == [Shifted(stored, cnt) EXCEPT !.eof = eof]
           pushed == Push(output, AssembledBytes(stored, cnt))
<1>1. Insert(r, first, data, last, output) =
        [reassembler |-> after,
         output |-> IF after.unassembled_size = 0 /\ eof THEN Close(pushed) ELSE pushed]
  BY Zenon DEF Insert
<1>2. AvailableCapacity(output) \in Nat /\ Len(data) \in Nat
  BY StreamParts, LenProperties
<1>3. opened \in Reassemblers
  BY <1>2, InitializedTyped
<1>4. eof \in BOOLEAN
  BY ReassemblerParts
<1> HIDE DEF opened, eof
<1>5. stored \in Reassemblers
  <2>1. ASSUME NEW o \in at
        PROVE  data[o + opened.base_index - first + 1] \in Byte
    <3>1. o + opened.base_index - first + 1 \in 1..Len(data)
      BY <1>2, <1>3, OffsetsInData
    <3>2. QED
      BY <3>1, ElementOfSeq
  <2> HIDE DEF at
  <2>2. QED
    BY <1>3, <2>1, StoredTyped
<1> HIDE DEF stored
<1>6. PICK size \in Nat :
        stored.size = size /\ stored.buffer \in [0..size - 1 -> Byte \cup {Empty}]
  BY <1>5, ReassemblerParts
<1>7. cnt \in 0..size /\ \A o \in 0..cnt - 1 : stored.buffer[o] # Empty
  BY <1>6, AssembledFound DEF PendingOf
<1> HIDE DEF cnt
<1>8. AssembledBytes(stored, cnt) \in Seq(Byte)
  <2>1. ASSUME NEW k \in 1..cnt
        PROVE  stored.buffer[k - 1] \in Byte
    <3>1. k - 1 \in 0..cnt - 1 /\ k - 1 \in 0..size - 1
      BY <1>7
    <3>2. QED
      BY <1>6, <1>7, <3>1
  <2>2. AssembledBytes(stored, cnt) \in [1..cnt -> Byte]
    BY <2>1 DEF AssembledBytes
  <2>3. QED
    BY <1>7, <2>2, SeqDef
<1>9. pushed \in ByteStreams
  BY <1>8, PushCounted
<1>10. after \in Reassemblers
  BY <1>4, <1>5, <1>7, ShiftedTyped
<1> HIDE DEF pushed, after
<1>11. Close(pushed) \in ByteStreams
  BY <1>9, FlagCounted
<1>12. QED
  BY <1>1, <1>9, <1>10, <1>11

-----------------------------------------------------------------------------
(* Sequence numbers. *)
LEMMA WrapTyped ==
  ASSUME NEW zero \in SequenceNumber, NEW n \in Nat
  PROVE  Wrap(n, zero) \in SequenceNumber
<1> DEFINE x == zero + n
<1>1. x \in Int /\ Word32 \in Nat \ {0}
  BY Word32Assumption DEF SequenceNumber
<1> HIDE DEF x
<1>2. x % Word32 \in 0..Word32 - 1
  BY <1>1
<1>3. QED
  BY <1>2 DEF x, Wrap, Advanced, SequenceNumber

LEMMA RemainderBelow ==
  ASSUME NEW x \in Nat, NEW m \in Nat \ {0}
  PROVE  x % m \in Nat /\ x % m <= x
<1> DEFINE q == x \div m
           r == x % m
           p == m * q
<1>1. q \in Nat /\ r \in 0..m - 1 /\ x = m * q + r
  OBVIOUS
<1>2. p \in Nat /\ r \in Nat /\ x = p + r
  <2> HIDE DEF q, r
  <2>1. QED
    BY <1>1
<1> HIDE DEF p, r
<1>3. r \in Nat /\ r <= x
  BY <1>2
<1>4. QED
  BY <1>3 DEF r

LEMMA UnwrapTyped ==
  ASSUME NEW zero \in SequenceNumber, NEW seqno \in SequenceNumber, NEW at \in Nat
  PROVE  Unwrap(seqno, zero, at) \in Nat
<1> DEFINE tmp == Offset32(seqno, zero)
           up  == (tmp - at) % Word32
           down == (at - tmp) % Word32
<1>1. Word32 \in Nat \ {0} /\ Word64 \in Nat \ {0} /\ Word32 <= Word64
  BY Word32Assumption, Word64Assumption, WidthAssumption
<1>2. tmp \in Nat
  BY <1>1 DEF Offset32, SequenceNumber
<1> HIDE DEF tmp
<1>3. up \in Nat /\ (tmp < at => down \in Nat /\ down <= at - tmp)
  <2>1. \A x \in Int : x % Word32 \in Nat
    BY <1>1
  <2>2. up \in Nat /\ down \in Nat
    BY <1>2, <2>1
  <2>3. ASSUME tmp < at
        PROVE  down <= at - tmp
    <3> DEFINE x == at - tmp
    <3>1. x \in Nat
      BY <1>2, <2>3
    <3> HIDE DEF x
    <3>2. x % Word32 <= x
      BY <1>1, <3>1, RemainderBelow
    <3>3. QED
      BY <3>2 DEF x
  <2>4. QED
    BY <2>2, <2>3
<1> DEFINE near  == IF tmp >= at THEN at + up ELSE at - down
           other == IF tmp >= at THEN Difference64(near, Word32) ELSE Sum64(near, Word32)
<1> HIDE DEF up, down
<1>4. near \in Nat
  BY <1>2, <1>3
<1>5. other \in Nat
  <2> HIDE DEF near
  <2>1. \A x \in Int : x % Word64 \in Nat
    BY <1>1
  <2>2. Difference64(near, Word32) \in Nat
    BY <1>1, <1>4 DEF Difference64
  <2>3. Sum64(near, Word32) \in Nat
    BY <1>1, <1>4, <2>1 DEF Sum64
  <2>4. QED
    BY <2>2, <2>3
<1>6. Unwrap(seqno, zero, at) \in {other, near}
  BY Zenon DEF Unwrap, tmp, up, down
<1>7. QED
  BY <1>4, <1>5, <1>6


-----------------------------------------------------------------------------
(* The loops that the model writes as functions on numbers. *)
LEMMA IteratesBack ==
  ASSUME NEW f, NEW S, NEW step \in [S -> S], NEW x, Iterates(f, S, step, x), NEW k \in Nat
  PROVE  /\ k = 0 => f[k] = x
         /\ k # 0 => f[k - 1] \in S /\ f[k] = step[f[k - 1]]
<1>1. CASE k = 0
  BY <1>1 DEF Iterates
<1>2. CASE k # 0
  <2>1. k - 1 \in Nat /\ (k - 1) + 1 = k
    BY <1>2
  <2>2. QED
    BY <1>2, <2>1 DEF Iterates
<1>3. QED
  BY <1>1, <1>2

LEMMA StaysIn ==
  ASSUME NEW f, NEW S, f[0] \in S,
         \A k \in Nat \ {0} : f[k - 1] \in S => f[k] \in S
  PROVE  \A n \in Nat : f[n] \in S
<1> DEFINE T == {k \in Nat : f[k] \notin S}
<1>1. CASE T = {}
  BY <1>1
<1>2. CASE T # {}
  <2>1. PICK m \in T : \A k \in T : m <= k
    <3>1. T \in SUBSET Nat
      OBVIOUS
    <3> HIDE DEF T
    <3>2. QED
      BY <1>2, <3>1, LeastNumber
  <2>2. m \in Nat /\ f[m] \notin S /\ m # 0
    OBVIOUS
  <2>3. m - 1 \in Nat /\ ~(m <= m - 1)
    BY <2>2
  <2>4. m - 1 \notin T
    BY <2>1, <2>3
  <2>5. f[m - 1] \in S
    BY <2>3, <2>4
  <2>6. QED
    BY <2>2, <2>5
<1>3. QED
  BY <1>1, <1>2

-----------------------------------------------------------------------------
(* Messages. *)
LEMMA LengthInNat ==
  ASSUME NEW message \in SenderMessages
  PROVE  SequenceLength(message) \in Nat
<1> DEFINE first == IF message.SYN THEN 1 ELSE 0
           last  == IF message.FIN THEN 1 ELSE 0
<1>1. Len(message.payload) \in Nat
  BY DEF SenderMessages
<1>2. first \in Nat /\ last \in Nat
  OBVIOUS
<1>3. SequenceLength(message) = first + Len(message.payload) + last
  BY DEF SequenceLength
<1> HIDE DEF first, last
<1>4. QED
  BY <1>1, <1>2, <1>3

LEMMA PeerParts ==
  ASSUME NEW p \in Peers
  PROVE  /\ p.sender_ \in Senders /\ p.receiver_ \in ReceiverStates
         /\ p.reassembler_ \in Reassemblers
         /\ p.outbound_stream_ \in ByteStreams /\ p.inbound_stream_ \in ByteStreams
         /\ p.need_send_ \in BOOLEAN
BY DEF Peers

LEMMA ReceiverMessageTyped ==
  ASSUME NEW p \in Peers
  PROVE  ReceiverMessage(p) \in ReceiverMessages
<1> DEFINE r == p.receiver_
           in == p.inbound_stream_
           last == LastAck(r, in)
           window == Lesser(AvailableCapacity(in), Word16 - 1)
<1>1. /\ r \in ReceiverStates /\ r.isn \in SequenceNumber /\ r.syn \in BOOLEAN
      /\ AvailableCapacity(in) \in Nat /\ in.bytes_write \in Nat
  BY PeerParts, StreamParts DEF ReceiverStates
<1>2. last \in Nat
  <2> DEFINE fin == IF r.fin /\ IsClosed(in) THEN 1 ELSE 0
  <2>1. last = in.bytes_write + 1 + fin
    BY DEF LastAck, BytesPushed
  <2>2. fin \in Nat
    OBVIOUS
  <2> HIDE DEF fin, last
  <2>3. QED
    BY <1>1, <2>1, <2>2
<1>3. Wrap(last, r.isn) \in SequenceNumber
  BY <1>1, <1>2, WrapTyped
<1>4. window \in 0..Word16 - 1
  BY <1>1, Word16Assumption DEF Lesser
<1>5. ReceiverMessage(p) = [ackno |-> IF r.syn THEN Wrap(last, r.isn) ELSE Nullopt,
                            window_size |-> window]
  BY DEF ReceiverMessage, ReceiverSend
<1> HIDE DEF last, window
<1>6. QED
  BY <1>3, <1>4, <1>5 DEF ReceiverMessages

-----------------------------------------------------------------------------
(* The sender. *)
LEMMA SenderParts ==
  ASSUME NEW s \in Senders
  PROVE  /\ s.isn_ \in SequenceNumber
         /\ s.send_messages_ \in Seq(SenderMessages)
         /\ s.outstanding_messages_ \in Seq(SenderMessages)
         /\ Len(s.outstanding_messages_) \in Nat
         /\ s.next_abs_seqno_ \in Nat /\ s.sequence_numbers_in_flight_ \in Int
         /\ s.consecutive_retransmissions_ \in Nat /\ s.retransmission_timeout_ \in Nat
         /\ s.receiver_window_size_ \in Nat /\ s.receiver_window_space_ \in Nat
         /\ s.time_elapsed_ \in Nat
         /\ s.syn \in BOOLEAN /\ s.fin \in BOOLEAN /\ s.free_window \in BOOLEAN
         /\ NextSeqno(s) \in SequenceNumber
<1>1. /\ s.isn_ \in SequenceNumber /\ s.next_abs_seqno_ \in Nat
      /\ s.outstanding_messages_ \in Seq(SenderMessages)
  BY DEF Senders
<1>2. NextSeqno(s) \in SequenceNumber /\ Len(s.outstanding_messages_) \in Nat
  BY <1>1, WrapTyped, LenProperties DEF NextSeqno
<1>3. QED
  BY <1>2 DEF Senders

LEMMA NewSenderTyped ==
  ASSUME NEW isn \in SequenceNumber
  PROVE  NewSender(isn) \in Senders
<1>1. << >> \in Seq(SenderMessages) /\ InitialRTO \in Nat
  BY EmptySeq, InitialRTOAssumption
<1>2. QED
  BY <1>1 DEF NewSender, Senders

LEMMA Difference16Typed ==
  ASSUME NEW a, NEW b, a \in Int, b \in Int
  PROVE  Difference16(a, b) \in Nat
<1> DEFINE x == a - b
<1>1. x \in Int /\ Word16 \in Nat \ {0}
  BY Word16Assumption
<1> HIDE DEF x
<1>2. x % Word16 \in Nat
  BY <1>1
<1>3. QED
  BY <1>2 DEF x, Difference16

LEMMA UpdateStatusTyped ==
  ASSUME NEW s \in Senders, NEW message \in SenderMessages
  PROVE  UpdateStatus(s, message) \in Senders
<1> DEFINE length == SequenceLength(message)
           next   == s.next_abs_seqno_ + length
           flight == s.sequence_numbers_in_flight_ + length
           space  == Difference16(s.receiver_window_space_, length)
           sent   == Append(s.send_messages_, message)
           out    == Append(s.outstanding_messages_, message)
<1>1. length \in Nat /\ next \in Nat /\ flight \in Int /\ space \in Nat
  <2>1. length \in Nat
    BY LengthInNat
  <2>2. /\ s.next_abs_seqno_ \in Nat /\ s.sequence_numbers_in_flight_ \in Int
        /\ s.receiver_window_space_ \in Int
    BY SenderParts
  <2> HIDE DEF length
  <2>3. space \in Nat
    <3>1. length \in Int
      BY <2>1
    <3>2. QED
      BY <2>2, <3>1, Difference16Typed, Zenon
  <2> HIDE DEF space
  <2>4. QED
    BY <2>1, <2>2, <2>3
<1>2. sent \in Seq(SenderMessages) /\ out \in Seq(SenderMessages)
  BY SenderParts, AppendProperties
<1>3. UpdateStatus(s, message) =
        [s EXCEPT !.next_abs_seqno_ = next, !.sequence_numbers_in_flight_ = flight,
                  !.receiver_window_space_ = space, !.send_messages_ = sent,
                  !.outstanding_messages_ = out]
  BY DEF UpdateStatus
<1> HIDE DEF length, next, flight, space, sent, out
<1>4. QED
  BY <1>1, <1>2, <1>3 DEF Senders

LEMMA PushSynTyped ==
  ASSUME NEW s \in Senders, NEW b \in ByteStreams
  PROVE  PushSyn(s, b) \in Senders
<1> DEFINE message == SynMessage(s, b)
           length == SequenceLength(message)
           next   == s.next_abs_seqno_ + length
           flight == s.sequence_numbers_in_flight_ + length
           space  == Difference16(s.receiver_window_space_, 1)
           sent   == Append(s.send_messages_, message)
           out    == Append(s.outstanding_messages_, message)
<1>1. message \in SenderMessages
  <2>1. << >> \in Seq(Byte) /\ IsFinished(b) \in BOOLEAN /\ NextSeqno(s) \in SequenceNumber
    BY StreamParts, SenderParts, EmptySeq
  <2>2. QED
    BY <2>1 DEF SynMessage, SenderMessages
<1>2. message.FIN \in BOOLEAN
  BY <1>1 DEF SenderMessages
<1> HIDE DEF message
<1>3. length \in Nat /\ next \in Nat /\ flight \in Int /\ space \in Nat
  <2>1. length \in Nat
    BY <1>1, LengthInNat
  <2>2. /\ s.next_abs_seqno_ \in Nat /\ s.sequence_numbers_in_flight_ \in Int
        /\ s.receiver_window_space_ \in Int
    BY SenderParts
  <2>3. space \in Nat
    <3>1. 1 \in Int
      OBVIOUS
    <3>2. QED
      BY <2>2, <3>1, Difference16Typed, Zenon
  <2> HIDE DEF length, space
  <2>4. QED
    BY <2>1, <2>2, <2>3
<1>4. sent \in Seq(SenderMessages) /\ out \in Seq(SenderMessages)
  BY <1>1, SenderParts, AppendProperties
<1>5. PushSyn(s, b) =
        [s EXCEPT !.syn = TRUE, !.fin = message.FIN,
                  !.next_abs_seqno_ = next, !.sequence_numbers_in_flight_ = flight,
                  !.receiver_window_space_ = space, !.send_messages_ = sent,
                  !.outstanding_messages_ = out]
  BY DEF PushSyn, message
<1> HIDE DEF length, next, flight, space, sent, out
<1>6. QED
  BY <1>2, <1>3, <1>4, <1>5 DEF Senders

LEMMA PushSegmentTyped ==
  ASSUME NEW s \in Senders, NEW b \in ByteStreams
  PROVE  /\ PushSegment(s, b).sender \in Senders
         /\ PushSegment(s, b).outbound \in ByteStreams
         /\ PushSegment(s, b) = [sender |-> PushSegment(s, b).sender,
                                 outbound |-> PushSegment(s, b).outbound]
<1> DEFINE opened  == IF ZeroWindow(s)
                      THEN [s EXCEPT !.receiver_window_size_ = 1,
                                     !.receiver_window_space_ = 1,
                                     !.free_window = TRUE]
                      ELSE s
           size    == Lesser(Lesser(BytesBuffered(b), opened.receiver_window_space_),
                             MaxPayloadSize)
           rest    == Read(b, size)
           fin     == IsFinished(rest) /\ opened.receiver_window_space_ > size
           message == [seqno |-> NextSeqno(s), SYN |-> FALSE,
                       payload |-> ReadOut(b, size), FIN |-> fin]
           flagged == [opened EXCEPT !.fin = @ \/ fin]
<1>1. PushSegment(s, b) = [sender |-> UpdateStatus(flagged, message), outbound |-> rest]
  BY DEF PushSegment
<1>2. opened \in Senders
  BY DEF Senders
<1> HIDE DEF opened
<1>3. size \in Nat
  <2>1. BytesBuffered(b) \in Nat /\ opened.receiver_window_space_ \in Nat
    BY <1>2, StreamParts, SenderParts
  <2>2. QED
    BY <2>1, MaxPayloadSizeAssumption DEF Lesser
<1> HIDE DEF size
<1>4. rest \in ByteStreams /\ ReadOut(b, size) \in Seq(Byte)
  BY <1>3, ReadCounted
<1> HIDE DEF rest
<1>5. fin \in BOOLEAN
  BY <1>4, StreamParts
<1> HIDE DEF fin
<1>6. message \in SenderMessages
  BY <1>4, <1>5, SenderParts DEF SenderMessages
<1>7. flagged \in Senders
  BY <1>2, <1>5 DEF Senders
<1> HIDE DEF message, flagged
<1>8. UpdateStatus(flagged, message) \in Senders
  BY <1>6, <1>7, UpdateStatusTyped
<1>9. QED
  BY <1>1, <1>4, <1>8

(* The while loop, round by round. *)
LEMMA PushSegmentsTyped ==
  ASSUME NEW s \in Senders, NEW b \in ByteStreams
  PROVE  /\ PushSegments(s, b).sender \in Senders
         /\ PushSegments(s, b).outbound \in ByteStreams
<1> DEFINE S == [sender : Senders, outbound : ByteStreams]
           after(r) == IF MoreToSend(r.sender, r.outbound)
                       THEN PushSegment(r.sender, r.outbound) ELSE r
           start == [sender |-> s, outbound |-> b]
           Rounds(f) == f = [k \in Nat |->
                               IF k = 0 THEN start
                               ELSE LET before == f[k - 1]
                                    IN  IF MoreToSend(before.sender, before.outbound)
                                        THEN PushSegment(before.sender, before.outbound)
                                        ELSE before]
           Round == CHOOSE f : Rounds(f)
           step  == [r \in S |-> after(r)]
<1>1. PushSegments(s, b) = Round[BytesBuffered(b)]
  BY Zenon DEF PushSegments
<1>2. BytesBuffered(b) \in Nat
  BY StreamParts
<1>3. start \in S
  OBVIOUS
<1>4. ASSUME NEW r \in S
      PROVE  after(r) \in S
  <2>1. r.sender \in Senders /\ r.outbound \in ByteStreams
    OBVIOUS
  <2>2. PushSegment(r.sender, r.outbound) \in S
    BY <2>1, PushSegmentTyped
  <2> HIDE DEF S
  <2>3. QED
    BY <2>2
<1> HIDE DEF S, start
<1>5. step \in [S -> S]
  <2> HIDE DEF after
  <2>1. QED
    BY <1>4
<1>6. ASSUME NEW f, Iterates(f, S, step, start)
      PROVE  Rounds(f)
  <2>1. ASSUME NEW k \in Nat
        PROVE  f[k] = IF k = 0 THEN start ELSE after(f[k - 1])
    <3>1. CASE k = 0
      BY <1>5, <1>6, <3>1, IteratesBack
    <3>2. CASE k # 0
      <4>1. f[k - 1] \in S /\ f[k] = step[f[k - 1]]
        <5> HIDE DEF step
        <5>1. QED
          BY <1>5, <1>6, <3>2, IteratesBack
      <4> HIDE DEF after
      <4>2. QED
        BY <3>2, <4>1 DEF step
    <3>3. QED
      BY <3>1, <3>2
  <2>2. f = [k \in Nat |-> f[k]]
    BY <1>6 DEF Iterates
  <2> HIDE DEF after
  <2>3. f = [k \in Nat |-> IF k = 0 THEN start ELSE after(f[k - 1])]
    BY <2>1, <2>2
  <2>4. QED
    BY <2>3, Zenon DEF after
<1>7. PICK f : Iterates(f, S, step, start)
  <2> HIDE DEF step
  <2>1. QED
    BY <1>3, <1>5, Iterated
<1>8. Rounds(Round)
  BY <1>6, <1>7, Zenon
<1> HIDE DEF Round
<1>9. /\ Round[0] = start
      /\ \A k \in Nat \ {0} : Round[k] = after(Round[k - 1])
  <2>1. Round = [k \in Nat |-> IF k = 0 THEN start ELSE after(Round[k - 1])]
    BY <1>8, Zenon
  <2> HIDE DEF after
  <2>2. QED
    BY <2>1
<1>10. \A k \in Nat : Round[k] \in S
  <2> HIDE DEF after
  <2>1. QED
    BY <1>3, <1>4, <1>9, StaysIn
<1>11. PushSegments(s, b) \in S
  BY <1>1, <1>2, <1>10
<1>12. QED
  BY <1>11 DEF S

LEMMA FinMessageTyped ==
  ASSUME NEW s \in Senders
  PROVE  FinMessage(s) \in SenderMessages /\ SendEmptyMessage(s) \in SenderMessages
<1>1. << >> \in Seq(Byte) /\ NextSeqno(s) \in SequenceNumber
  BY SenderParts, EmptySeq
<1>2. QED
  BY <1>1 DEF FinMessage, SendEmptyMessage, SenderMessages

LEMMA SenderPushTyped ==
  ASSUME NEW s \in Senders, NEW b \in ByteStreams
  PROVE  /\ SenderPush(s, b).sender \in Senders
         /\ SenderPush(s, b).outbound \in ByteStreams
<1> DEFINE same  == [sender |-> s, outbound |-> b]
           syn   == [sender |-> PushSyn(s, b), outbound |-> b]
           ended == [s EXCEPT !.fin = TRUE]
           fin   == [sender |-> UpdateStatus(ended, FinMessage(s)), outbound |-> b]
<1>1. SenderPush(s, b) \in {same, syn, PushSegments(s, b), fin}
  BY Zenon DEF SenderPush
<1>2. PushSyn(s, b) \in Senders
  BY PushSynTyped
<1>3. UpdateStatus(ended, FinMessage(s)) \in Senders
  <2>1. ended \in Senders
    BY DEF Senders
  <2> HIDE DEF ended
  <2>2. QED
    BY <2>1, FinMessageTyped, UpdateStatusTyped
<1>4. PushSegments(s, b).sender \in Senders /\ PushSegments(s, b).outbound \in ByteStreams
  BY PushSegmentsTyped
<1> HIDE DEF ended
<1>5. QED
  BY <1>1, <1>2, <1>3, <1>4

LEMMA AfterMaybeSendTyped ==
  ASSUME NEW s \in Senders, s.send_messages_ # << >>
  PROVE  MaybeSendMessage(s) \in SenderMessages /\ AfterMaybeSend(s) \in Senders
<1> DEFINE rest == Tail(s.send_messages_)
<1>1. s.send_messages_ \in Seq(SenderMessages)
  BY SenderParts
<1>2. Head(s.send_messages_) \in SenderMessages /\ rest \in Seq(SenderMessages)
  BY <1>1, HeadTailProperties
<1> HIDE DEF rest
<1>3. AfterMaybeSend(s) = [s EXCEPT !.send_messages_ = rest]
  BY DEF AfterMaybeSend, rest
<1>4. QED
  BY <1>2, <1>3 DEF MaybeSendMessage, Senders

LEMMA SenderTickTyped ==
  ASSUME NEW s \in Senders, NEW ms \in Nat
  PROVE  SenderTick(s, ms) \in Senders
<1> DEFINE first  == s.outstanding_messages_[1]
           sent   == Append(s.send_messages_, first)
           resent == [s EXCEPT !.send_messages_ = sent, !.time_elapsed_ = 0]
           later  == s.time_elapsed_ + ms
<1>1. /\ later \in Nat
      /\ s.outstanding_messages_ \in Seq(SenderMessages)
      /\ s.send_messages_ \in Seq(SenderMessages)
  <2>1. /\ s.time_elapsed_ \in Nat
        /\ s.outstanding_messages_ \in Seq(SenderMessages)
        /\ s.send_messages_ \in Seq(SenderMessages)
    BY SenderParts
  <2>2. QED
    BY <2>1
<1>2. CASE s.outstanding_messages_ = << >>
  BY <1>2 DEF SenderTick
<1>3. CASE s.outstanding_messages_ # << >> /\ Expires(s, ms)
  <2>1. first \in SenderMessages
    <3>1. Len(s.outstanding_messages_) > 0
      BY <1>1, <1>3, EmptySeq, LenProperties
    <3>2. 1 \in 1..Len(s.outstanding_messages_)
      BY <1>1, <3>1, LenProperties
    <3>3. QED
      BY <1>1, <3>2, ElementOfSeq
  <2>2. sent \in Seq(SenderMessages)
    BY <1>1, <2>1, AppendProperties
  <2>3. SenderTick(s, ms) = Retransmit(s)
    BY <1>3 DEF SenderTick
  <2>4. Retransmit(s) = IF BacksOff(s)
                        THEN [resent EXCEPT !.consecutive_retransmissions_ = @ + 1,
                                            !.retransmission_timeout_ = @ * 2]
                        ELSE resent
    BY DEF Retransmit
  <2> HIDE DEF sent
  <2>5. resent \in Senders
    BY <2>2 DEF Senders
  <2>6. /\ resent.consecutive_retransmissions_ + 1 \in Nat
        /\ resent.retransmission_timeout_ * 2 \in Nat
    <3> HIDE DEF resent
    <3>1. /\ resent.consecutive_retransmissions_ \in Nat
          /\ resent.retransmission_timeout_ \in Nat
      BY <2>5, SenderParts
    <3>2. QED
      BY <3>1
  <2> HIDE DEF resent
  <2>7. [resent EXCEPT !.consecutive_retransmissions_ = @ + 1,
                       !.retransmission_timeout_ = @ * 2] \in Senders
    <3> DEFINE a == resent.consecutive_retransmissions_ + 1
               c == resent.retransmission_timeout_ * 2
    <3>1. [resent EXCEPT !.consecutive_retransmissions_ = @ + 1,
                         !.retransmission_timeout_ = @ * 2]
            = [resent EXCEPT !.consecutive_retransmissions_ = a,
                             !.retransmission_timeout_ = c]
      OBVIOUS
    <3>2. a \in Nat /\ c \in Nat
      BY <2>6
    <3> HIDE DEF a, c
    <3>3. QED
      BY <2>5, <3>1, <3>2 DEF Senders
  <2>8. QED
    BY <2>3, <2>4, <2>5, <2>7
<1>4. CASE s.outstanding_messages_ # << >> /\ ~Expires(s, ms)
  <2>1. SenderTick(s, ms) = [s EXCEPT !.time_elapsed_ = later]
    BY <1>4 DEF SenderTick
  <2> HIDE DEF later
  <2>2. QED
    BY <1>1, <2>1 DEF Senders
<1>5. QED
  BY <1>2, <1>3, <1>4

(* Where an outstanding message ends. *)
LEMMA EndAbsTyped ==
  ASSUME NEW s \in Senders, NEW i \in 1..Len(s.outstanding_messages_)
  PROVE  EndAbs(s, s.outstanding_messages_[i]) \in Nat
<1> DEFINE message == s.outstanding_messages_[i]
<1>1. message \in SenderMessages
  BY SenderParts, ElementOfSeq
<1>2. message.seqno \in SequenceNumber
  BY <1>1 DEF SenderMessages
<1>3. FirstAbs(s, message) \in Nat
  BY <1>2, SenderParts, UnwrapTyped DEF FirstAbs, AbsSeqno
<1>4. SequenceLength(message) \in Nat
  BY <1>1, LengthInNat
<1> HIDE DEF message
<1>5. EndAbs(s, message) \in Nat
  BY <1>3, <1>4 DEF EndAbs
<1>6. QED
  BY <1>5 DEF message

(* The loop that looks for the first message not covered stops somewhere.  *)
LEMMA AckedMessagesFound ==
  ASSUME NEW s \in Senders, NEW abs_ackno \in Nat
  PROVE  AckedMessages(s, abs_ackno) \in 0..Len(s.outstanding_messages_)
<1> DEFINE out == s.outstanding_messages_
           n   == Len(out)
           end(i) == EndAbs(s, out[i])
           Stops(idx) == /\ \A i \in 1..idx : end(i) <= abs_ackno
                         /\ idx < n => end(idx + 1) > abs_ackno
           T == {k \in Nat : k < n /\ end(k + 1) > abs_ackno}
<1>1. n \in Nat /\ \A i \in 1..n : end(i) \in Nat
  BY SenderParts, EndAbsTyped
<1> HIDE DEF n, end
<1>2. \E idx \in 0..n : Stops(idx)
  <2>1. CASE T = {}
    <3>1. ASSUME NEW i \in 1..n
          PROVE  end(i) <= abs_ackno
      <4>1. i - 1 \in Nat /\ i - 1 < n /\ (i - 1) + 1 = i
        BY <1>1
      <4>2. i - 1 \notin T
        BY <2>1
      <4>3. ~(end(i) > abs_ackno)
        BY <4>1, <4>2
      <4>4. QED
        BY <1>1, <4>3
    <3>2. n \in 0..n /\ Stops(n)
      BY <1>1, <3>1
    <3>3. QED
      BY <3>2
  <2>2. CASE T # {}
    <3>1. PICK m \in T : \A k \in T : m <= k
      <4>1. T \in SUBSET Nat
        OBVIOUS
      <4> HIDE DEF T
      <4>2. QED
        BY <2>2, <4>1, LeastNumber
    <3>2. m \in Nat /\ m < n /\ end(m + 1) > abs_ackno /\ m \in 0..n
      BY <1>1
    <3>3. ASSUME NEW i \in 1..m
          PROVE  end(i) <= abs_ackno
      <4>1. /\ i - 1 \in Nat /\ i - 1 < n /\ (i - 1) + 1 = i /\ ~(m <= i - 1)
            /\ i \in 1..n
        BY <1>1, <3>2
      <4>2. i - 1 \notin T
        BY <3>1, <4>1
      <4>3. ~(end(i) > abs_ackno)
        BY <4>1, <4>2
      <4>4. QED
        BY <1>1, <4>1, <4>3
    <3>4. Stops(m)
      BY <3>2, <3>3
    <3>5. QED
      BY <3>2, <3>4
  <2>3. QED
    BY <2>1, <2>2
<1>3. AckedMessages(s, abs_ackno) = CHOOSE idx \in 0..n : Stops(idx)
  BY Zenon DEF AckedMessages, n, end
<1>4. AckedMessages(s, abs_ackno) \in 0..n
  <2> HIDE DEF Stops
  <2>1. QED
    BY <1>2, <1>3, Zenon
<1>5. QED
  BY <1>4 DEF n

-----------------------------------------------------------------------------
(* Folds.  The library's FoldLeft chooses a function on the sets of        *)
(* indexes; it has to be shown that there is one.                          *)
(* Induction: a set of numbers from 0 to n that holds 0 and with each but  *)
(* the last the next one holds all.                                        *)
LEMMA UpTo ==
  ASSUME NEW n \in Nat, NEW T, 0 \in T,
         \A k \in 0..n - 1 : k \in T => k + 1 \in T
  PROVE  \A k \in 0..n : k \in T
<1> DEFINE Missing == {k \in Nat : k <= n /\ k \notin T}
<1>1. CASE Missing = {}
  BY <1>1
<1>2. CASE Missing # {}
  <2>1. PICK m \in Missing : \A k \in Missing : m <= k
    <3>1. Missing \in SUBSET Nat
      OBVIOUS
    <3> HIDE DEF Missing
    <3>2. QED
      BY <1>2, <3>1, LeastNumber
  <2>2. m \in Nat /\ m <= n /\ m \notin T /\ m # 0
    OBVIOUS
  <2>3. m - 1 \in 0..n - 1 /\ m - 1 \notin Missing /\ (m - 1) + 1 = m
    BY <2>1, <2>2
  <2>4. m - 1 \in T
    BY <2>2, <2>3
  <2>5. QED
    BY <2>2, <2>3, <2>4
<1>3. QED
  BY <1>1, <1>2

LEMMA MaxOf ==
  ASSUME NEW n \in Nat, NEW s \in SUBSET (1..n), s # {}
  PROVE  Max(s) \in s /\ \A i \in s : i <= Max(s)
<1> DEFINE T == {n - i : i \in s}
<1>1. T \in SUBSET Nat /\ T # {}
  <2>1. \A i \in s : i \in 1..n /\ n - i \in Nat
    OBVIOUS
  <2>2. QED
    BY <2>1
<1>2. PICK m \in T : \A k \in T : m <= k
  <2> HIDE DEF T
  <2>1. QED
    BY <1>1, LeastNumber
<1>3. PICK i \in s : m = n - i
  OBVIOUS
<1>4. \A j \in s : i >= j
  <2>1. ASSUME NEW j \in s
        PROVE  i >= j
    <3>1. n - j \in T
      OBVIOUS
    <3>2. m <= n - j
      BY <1>2, <3>1
    <3>3. QED
      BY <1>3, <3>2
  <2>2. QED
    BY <2>1
<1>5. Max(s) \in s /\ \A j \in s : Max(s) >= j
  BY <1>4 DEF Max
<1>6. QED
  BY <1>5

FoldsOver(it, n, S, base, step) ==
  /\ it \in [SUBSET (1..n) -> S]
  /\ it[{}] = base
  /\ \A s \in SUBSET (1..n) :
       s # {} => it[s] = step[<<it[s \ {Max(s)}], Max(s)>>]

LEMMA FoldExists ==
  ASSUME NEW n \in Nat, NEW S, NEW base \in S, NEW step \in [S \X (1..n) -> S]
  PROVE  \E it : FoldsOver(it, n, S, base, step)
<1> DEFINE T == {m \in 0..n : \E it : FoldsOver(it, m, S, base, step)}
<1>1. 0 \in T
  <2> DEFINE it == [s \in SUBSET (1..0) |-> base]
  <2>1. \A s \in SUBSET (1..0) : s = {}
    OBVIOUS
  <2>2. {} \in SUBSET (1..0)
    OBVIOUS
  <2>3. it \in [SUBSET (1..0) -> S] /\ it[{}] = base
    BY <2>2
  <2> HIDE DEF it
  <2>4. FoldsOver(it, 0, S, base, step)
    BY <2>1, <2>3 DEF FoldsOver
  <2>5. 0 \in 0..n
    OBVIOUS
  <2>6. QED
    BY <2>4, <2>5
<1>2. ASSUME NEW m \in 0..n - 1, m \in T
      PROVE  m + 1 \in T
  <2>1. PICK it : FoldsOver(it, m, S, base, step)
    BY <1>2
  <2>2. it \in [SUBSET (1..m) -> S] /\ it[{}] = base
    BY <2>1 DEF FoldsOver
  <2> DEFINE new == [s \in SUBSET (1..m + 1) |->
                       IF m + 1 \in s THEN step[<<it[s \ {m + 1}], m + 1>>] ELSE it[s]]
  <2>3. m \in Nat /\ m + 1 \in 1..n /\ m + 1 \in 0..n
    OBVIOUS
  <2>4. \A s \in SUBSET (1..m + 1) :
          /\ s \ {m + 1} \in SUBSET (1..m)
          /\ m + 1 \notin s => s \in SUBSET (1..m)
    BY <2>3
  <2>5. new \in [SUBSET (1..m + 1) -> S]
    <3>1. ASSUME NEW s \in SUBSET (1..m + 1)
          PROVE  new[s] \in S
      <4>1. CASE m + 1 \in s
        <5>1. it[s \ {m + 1}] \in S
          BY <2>2, <2>4
        <5>2. <<it[s \ {m + 1}], m + 1>> \in S \X (1..n)
          BY <2>3, <5>1
        <5>3. QED
          BY <4>1, <5>2
      <4>2. CASE m + 1 \notin s
        BY <2>2, <2>4, <4>2
      <4>3. QED
        BY <4>1, <4>2
    <3>2. QED
      BY <3>1
  <2>6. new[{}] = base
    BY <2>2
  <2>7. ASSUME NEW s \in SUBSET (1..m + 1), s # {}
        PROVE  new[s] = step[<<new[s \ {Max(s)}], Max(s)>>]
    <3>1. Max(s) \in s /\ \A i \in s : i <= Max(s)
      <4>1. m + 1 \in Nat
        BY <2>3
      <4>2. QED
        BY <2>7, <4>1, MaxOf
    <3>2. s \ {Max(s)} \in SUBSET (1..m + 1)
      OBVIOUS
    <3>3. CASE m + 1 \in s
      <4>1. Max(s) = m + 1
        <5>1. Max(s) \in 1..m + 1 /\ m + 1 <= Max(s)
          BY <3>1, <3>3
        <5>2. QED
          BY <2>3, <5>1
      <4>2. new[s \ {m + 1}] = it[s \ {m + 1}]
        BY <3>2, <4>1
      <4>3. QED
        BY <3>3, <4>1, <4>2
    <3>4. CASE m + 1 \notin s
      <4>1. s \in SUBSET (1..m) /\ m + 1 \notin s \ {Max(s)}
        BY <2>4, <3>4
      <4>2. new[s] = it[s] /\ new[s \ {Max(s)}] = it[s \ {Max(s)}]
        BY <3>2, <3>4, <4>1
      <4>3. it[s] = step[<<it[s \ {Max(s)}], Max(s)>>]
        BY <2>1, <2>7, <4>1 DEF FoldsOver
      <4>4. QED
        BY <4>2, <4>3
    <3>5. QED
      BY <3>3, <3>4
  <2> HIDE DEF new
  <2>8. FoldsOver(new, m + 1, S, base, step)
    BY <2>5, <2>6, <2>7 DEF FoldsOver
  <2>9. QED
    BY <2>3, <2>8
<1>3. \A m \in 0..n : m \in T
  <2> HIDE DEF T
  <2>1. QED
    BY <1>1, <1>2, UpTo
<1>4. QED
  BY <1>3

(* The value of a fold is reached through the values for its first indexes. *)
LEMMA FoldPrefix ==
  ASSUME NEW k \in Nat
  PROVE  /\ 1..0 = {} /\ 1..k + 1 # {} /\ Max(1..k + 1) = k + 1
         /\ (1..k + 1) \ {Max(1..k + 1)} = 1..k
<1>1. 1..k + 1 \in SUBSET (1..k + 1) /\ k + 1 \in 1..k + 1 /\ k + 1 \in Nat
  OBVIOUS
<1>2. Max(1..k + 1) \in 1..k + 1 /\ \A i \in 1..k + 1 : i <= Max(1..k + 1)
  BY <1>1, MaxOf
<1>3. Max(1..k + 1) = k + 1
  BY <1>1, <1>2
<1>4. QED
  BY <1>3

(* A function with the values of a fold stays in the set the fold is in.   *)
LEMMA FoldStays ==
  ASSUME NEW n \in Nat, NEW S, NEW base \in S, NEW step \in [S \X (1..n) -> S],
         NEW F, F[{}] = base,
         \A s \in SUBSET (1..n) : s # {} /\ F[s \ {Max(s)}] \in S
                                    => F[s] = step[<<F[s \ {Max(s)}], Max(s)>>]
  PROVE  F[1..n] \in S
<1> DEFINE T == {k \in 0..n : F[1..k] \in S}
<1>1. 0 \in T
  <2>1. 1..0 = {} /\ 0 \in 0..n
    OBVIOUS
  <2>2. QED
    BY <2>1
<1>2. ASSUME NEW k \in 0..n - 1, k \in T
      PROVE  k + 1 \in T
  <2>1. /\ k \in Nat /\ k + 1 \in 1..n /\ k + 1 \in 0..n
        /\ 1..k + 1 \in SUBSET (1..n)
    OBVIOUS
  <2>2. /\ 1..k + 1 # {} /\ Max(1..k + 1) = k + 1
        /\ (1..k + 1) \ {Max(1..k + 1)} = 1..k
    BY <2>1, FoldPrefix
  <2>3. F[1..k] \in S
    BY <1>2
  <2>4. F[1..k + 1] = step[<<F[1..k], k + 1>>]
    BY <2>1, <2>2, <2>3
  <2>5. <<F[1..k], k + 1>> \in S \X (1..n)
    BY <2>1, <2>3
  <2>6. F[1..k + 1] \in S
    BY <2>4, <2>5
  <2>7. QED
    BY <2>1, <2>6
<1>3. n \in T
  <2> HIDE DEF T
  <2>1. n \in 0..n
    OBVIOUS
  <2>2. QED
    BY <1>1, <1>2, <2>1, UpTo
<1>4. QED
  BY <1>3

-----------------------------------------------------------------------------
(* Acknowledgments. *)
LEMMA LengthOfAllTyped ==
  ASSUME NEW messages \in Seq(SenderMessages)
  PROVE  LengthOfAll(messages) \in Int
<1> DEFINE n == Len(messages)
           step == [p \in Int \X (1..n) |-> p[1] + SequenceLength(messages[p[2]])]
           Sums(f) == f = [i \in 0..n |-> IF i = 0 THEN 0
                                          ELSE f[i - 1] + SequenceLength(messages[i])]
           sum == CHOOSE f : Sums(f)
<1>1. LengthOfAll(messages) = sum[n]
  BY DEF LengthOfAll
<1>2. n \in Nat /\ \A i \in 1..n : SequenceLength(messages[i]) \in Nat
  BY LenProperties, ElementOfSeq, LengthInNat
<1> HIDE DEF n
<1>3. step \in [Int \X (1..n) -> Int]
  BY <1>2
<1>4. PICK it : FoldsOver(it, n, Int, 0, step)
  <2> HIDE DEF step
  <2>1. 0 \in Int
    OBVIOUS
  <2>2. QED
    BY <1>2, <1>3, <2>1, FoldExists
<1> DEFINE w == [i \in 0..n |-> it[1..i]]
<1>5. \A i \in 0..n : it[1..i] \in Int
  <2>1. \A i \in 0..n : 1..i \in SUBSET (1..n)
    BY <1>2
  <2>2. QED
    BY <1>4, <2>1 DEF FoldsOver
<1>6. Sums(w)
  <2>1. ASSUME NEW i \in 0..n
        PROVE  w[i] = IF i = 0 THEN 0 ELSE w[i - 1] + SequenceLength(messages[i])
    <3>1. CASE i = 0
      <4>1. 1..0 = {} /\ it[{}] = 0
        BY <1>4 DEF FoldsOver
      <4>2. QED
        BY <3>1, <4>1
    <3>2. CASE i # 0
      <4> DEFINE k == i - 1
      <4>1. k \in Nat /\ k + 1 = i /\ i \in 1..n /\ k \in 0..n
        BY <1>2, <3>2
      <4> HIDE DEF k
      <4>2. 1..i # {} /\ Max(1..i) = i /\ (1..i) \ {Max(1..i)} = 1..k
        BY <4>1, FoldPrefix
      <4>3. 1..i \in SUBSET (1..n)
        BY <1>2, <4>1
      <4>4. it[1..i] = step[<<it[1..k], i>>]
        <5>1. it[1..i] = step[<<it[(1..i) \ {Max(1..i)}], Max(1..i)>>]
          BY <1>4, <4>2, <4>3 DEF FoldsOver
        <5> HIDE DEF step
        <5>2. QED
          BY <4>2, <5>1
      <4>5. it[1..k] \in Int
        BY <1>5, <4>1
      <4>6. it[1..i] = it[1..k] + SequenceLength(messages[i])
        BY <4>1, <4>4, <4>5
      <4>7. w[i] = it[1..i] /\ w[i - 1] = it[1..k] /\ i # 0
        BY <3>2, <4>1 DEF k
      <4> HIDE DEF w
      <4>8. QED
        BY <4>6, <4>7
    <3>3. QED
      BY <3>1, <3>2
  <2> DEFINE v == [i \in 0..n |-> IF i = 0 THEN 0
                                  ELSE w[i - 1] + SequenceLength(messages[i])]
  <2>2. \A i \in 0..n : w[i] = v[i]
    <3> HIDE DEF w
    <3>1. QED
      BY <2>1
  <2>3. w = v
    BY <2>2
  <2>4. QED
    BY <2>3
<1>7. Sums(sum)
  <2> HIDE DEF Sums, w
  <2>1. QED
    BY <1>6
<1> HIDE DEF sum, w
<1>8. sum[0] = 0 /\ \A i \in 1..n : sum[i] = sum[i - 1] + SequenceLength(messages[i])
  BY <1>2, <1>7
<1> DEFINE T == {i \in 0..n : sum[i] \in Int}
<1>9. 0 \in T /\ \A k \in 0..n - 1 : k \in T => k + 1 \in T
  <2>1. 0 \in T
    BY <1>2, <1>8
  <2>2. ASSUME NEW k \in 0..n - 1, k \in T
        PROVE  k + 1 \in T
    <3>1. k + 1 \in 1..n /\ (k + 1) - 1 = k /\ k + 1 \in 0..n
      BY <1>2
    <3>2. sum[k + 1] = sum[k] + SequenceLength(messages[k + 1])
      BY <1>8, <3>1
    <3>3. sum[k] \in Int /\ SequenceLength(messages[k + 1]) \in Nat
      BY <1>2, <2>2, <3>1
    <3>4. QED
      BY <3>1, <3>2, <3>3
  <2>3. QED
    BY <2>1, <2>2
<1>10. n \in T
  <2> HIDE DEF T
  <2>1. n \in 0..n
    BY <1>2
  <2>2. QED
    BY <1>2, <1>9, <2>1, UpTo
<1>11. QED
  BY <1>1, <1>10

LEMMA AcknowledgeTyped ==
  ASSUME NEW s \in Senders, NEW idx \in 0..Len(s.outstanding_messages_), NEW window \in Nat
  PROVE  Acknowledge(s, idx, window) \in Senders
<1> DEFINE out == s.outstanding_messages_
           first == SubSeq(out, 1, idx)
           rest == SubSeq(out, idx + 1, Len(out))
           flight == s.sequence_numbers_in_flight_ - LengthOfAll(first)
           space == Greater(window - flight, 0)
           released == [s EXCEPT !.receiver_window_size_ = window,
                                 !.receiver_window_space_ = space,
                                 !.free_window = FALSE,
                                 !.sequence_numbers_in_flight_ = flight]
           restarted == [released EXCEPT !.time_elapsed_ = 0,
                                         !.retransmission_timeout_ = InitialRTO,
                                         !.consecutive_retransmissions_ = 0,
                                         !.outstanding_messages_ = rest]
<1>1. /\ out \in Seq(SenderMessages) /\ s.sequence_numbers_in_flight_ \in Int
  BY SenderParts
<1>2. first \in Seq(SenderMessages) /\ rest \in Seq(SenderMessages)
  BY <1>1, Cut
<1>3. LengthOfAll(first) \in Int
  <2> HIDE DEF first
  <2>1. QED
    BY <1>2, LengthOfAllTyped
<1>4. flight \in Int
  <2> HIDE DEF first
  <2>1. QED
    BY <1>1, <1>3
<1> HIDE DEF flight
<1>5. space \in Nat
  BY <1>4 DEF Greater
<1>6. Acknowledge(s, idx, window) = IF idx = 0 THEN released ELSE restarted
  <2>1. released.outstanding_messages_ = out
    BY DEF Senders
  <2>2. QED
    BY <2>1 DEF Acknowledge, flight
<1> HIDE DEF space, rest
<1>7. released \in Senders
  BY <1>4, <1>5 DEF Senders
<1> HIDE DEF released
<1>8. restarted \in Senders
  BY <1>2, <1>7, InitialRTOAssumption DEF Senders
<1>9. QED
  BY <1>6, <1>7, <1>8

LEMMA SenderReceiveTyped ==
  ASSUME NEW s \in Senders, NEW msg \in ReceiverMessages
  PROVE  SenderReceive(s, msg) \in Senders
<1> DEFINE acked(n) == [idx \in Nat |-> Acknowledge(s, idx, msg.window_size)]
           after == [n \in Nat |-> IF ValidAck(s, n)
                                   THEN acked(n)[AckedMessages(s, n)] ELSE s]
<1>1. msg.ackno \in SequenceNumber \cup {Nullopt} /\ msg.window_size \in Nat
  BY Word16Assumption DEF ReceiverMessages
<1>2. CASE msg.ackno = Nullopt
  BY <1>2 DEF SenderReceive
<1>3. CASE msg.ackno # Nullopt
  <2> DEFINE n == AbsSeqno(s, msg.ackno)
  <2>1. n \in Nat
    BY <1>1, <1>3, SenderParts, UnwrapTyped DEF AbsSeqno
  <2>2. SenderReceive(s, msg) = after[n]
    BY <1>3, Zenon DEF SenderReceive
  <2> HIDE DEF n
  <2>3. AckedMessages(s, n) \in 0..Len(s.outstanding_messages_)
    BY <2>1, AckedMessagesFound
  <2>4. Len(s.outstanding_messages_) \in Nat
    BY SenderParts
  <2>5. /\ AckedMessages(s, n) \in Nat
        /\ Acknowledge(s, AckedMessages(s, n), msg.window_size) \in Senders
    BY <1>1, <2>3, <2>4, AcknowledgeTyped
  <2>6. after[n] = IF ValidAck(s, n)
                   THEN Acknowledge(s, AckedMessages(s, n), msg.window_size) ELSE s
    BY <2>1, <2>5
  <2> HIDE DEF after
  <2>7. QED
    BY <2>2, <2>5, <2>6
<1>4. QED
  BY <1>2, <1>3

-----------------------------------------------------------------------------
(* The receiver and the peer. *)
LEMMA ReceiverReceiveTyped ==
  ASSUME NEW r \in ReceiverStates, NEW message \in SenderMessages,
         NEW reassembler \in Reassemblers, NEW inbound \in ByteStreams
  PROVE  LET received == ReceiverReceive(r, message, reassembler, inbound)
         IN  /\ received.receiver \in ReceiverStates
             /\ received.reassembler \in Reassemblers
             /\ received.inbound \in ByteStreams
<1> DEFINE synced    == Synchronized(r, message)
           abs_seqno == Unwrap(message.seqno, synced.isn, BytesPushed(inbound))
           accepted  == OverlapsWindow(abs_seqno, SequenceLength(message),
                                       LastAck(synced, inbound), AvailableCapacity(inbound))
           idx       == IF abs_seqno >= 1 THEN abs_seqno - 1 ELSE abs_seqno
           fin       == synced.fin \/ message.FIN
           inserted  == Insert(reassembler, idx, message.payload, fin, inbound)
           taken     == [receiver |-> [synced EXCEPT !.fin = fin],
                         reassembler |-> inserted.reassembler,
                         inbound |-> inserted.output]
           refused   == [receiver |-> synced, reassembler |-> reassembler,
                         inbound |-> inbound]
<1>1. ReceiverReceive(r, message, reassembler, inbound) =
        IF synced.syn /\ accepted THEN taken ELSE refused
  BY Zenon DEF ReceiverReceive
<1>2. /\ message.seqno \in SequenceNumber /\ message.payload \in Seq(Byte)
      /\ message.FIN \in BOOLEAN
  BY DEF SenderMessages
<1>3. synced \in ReceiverStates
  BY <1>2 DEF Synchronized, ReceiverStates
<1> HIDE DEF synced, accepted
<1>4. synced.isn \in SequenceNumber /\ synced.fin \in BOOLEAN
  BY <1>3 DEF ReceiverStates
<1>5. BytesPushed(inbound) \in Nat
  BY StreamParts DEF BytesPushed
<1>6. abs_seqno \in Nat
  BY <1>2, <1>4, <1>5, UnwrapTyped
<1> HIDE DEF abs_seqno
<1>7. idx \in Nat /\ fin \in BOOLEAN
  BY <1>2, <1>4, <1>6
<1> HIDE DEF idx, fin
<1>8. inserted.reassembler \in Reassemblers /\ inserted.output \in ByteStreams
  BY <1>2, <1>7, InsertTyped
<1> HIDE DEF inserted
<1>9. [synced EXCEPT !.fin = fin] \in ReceiverStates
  BY <1>3, <1>7 DEF ReceiverStates
<1>10. QED
  BY <1>1, <1>3, <1>8, <1>9

LEMMA NewPeerTyped ==
  ASSUME NEW isn \in SequenceNumber, NEW send \in Nat, NEW recv \in Nat
  PROVE  NewPeer(isn, send, recv) \in Peers
<1>1. /\ NewSender(isn) \in Senders
      /\ NewByteStream(send) \in ByteStreams /\ NewByteStream(recv) \in ByteStreams
  BY NewSenderTyped, NewCounted
<1>2. NewReceiver \in ReceiverStates
  BY Word32Assumption DEF NewReceiver, ReceiverStates, SequenceNumber
<1>3. NewReassembler \in Reassemblers
  <2>1. NewReassembler \in ReassemblersOf(0)
    BY DEF NewReassembler, ReassemblersOf
  <2>2. QED
    BY <2>1 DEF Reassemblers
<1>4. QED
  BY <1>1, <1>2, <1>3 DEF NewPeer, Peers

LEMMA PeerPushTyped ==
  ASSUME NEW p \in Peers
  PROVE  PeerPush(p) \in Peers
<1> DEFINE pushed == SenderPush(p.sender_, p.outbound_stream_)
<1>1. pushed.sender \in Senders /\ pushed.outbound \in ByteStreams
  BY PeerParts, SenderPushTyped
<1>2. PeerPush(p) = [p EXCEPT !.sender_ = pushed.sender, !.outbound_stream_ = pushed.outbound]
  BY DEF PeerPush
<1> HIDE DEF pushed
<1>3. QED
  BY <1>1, <1>2 DEF Peers

LEMMA PeerTickTyped ==
  ASSUME NEW p \in Peers, NEW ms \in Nat
  PROVE  PeerTick(p, ms) \in Peers
<1> DEFINE s == SenderTick(p.sender_, ms)
<1>1. s \in Senders
  BY PeerParts, SenderTickTyped
<1>2. PeerTick(p, ms) = [p EXCEPT !.sender_ = s]
  BY DEF PeerTick
<1> HIDE DEF s
<1>3. QED
  BY <1>1, <1>2 DEF Peers

LEMMA PeerReceiveTyped ==
  ASSUME NEW p \in Peers, NEW seg \in TCPSegment
  PROVE  PeerReceive(p, seg) \in Peers
<1> DEFINE s == SenderReceive(p.sender_, seg.receiver_message)
           need == p.need_send_ \/ NeedsReply(p, seg.sender_message)
           received == ReceiverReceive(p.receiver_, seg.sender_message, p.reassembler_,
                                       p.inbound_stream_)
           failed == SetError(p.inbound_stream_)
<1>1. seg.receiver_message \in ReceiverMessages /\ seg.sender_message \in SenderMessages
  BY DEF TCPSegment
<1>2. CASE seg.reset \/ HasError(p.inbound_stream_)
  <2>1. failed \in ByteStreams
    BY PeerParts, FlagCounted
  <2>2. PeerReceive(p, seg) = [p EXCEPT !.inbound_stream_ = failed]
    BY <1>2 DEF PeerReceive
  <2> HIDE DEF failed
  <2>3. QED
    BY <2>1, <2>2 DEF Peers
<1>3. CASE ~(seg.reset \/ HasError(p.inbound_stream_))
  <2>1. s \in Senders
    BY <1>1, PeerParts, SenderReceiveTyped
  <2>2. need \in BOOLEAN
    BY PeerParts DEF NeedsReply
  <2>3. /\ received.receiver \in ReceiverStates /\ received.reassembler \in Reassemblers
        /\ received.inbound \in ByteStreams
    BY <1>1, PeerParts, ReceiverReceiveTyped
  <2>4. PeerReceive(p, seg) =
          [[p EXCEPT !.sender_ = s, !.need_send_ = need]
             EXCEPT !.receiver_ = received.receiver, !.reassembler_ = received.reassembler,
                    !.inbound_stream_ = received.inbound]
    BY <1>3 DEF PeerReceive, WithReceived
  <2> HIDE DEF s, need, received
  <2>5. QED
    BY <2>1, <2>2, <2>3, <2>4 DEF Peers
<1>4. QED
  BY <1>2, <1>3

LEMMA SendWhatIsQueuedTyped ==
  ASSUME NEW p \in Peers
  PROVE  /\ SendWhatIsQueued(p).peer \in Peers
         /\ SendWhatIsQueued(p).segments \in Seq(TCPSegment)
<1> DEFINE queued  == p.sender_.send_messages_ # << >>
           message == IF queued THEN MaybeSendMessage(p.sender_)
                                ELSE SendEmptyMessage(p.sender_)
           fails   == HasError(p.outbound_stream_) \/ HasError(p.inbound_stream_)
           segment == [sender_message |-> message, receiver_message |-> ReceiverMessage(p),
                       reset |-> fails]
           sender  == IF queued THEN AfterMaybeSend(p.sender_) ELSE p.sender_
<1>1. p.sender_ \in Senders
  BY PeerParts
<1>2. message \in SenderMessages /\ sender \in Senders
  BY <1>1, AfterMaybeSendTyped, FinMessageTyped
<1>3. fails \in BOOLEAN
  BY PeerParts, StreamParts
<1>4. SendWhatIsQueued(p) =
        [peer |-> [p EXCEPT !.need_send_ = FALSE, !.sender_ = sender],
         segments |-> IF queued \/ p.need_send_ THEN <<segment>> ELSE << >>]
  BY DEF SendWhatIsQueued
<1> HIDE DEF message, sender, fails
<1>5. segment \in TCPSegment
  BY <1>2, <1>3, ReceiverMessageTyped DEF TCPSegment
<1> HIDE DEF segment, queued
<1>6. [p EXCEPT !.need_send_ = FALSE, !.sender_ = sender] \in Peers
  BY <1>2 DEF Peers
<1>7. <<segment>> \in Seq(TCPSegment) /\ << >> \in Seq(TCPSegment)
  BY <1>5
<1>8. QED
  BY <1>4, <1>6, <1>7

LEMMA MaybeSendTyped ==
  ASSUME NEW p \in Peers
  PROVE  MaybeSend(p).peer \in Peers /\ MaybeSend(p).segments \in Seq(TCPSegment)
<1> DEFINE q == IF HasAckno(p) THEN PeerPush(p) ELSE p
<1>1. q \in Peers
  BY PeerPushTyped
<1>2. MaybeSend(p) = SendWhatIsQueued(q)
  BY DEF MaybeSend
<1> HIDE DEF q
<1>3. QED
  BY <1>1, <1>2, SendWhatIsQueuedTyped

-----------------------------------------------------------------------------
(* What is collected. *)
LEMMA CollectTyped ==
  ASSUME NEW x, x.tcp \in Peers, x.outgoing_segments_ \in Seq(TCPSegment)
  PROVE  \E peer \in Peers : \E queue \in Seq(TCPSegment) :
           CollectSegments(x) = [x EXCEPT !.tcp = peer, !.outgoing_segments_ = queue]
<1> DEFINE S == [peer : Peers, queue : Seq(TCPSegment), more : BOOLEAN]
           after(r) == Collected(r, MaybeSend(r.peer))
           start == [peer |-> x.tcp, queue |-> x.outgoing_segments_, more |-> TRUE]
           Rounds(f) == f = [n \in Nat |->
                               IF n = 0 THEN start
                               ELSE LET before == f[n - 1]
                                    IN  Collected(before, MaybeSend(before.peer))]
           Round == CHOOSE f : Rounds(f)
           step  == [r \in S |-> after(r)]
           n     == BytesBuffered(x.tcp.outbound_stream_)
                      + Len(x.tcp.sender_.send_messages_) + 3
<1>1. CollectSegments(x) = WithCollected(x, Round[n])
  BY Zenon DEF CollectSegments
<1>2. n \in Nat
  <2>1. BytesBuffered(x.tcp.outbound_stream_) \in Nat
    BY PeerParts, StreamParts
  <2>2. Len(x.tcp.sender_.send_messages_) \in Nat
    BY PeerParts, SenderParts, LenProperties
  <2>3. QED
    BY <2>1, <2>2
<1> HIDE DEF n
<1>3. start \in S
  OBVIOUS
<1>4. ASSUME NEW r \in S
      PROVE  after(r) \in S
  <2> DEFINE sent == MaybeSend(r.peer)
  <2>1. r.peer \in Peers /\ r.queue \in Seq(TCPSegment)
    OBVIOUS
  <2>2. sent.peer \in Peers /\ sent.segments \in Seq(TCPSegment)
    BY <2>1, MaybeSendTyped
  <2> HIDE DEF sent
  <2>3. r.queue \o sent.segments \in Seq(TCPSegment)
    BY <2>1, <2>2, ConcatProperties
  <2>4. Collected(r, sent) \in S
    BY <2>2, <2>3 DEF Collected
  <2> HIDE DEF S
  <2>5. QED
    BY <2>4 DEF sent
<1> HIDE DEF S, start
<1>5. step \in [S -> S]
  <2> HIDE DEF after
  <2>1. QED
    BY <1>4
<1>6. ASSUME NEW f, Iterates(f, S, step, start)
      PROVE  Rounds(f)
  <2>1. ASSUME NEW k \in Nat
        PROVE  f[k] = IF k = 0 THEN start ELSE after(f[k - 1])
    <3>1. CASE k = 0
      BY <1>5, <1>6, <3>1, IteratesBack
    <3>2. CASE k # 0
      <4>1. f[k - 1] \in S /\ f[k] = step[f[k - 1]]
        <5> HIDE DEF step
        <5>1. QED
          BY <1>5, <1>6, <3>2, IteratesBack
      <4> HIDE DEF after
      <4>2. QED
        BY <3>2, <4>1 DEF step
    <3>3. QED
      BY <3>1, <3>2
  <2>2. f = [k \in Nat |-> f[k]]
    BY <1>6 DEF Iterates
  <2> HIDE DEF after
  <2>3. f = [k \in Nat |-> IF k = 0 THEN start ELSE after(f[k - 1])]
    BY <2>1, <2>2
  <2>4. QED
    BY <2>3, Zenon DEF after
<1>7. PICK f : Iterates(f, S, step, start)
  <2> HIDE DEF step
  <2>1. QED
    BY <1>3, <1>5, Iterated
<1>8. Rounds(Round)
  BY <1>6, <1>7, Zenon
<1> HIDE DEF Round
<1>9. /\ Round[0] = start
      /\ \A k \in Nat \ {0} : Round[k] = after(Round[k - 1])
  <2>1. Round = [k \in Nat |-> IF k = 0 THEN start ELSE after(Round[k - 1])]
    BY <1>8, Zenon
  <2> HIDE DEF after
  <2>2. QED
    BY <2>1
<1>10. \A k \in Nat : Round[k] \in S
  <2> HIDE DEF after
  <2>1. QED
    BY <1>3, <1>4, <1>9, StaysIn
<1>11. Round[n].peer \in Peers /\ Round[n].queue \in Seq(TCPSegment)
  BY <1>2, <1>10 DEF S
<1>12. QED
  BY <1>1, <1>11 DEF WithCollected

-----------------------------------------------------------------------------
(* The socket and the rules of the loop that runs the TCPPeer. *)
LEMMA SocketParts ==
  ASSUME NEW x \in Sockets
  PROVE  /\ x.copy \in StreamCopies /\ x.tcp \in Peers /\ x.adapter \in Adapters
         /\ x.tcp_rules \in Seq(TcpRules) /\ x.outgoing_segments_ \in Seq(TCPSegment)
         /\ x.outbound_shutdown \in BOOLEAN /\ x.inbound_shutdown \in BOOLEAN
         /\ x.abort \in BOOLEAN /\ x.thread_eof \in BOOLEAN
         /\ x.to_thread \in Pipes /\ x.to_owner \in Pipes
         /\ x.tun_in \in Seq(Datagrams) /\ x.tun_out \in Seq(Datagrams)
         /\ x.failed \in {"no", "SIGPIPE"}
BY DEF Sockets

LEMMA CollectedSocket ==
  ASSUME NEW x \in Sockets
  PROVE  CollectSegments(x) \in Sockets
<1>1. PICK peer \in Peers, queue \in Seq(TCPSegment) :
        CollectSegments(x) = [x EXCEPT !.tcp = peer, !.outgoing_segments_ = queue]
  BY SocketParts, CollectTyped
<1>2. QED
  BY <1>1 DEF Sockets

LEMMA TcpRulesDiffer ==
  /\ Receive # PushOut /\ Receive # ReadIn /\ Receive # Send
  /\ PushOut # ReadIn /\ PushOut # Send /\ ReadIn # Send
<1>1. /\ Receive.name # PushOut.name /\ Receive.name # ReadIn.name
      /\ Receive.name # Send.name /\ PushOut.name # ReadIn.name
      /\ PushOut.name # Send.name /\ ReadIn.name # Send.name
  BY DEF Receive, PushOut, ReadIn, Send
<1>2. QED
  BY <1>1

(* Only an address that a datagram carries is taken over from it. *)
LEMMA UnwrapTcpTyped ==
  ASSUME NEW a \in Adapters, NEW dgram \in Datagrams
  PROVE  /\ UnwrapTcpInIp(a, dgram).adapter \in Adapters
         /\ UnwrapTcpInIp(a, dgram).segment \in {NoSegment, dgram.segment}
<1> DEFINE new == NewAdapter(dgram.dst, dgram.src)
<1>1. new \in Adapters
  BY DEF NewAdapter, Adapters, Datagrams
<1>2. UnwrapTcpInIp(a, dgram) \in
        {[adapter |-> a, segment |-> NoSegment], [adapter |-> a, segment |-> dgram.segment],
         [adapter |-> new, segment |-> dgram.segment]}
  BY Zenon DEF UnwrapTcpInIp
<1> HIDE DEF new
<1>3. QED
  BY <1>1, <1>2

LEMMA ReceiveSegmentTyped ==
  ASSUME NEW x \in Sockets, x.tun_in # << >>
  PROVE  ReceiveSegment(x) \in Sockets
<1> DEFINE dgram == Head(x.tun_in)
           left  == Tail(x.tun_in)
           read  == UnwrapTcpInIp(x.adapter, dgram)
           peer  == PeerReceive(x.tcp, read.segment)
           rest  == [x EXCEPT !.tun_in = left, !.adapter = read.adapter]
           given == [rest EXCEPT !.tcp = peer]
<1>1. dgram \in Datagrams /\ left \in Seq(Datagrams)
  BY SocketParts, HeadTailProperties
<1>2. dgram.segment \in TCPSegment
  BY <1>1 DEF Datagrams
<1> HIDE DEF dgram
<1>3. read.adapter \in Adapters /\ read.segment \in {NoSegment, dgram.segment}
  BY <1>1, SocketParts, UnwrapTcpTyped
<1>4. rest.tcp = x.tcp
  BY DEF Sockets
<1>5. ReceiveSegment(x) = IF read.segment = NoSegment THEN rest ELSE CollectSegments(given)
  <2>1. ReceiveSegment(x) = IF read.segment = NoSegment THEN rest
                            ELSE CollectSegments([rest EXCEPT !.tcp = PeerReceive(@, read.segment)])
    BY Zenon DEF ReceiveSegment, dgram
  <2> HIDE DEF rest, read
  <2>2. [rest EXCEPT !.tcp = PeerReceive(@, read.segment)] = given
    BY <1>4
  <2>3. QED
    BY <2>1, <2>2
<1> HIDE DEF left, read
<1>6. rest \in Sockets
  BY <1>1, <1>3 DEF Sockets
<1> HIDE DEF rest
<1>7. ASSUME read.segment # NoSegment
      PROVE  CollectSegments(given) \in Sockets
  <2>1. peer \in Peers
    BY <1>2, <1>3, <1>7, SocketParts, PeerReceiveTyped
  <2> HIDE DEF peer
  <2>2. given \in Sockets
    BY <1>6, <2>1 DEF Sockets
  <2> HIDE DEF given
  <2>3. QED
    BY <2>2, CollectedSocket
<1>8. QED
  BY <1>5, <1>6, <1>7

LEMMA PushBytesTyped ==
  ASSUME NEW x \in Sockets
  PROVE  PushBytes(x) \in Sockets
<1> DEFINE old  == x.tcp.outbound_stream_
           n    == AvailableCapacity(old)
           out  == Push(old, ReadBytes(x.to_thread, n))
           eof  == AtEof(x.to_thread)
           new  == IF eof THEN Close(out) ELSE out
           pipe == AfterRead(x.to_thread, n)
           tcp  == [x.tcp EXCEPT !.outbound_stream_ = new]
           seen == x.thread_eof \/ eof
           shut == x.outbound_shutdown \/ eof
           end  == [x EXCEPT !.to_thread = pipe, !.thread_eof = seen,
                             !.outbound_shutdown = shut, !.tcp = tcp]
           peer == PeerPush(tcp)
<1>1. old \in ByteStreams /\ x.to_thread \in Pipes /\ x.tcp \in Peers
  BY SocketParts, PeerParts
<1>2. n \in Nat
  BY <1>1, StreamParts
<1>3. PushBytes(x) = CollectSegments([end EXCEPT !.tcp = peer])
  <2>1. end = [x EXCEPT !.to_thread = AfterRead(@, n),
                        !.thread_eof = @ \/ eof, !.outbound_shutdown = @ \/ eof,
                        !.tcp.outbound_stream_ = IF eof THEN Close(out) ELSE out]
    BY DEF Sockets
  <2>2. end.tcp = tcp
    BY DEF Sockets
  <2> HIDE DEF end, tcp
  <2>3. PushBytes(x) = CollectSegments([end EXCEPT !.tcp = PeerPush(@)])
    BY <2>1, Zenon DEF PushBytes
  <2>4. QED
    BY <2>2, <2>3
<1> HIDE DEF n
<1>4. ReadBytes(x.to_thread, n) \in Seq(Byte) /\ pipe \in Pipes
  BY <1>1, <1>2, ReadPiped
<1>5. out \in ByteStreams /\ Close(out) \in ByteStreams
  BY <1>1, <1>4, PushCounted, FlagCounted
<1> HIDE DEF out, pipe, old
<1>6. new \in ByteStreams
  BY <1>5
<1>7. seen \in BOOLEAN /\ shut \in BOOLEAN
  BY <1>1, SocketParts, PipeParts
<1> HIDE DEF new, seen, shut
<1>8. tcp \in Peers
  BY <1>1, <1>6 DEF Peers
<1> HIDE DEF tcp
<1>9. end \in Sockets
  BY <1>4, <1>7, <1>8 DEF Sockets
<1> HIDE DEF end
<1>10. peer \in Peers
  BY <1>8, PeerPushTyped
<1> HIDE DEF peer
<1>11. [end EXCEPT !.tcp = peer] \in Sockets
  BY <1>9, <1>10 DEF Sockets
<1>12. QED
  BY <1>3, <1>11, CollectedSocket

(* Rule 3 serves something, or is no longer interested, or the write fails:*)
(* it is never taken for a busy wait.                                      *)
LEMMA WriteBytesServes ==
  ASSUME NEW x \in Sockets, Writable(x.to_owner)
  PROVE  /\ WriteBytes(x) \in Sockets
         /\ \/ WriteBytes(x).failed = "SIGPIPE"
            \/ WriteBytes(x).to_owner # x.to_owner
            \/ ~Interested(WriteBytes(x), ReadIn)
<1> DEFINE inbound == x.tcp.inbound_stream_
           data    == inbound.stream
           pipe    == AfterWrite(x.to_owner, data)
           left    == Pop(inbound, BytesWritten(x.to_owner, data))
           tcp     == [x.tcp EXCEPT !.inbound_stream_ = left]
           broken  == [x EXCEPT !.failed = "SIGPIPE"]
           handed  == [x EXCEPT !.to_owner = pipe, !.tcp = tcp]
           written == HandOver(x)
           ended   == [written EXCEPT !.to_owner = Shutdown(@), !.inbound_shutdown = TRUE]
           end     == Shutdown(written.to_owner)
<1>1. /\ inbound \in ByteStreams /\ data \in Seq(Byte) /\ x.to_owner \in Pipes
      /\ x.tcp \in Peers
      /\ BytesBuffered(inbound) = Len(data) /\ Len(data) \in Nat
  BY SocketParts, PeerParts, StreamParts
<1>2. CASE BytesBuffered(inbound) = 0
  <2>1. written = x
    BY <1>2 DEF HandOver
  <2>2. CASE InboundDone(x)
    <3> DEFINE y == [x EXCEPT !.to_owner = end, !.inbound_shutdown = TRUE]
    <3>1. WriteBytes(x) = y
      BY <2>1, <2>2 DEF WriteBytes
    <3>2. end \in Pipes
      BY <1>1, <2>1, ShutPiped
    <3> HIDE DEF end
    <3>3. y \in Sockets /\ y.tcp = x.tcp /\ y.inbound_shutdown = TRUE
      BY <3>2 DEF Sockets
    <3> HIDE DEF y
    <3>4. ~Interested(WriteBytes(x), ReadIn)
      BY <1>2, <3>1, <3>3, TcpRulesDiffer DEF Interested
    <3>5. QED
      BY <3>1, <3>3, <3>4
  <2>3. CASE ~InboundDone(x)
    <3>1. WriteBytes(x) = x
      BY <2>1, <2>3 DEF WriteBytes
    <3>2. ~Interested(x, ReadIn)
      BY <1>2, <2>3, TcpRulesDiffer DEF Interested
    <3>3. QED
      BY <3>1, <3>2
  <2>4. QED
    BY <2>2, <2>3
<1>3. CASE BytesBuffered(inbound) # 0 /\ x.to_owner.shut
  <2>1. written = broken
    BY <1>3 DEF HandOver
  <2>2. broken \in Sockets /\ broken.failed = "SIGPIPE" /\ broken.to_owner = x.to_owner
    BY DEF Sockets
  <2> HIDE DEF broken
  <2>3. end \in Pipes
    BY <1>1, <2>1, <2>2, ShutPiped
  <2>4. ended = [broken EXCEPT !.to_owner = end, !.inbound_shutdown = TRUE]
    BY <2>1
  <2> HIDE DEF end
  <2>5. ended \in Sockets /\ ended.failed = "SIGPIPE"
    BY <2>2, <2>3, <2>4 DEF Sockets
  <2> HIDE DEF ended
  <2>6. WriteBytes(x) \in {broken, ended}
    BY <2>1, Zenon DEF WriteBytes, ended
  <2>7. QED
    BY <2>2, <2>5, <2>6
<1>4. CASE BytesBuffered(inbound) # 0 /\ ~x.to_owner.shut
  <2>1. written = handed
    BY <1>4 DEF HandOver, Sockets
  <2>2. /\ BytesWritten(x.to_owner, data) \in Nat /\ pipe \in Pipes
        /\ Len(pipe.bytes) > Len(x.to_owner.bytes)
    BY <1>1, <1>4, WritePiped
  <2>3. left \in ByteStreams
    BY <1>1, <2>2, PopCounted
  <2> HIDE DEF pipe, left, written
  <2>4. tcp \in Peers
    BY <1>1, <2>3 DEF Peers
  <2> HIDE DEF tcp
  <2>5. handed \in Sockets /\ handed.to_owner = pipe
    BY <2>2, <2>4 DEF Sockets
  <2> HIDE DEF handed
  <2>6. end \in Pipes /\ end.bytes = pipe.bytes
    BY <2>1, <2>2, <2>5, ShutPiped
  <2>7. ended = [handed EXCEPT !.to_owner = end, !.inbound_shutdown = TRUE]
    BY <2>1
  <2> HIDE DEF end
  <2>8. ended \in Sockets /\ ended.to_owner = end
    BY <2>5, <2>6, <2>7 DEF Sockets
  <2> HIDE DEF ended
  <2>9. WriteBytes(x) \in {handed, ended}
    BY <2>1, Zenon DEF WriteBytes, ended, written
  <2>10. Len(x.to_owner.bytes) \in Nat
    BY <1>1, PipeParts
  <2>11. pipe # x.to_owner /\ end # x.to_owner
    <3>1. pipe.bytes # x.to_owner.bytes
      BY <2>2, <2>10
    <3>2. QED
      BY <2>6, <3>1
  <2>12. QED
    BY <2>5, <2>8, <2>9, <2>11
<1>5. QED
  BY <1>2, <1>3, <1>4

LEMMA SendSegmentsTyped ==
  ASSUME NEW x \in Sockets
  PROVE  SendSegments(x) \in Sockets
<1> DEFINE q == x.outgoing_segments_
           n == Len(q)
           dgrams == [i \in 1..n |-> WrapTcpInIp(x.adapter, q[i])]
           out == x.tun_out \o dgrams
<1>1. q \in Seq(TCPSegment) /\ n \in Nat /\ x.adapter \in Adapters
  BY SocketParts, LenProperties
<1>2. ASSUME NEW i \in 1..n
      PROVE  WrapTcpInIp(x.adapter, q[i]) \in Datagrams
  <2>1. q[i] \in TCPSegment
    BY <1>1, ElementOfSeq
  <2>2. x.adapter.source \in Addresses /\ x.adapter.destination \in Addresses
    BY <1>1 DEF Adapters
  <2>3. QED
    BY <2>1, <2>2 DEF WrapTcpInIp, Datagrams
<1>3. dgrams \in Seq(Datagrams)
  <2> HIDE DEF n
  <2>1. dgrams \in [1..n -> Datagrams]
    BY <1>2
  <2>2. QED
    BY <1>1, <2>1, SeqDef
<1>4. SendSegments(x) = [x EXCEPT !.tun_out = out, !.outgoing_segments_ = << >>]
  BY DEF SendSegments
<1> HIDE DEF dgrams
<1>5. out \in Seq(Datagrams)
  BY <1>3, SocketParts, ConcatProperties
<1> HIDE DEF out
<1>6. << >> \in Seq(TCPSegment)
  BY EmptySeq
<1>7. QED
  BY <1>4, <1>5, <1>6 DEF Sockets

LEMMA CancelTyped ==
  ASSUME NEW x \in Sockets, NEW rule
  PROVE  /\ CancelRule(x, rule) \in Sockets
         /\ CancelRule(x, rule).tun_in = x.tun_in
         /\ CancelRule(x, rule).to_owner = x.to_owner
<1> DEFINE closed == Close(x.tcp.outbound_stream_)
           tcp == [x.tcp EXCEPT !.outbound_stream_ = closed]
           y == [x EXCEPT !.tcp = tcp, !.outbound_shutdown = TRUE]
<1>1. closed \in ByteStreams /\ x.tcp \in Peers
  BY SocketParts, PeerParts, FlagCounted
<1>2. CancelRule(x, rule) = IF rule = PushOut THEN y ELSE x
  BY DEF CancelRule, Sockets
<1> HIDE DEF closed
<1>3. tcp \in Peers
  BY <1>1 DEF Peers
<1> HIDE DEF tcp
<1>4. y \in Sockets /\ y.tun_in = x.tun_in /\ y.to_owner = x.to_owner
  BY <1>3 DEF Sockets
<1> HIDE DEF y
<1>5. QED
  BY <1>2, <1>4

(* The callback of a rule that can serve.                                  *)
LEMMA CallServes ==
  ASSUME NEW x \in Sockets, NEW rule \in TcpRules,
         rule = Receive => x.tun_in # << >>,
         rule = ReadIn => Writable(x.to_owner)
  PROVE  /\ Call(x, rule) \in Sockets
         /\ ServesNothing(x, Call(x, rule), rule) /\ Interested(Call(x, rule), rule)
              => Call(x, rule).failed = "SIGPIPE"
<1>1. CASE rule = Receive
  <2>1. Call(x, rule) = ReceiveSegment(x) /\ rule # ReadIn
    BY <1>1, TcpRulesDiffer DEF Call
  <2>2. QED
    BY <1>1, <2>1, ReceiveSegmentTyped DEF ServesNothing
<1>2. CASE rule = PushOut
  <2>1. Call(x, rule) = PushBytes(x) /\ rule # ReadIn
    BY <1>2, TcpRulesDiffer DEF Call
  <2>2. QED
    BY <2>1, PushBytesTyped DEF ServesNothing
<1>3. CASE rule = ReadIn
  <2>1. Call(x, rule) = WriteBytes(x)
    BY <1>3, TcpRulesDiffer DEF Call
  <2>2. QED
    BY <1>3, <2>1, WriteBytesServes DEF ServesNothing
<1>4. CASE rule = Send
  <2>1. Call(x, rule) = SendSegments(x) /\ rule # ReadIn
    BY <1>4, TcpRulesDiffer DEF Call
  <2>2. QED
    BY <2>1, SendSegmentsTyped DEF ServesNothing
<1>5. QED
  BY <1>1, <1>2, <1>3, <1>4 DEF TcpRules

-----------------------------------------------------------------------------
(* The two walks of the loop over its rules. *)
PruneTcp(acc, rule) ==
  IF AtItsEnd(acc.x, rule) THEN [acc EXCEPT !.x = CancelRule(@, rule)]
  ELSE [acc EXCEPT !.rules = Append(@, rule),
                   !.wanted = @ \cup {r \in {rule} : Interested(acc.x, r)}]

LEMMA TcpPruned ==
  ASSUME NEW x \in Sockets, NEW rules \in Seq(TcpRules)
  PROVE  LET pruned == TcpLoop!Pruned(x, rules)
         IN  /\ pruned.x \in Sockets /\ pruned.rules \in Seq(TcpRules)
             /\ pruned.wanted \in SUBSET TcpRules
<1> DEFINE n     == Len(rules)
           S     == [x : Sockets, rules : Seq(TcpRules), wanted : SUBSET TcpRules]
           base  == [x |-> x, rules |-> << >>, wanted |-> {}]
           step  == [p \in S \X (1..n) |-> PruneTcp(p[1], rules[p[2]])]
           Is(f) == f = [s \in SUBSET (DOMAIN rules) |->
                           IF s = {} THEN base
                           ELSE PruneTcp(f[s \ {Max(s)}], rules[Max(s)])]
           F     == CHOOSE f : Is(f)
<1>1. /\ n \in Nat /\ DOMAIN rules = 1..n
      /\ \A i \in 1..n : rules[i] \in TcpRules
  BY LenProperties, ElementOfSeq
<1> HIDE DEF n
<1>2. base \in S
  BY EmptySeq
<1>3. ASSUME NEW acc \in S, NEW rule \in TcpRules
      PROVE  PruneTcp(acc, rule) \in S
  <2> DEFINE y == CancelRule(acc.x, rule)
             q == Append(acc.rules, rule)
             v == acc.wanted \cup {r \in {rule} : Interested(acc.x, r)}
  <2>1. acc.x \in Sockets /\ acc.rules \in Seq(TcpRules) /\ acc.wanted \in SUBSET TcpRules
    OBVIOUS
  <2>2. y \in Sockets
    BY <2>1, CancelTyped
  <2>3. q \in Seq(TcpRules) /\ v \in SUBSET TcpRules
    BY <2>1, AppendProperties
  <2>4. PruneTcp(acc, rule) = IF AtItsEnd(acc.x, rule) THEN [acc EXCEPT !.x = y]
                              ELSE [acc EXCEPT !.rules = q, !.wanted = v]
    BY DEF PruneTcp
  <2> HIDE DEF y, q, v
  <2>5. QED
    BY <2>2, <2>3, <2>4
<1>4. step \in [S \X (1..n) -> S]
  <2> HIDE DEF S
  <2>1. QED
    BY <1>1, <1>3
<1> HIDE DEF base
<1>5. \E f : Is(f)
  <2>1. PICK it : FoldsOver(it, n, S, base, step)
    <3> HIDE DEF S, step
    <3>1. QED
      BY <1>1, <1>2, <1>4, FoldExists
  <2>2. ASSUME NEW s \in SUBSET (1..n), s # {}
        PROVE  it[s] = PruneTcp(it[s \ {Max(s)}], rules[Max(s)])
    <3>1. Max(s) \in 1..n /\ s \ {Max(s)} \in SUBSET (1..n)
      BY <1>1, <2>2, MaxOf
    <3>2. it[s \ {Max(s)}] \in S /\ it[s] = step[<<it[s \ {Max(s)}], Max(s)>>]
      <4> HIDE DEF S, step
      <4>1. QED
        BY <2>1, <2>2, <3>1 DEF FoldsOver
    <3> HIDE DEF S
    <3>3. QED
      BY <3>1, <3>2
  <2>3. it = [s \in SUBSET (1..n) |-> it[s]] /\ it[{}] = base
    <3> HIDE DEF S, step
    <3>1. QED
      BY <2>1 DEF FoldsOver
  <2>4. Is(it)
    BY <1>1, <2>2, <2>3
  <2>5. QED
    BY <2>4
<1>6. Is(F)
  BY <1>5
<1>7. TcpLoop!Pruned(x, rules) = F[DOMAIN rules]
  BY DEF TcpLoop!Pruned, TcpLoop!FoldLeft, TcpLoop!MapThenFoldSet, Max, TcpLoop!Max,
         PruneTcp, base
<1> HIDE DEF F
<1>8. F[{}] = base
  BY <1>1, <1>6
<1>9. ASSUME NEW s \in SUBSET (1..n), s # {}, F[s \ {Max(s)}] \in S
      PROVE  F[s] = step[<<F[s \ {Max(s)}], Max(s)>>]
  <2>1. Max(s) \in 1..n
    BY <1>1, <1>9, MaxOf
  <2>2. F[s] = PruneTcp(F[s \ {Max(s)}], rules[Max(s)])
    BY <1>1, <1>6, <1>9
  <2> HIDE DEF S
  <2>3. QED
    BY <1>9, <2>1, <2>2
<1>10. F[1..n] \in S
  <2> HIDE DEF S, step
  <2>1. QED
    BY <1>1, <1>2, <1>4, <1>8, <1>9, FoldStays, ZenonT(60)
<1>11. QED
  BY <1>1, <1>7, <1>10

ServeTcp(polled, acc, rule) ==
  IF acc.result # "None" THEN [acc EXCEPT !.rules = Append(@, rule)]
  ELSE IF TcpLoop!Gone(polled, rule) THEN [acc EXCEPT !.x = CancelRule(@, rule)]
  ELSE IF TcpLoop!Ready(polled, rule)
  THEN TcpLoop!CalledBack(acc, rule, Call(acc.x, rule))
  ELSE [acc EXCEPT !.rules = Append(@, rule)]

\* Until a rule is served nothing is read or written; and none is taken for a busy
\* wait unless its write has failed.
TcpAccs(polled) ==
  {acc \in [x : Sockets, rules : Seq(TcpRules), result : {"None", "Success", "BusyWait"}] :
     /\ acc.result = "None" => /\ acc.x.tun_in = polled.x.tun_in
                               /\ acc.x.to_owner = polled.x.to_owner
     /\ acc.result = "BusyWait" => acc.x.failed = "SIGPIPE"}

LEMMA ServeTcpStays ==
  ASSUME NEW polled, NEW acc \in TcpAccs(polled), NEW rule \in TcpRules
  PROVE  ServeTcp(polled, acc, rule) \in TcpAccs(polled)
<1> DEFINE gone == CancelRule(acc.x, rule)
           q    == Append(acc.rules, rule)
           y    == Call(acc.x, rule)
           kept == [acc EXCEPT !.rules = q]
           result == IF ServesNothing(acc.x, y, rule) /\ Interested(y, rule)
                     THEN "BusyWait" ELSE "Success"
           served == [x |-> y, rules |-> q, result |-> result]
           R == [x : Sockets, rules : Seq(TcpRules), result : {"None", "Success", "BusyWait"}]
<1>1. /\ acc \in R /\ acc.x \in Sockets /\ acc.rules \in Seq(TcpRules)
      /\ acc.result = "None" => /\ acc.x.tun_in = polled.x.tun_in
                                /\ acc.x.to_owner = polled.x.to_owner
      /\ acc.result = "BusyWait" => acc.x.failed = "SIGPIPE"
  BY DEF TcpAccs
<1>2. q \in Seq(TcpRules)
  BY <1>1, AppendProperties
<1>3. kept \in TcpAccs(polled)
  <2> HIDE DEF q
  <2>1. kept \in R /\ kept.x = acc.x /\ kept.result = acc.result
    BY <1>1, <1>2
  <2> HIDE DEF kept
  <2>2. QED
    BY <1>1, <2>1 DEF TcpAccs
<1>4. CASE acc.result # "None"
  BY <1>3, <1>4 DEF ServeTcp
<1>5. CASE acc.result = "None" /\ TcpLoop!Gone(polled, rule)
  <2>1. /\ gone \in Sockets /\ gone.tun_in = acc.x.tun_in /\ gone.to_owner = acc.x.to_owner
    BY <1>1, CancelTyped
  <2>2. ServeTcp(polled, acc, rule) = [acc EXCEPT !.x = gone]
    BY <1>5 DEF ServeTcp
  <2> HIDE DEF gone
  <2>3. /\ [acc EXCEPT !.x = gone] \in R /\ [acc EXCEPT !.x = gone].x = gone
        /\ [acc EXCEPT !.x = gone].result = "None"
    BY <1>1, <1>5, <2>1
  <2>4. [acc EXCEPT !.x = gone] \in TcpAccs(polled)
    BY <1>1, <1>5, <2>1, <2>3 DEF TcpAccs
  <2>5. QED
    BY <2>2, <2>4
<1>6. CASE /\ acc.result = "None" /\ ~TcpLoop!Gone(polled, rule)
           /\ TcpLoop!Ready(polled, rule)
  <2>1. ServeTcp(polled, acc, rule) = served
    BY <1>6 DEF ServeTcp, TcpLoop!CalledBack
  <2>2. CanServe(polled.x, rule)
    BY <1>6 DEF TcpLoop!Ready
  <2>3. /\ rule = Receive => acc.x.tun_in # << >>
        /\ rule = ReadIn => Writable(acc.x.to_owner)
    BY <1>1, <1>6, <2>2, TcpRulesDiffer DEF CanServe
  <2>4. /\ y \in Sockets
        /\ ServesNothing(acc.x, y, rule) /\ Interested(y, rule) => y.failed = "SIGPIPE"
    BY <1>1, <2>3, CallServes
  <2> HIDE DEF y, q
  <2>5. served \in R /\ served.x = y /\ served.result = result
    BY <1>2, <2>4
  <2>6. result \in {"BusyWait", "Success"} /\ (result = "BusyWait" => y.failed = "SIGPIPE")
    BY <2>4
  <2> HIDE DEF served, result
  <2>7. served \in TcpAccs(polled)
    BY <2>5, <2>6 DEF TcpAccs
  <2>8. QED
    BY <2>1, <2>7
<1>7. CASE /\ acc.result = "None" /\ ~TcpLoop!Gone(polled, rule)
           /\ ~TcpLoop!Ready(polled, rule)
  BY <1>3, <1>7 DEF ServeTcp
<1>8. QED
  BY <1>4, <1>5, <1>6, <1>7

LEMMA TcpServed ==
  ASSUME NEW polled, polled.x \in Sockets, polled.rules \in Seq(TcpRules)
  PROVE  TcpLoop!Served(polled) \in TcpAccs(polled)
<1> DEFINE rules == polled.rules
           n     == Len(rules)
           S     == TcpAccs(polled)
           base  == [x |-> polled.x, rules |-> << >>, result |-> "None"]
           step  == [p \in S \X (1..n) |-> ServeTcp(polled, p[1], rules[p[2]])]
           Is(f) == f = [s \in SUBSET (DOMAIN rules) |->
                           IF s = {} THEN base
                           ELSE ServeTcp(polled, f[s \ {Max(s)}], rules[Max(s)])]
           F     == CHOOSE f : Is(f)
<1>1. /\ n \in Nat /\ DOMAIN rules = 1..n
      /\ \A i \in 1..n : rules[i] \in TcpRules
  BY LenProperties, ElementOfSeq
<1> HIDE DEF n
<1>2. base \in S
  <2>1. << >> \in Seq(TcpRules)
    BY EmptySeq
  <2>2. QED
    BY <2>1 DEF TcpAccs
<1>3. ASSUME NEW acc \in S, NEW rule \in TcpRules
      PROVE  ServeTcp(polled, acc, rule) \in S
  BY ServeTcpStays
<1> HIDE DEF S, base
<1>4. step \in [S \X (1..n) -> S]
  BY <1>1, <1>3
<1>5. \E f : Is(f)
  <2>1. PICK it : FoldsOver(it, n, S, base, step)
    <3> HIDE DEF step
    <3>1. QED
      BY <1>1, <1>2, <1>4, FoldExists
  <2>2. ASSUME NEW s \in SUBSET (1..n), s # {}
        PROVE  it[s] = ServeTcp(polled, it[s \ {Max(s)}], rules[Max(s)])
    <3>1. Max(s) \in 1..n /\ s \ {Max(s)} \in SUBSET (1..n)
      BY <1>1, <2>2, MaxOf
    <3>2. it[s \ {Max(s)}] \in S /\ it[s] = step[<<it[s \ {Max(s)}], Max(s)>>]
      <4> HIDE DEF step
      <4>1. QED
        BY <2>1, <2>2, <3>1 DEF FoldsOver
    <3>3. QED
      BY <3>1, <3>2
  <2>3. it = [s \in SUBSET (1..n) |-> it[s]] /\ it[{}] = base
    <3> HIDE DEF step
    <3>1. QED
      BY <2>1 DEF FoldsOver
  <2>4. Is(it)
    BY <1>1, <2>2, <2>3
  <2>5. QED
    BY <2>4
<1>6. Is(F)
  BY <1>5
<1>7. TcpLoop!Served(polled) = F[DOMAIN rules]
  BY DEF TcpLoop!Served, TcpLoop!FoldLeft, TcpLoop!MapThenFoldSet, Max, TcpLoop!Max,
         ServeTcp, base
<1> HIDE DEF F
<1>8. F[{}] = base
  BY <1>1, <1>6
<1>9. ASSUME NEW s \in SUBSET (1..n), s # {}, F[s \ {Max(s)}] \in S
      PROVE  F[s] = step[<<F[s \ {Max(s)}], Max(s)>>]
  <2>1. Max(s) \in 1..n
    BY <1>1, <1>9, MaxOf
  <2>2. F[s] = ServeTcp(polled, F[s \ {Max(s)}], rules[Max(s)])
    BY <1>1, <1>6, <1>9
  <2>3. QED
    BY <1>9, <2>1, <2>2
<1>10. F[1..n] \in S
  <2> HIDE DEF step
  <2>1. QED
    BY <1>1, <1>2, <1>4, <1>8, <1>9, FoldStays, ZenonT(60)
<1>11. QED
  BY <1>1, <1>7, <1>10 DEF S

(* A round of the loop throws nothing.                                     *)
LEMMA LoopServesTyped ==
  ASSUME NEW x \in Sockets
  PROVE  LoopServes(x).socket \in Sockets
<1> DEFINE pruned == TcpLoop!Pruned(x, x.tcp_rules)
           served == TcpLoop!Served(pruned)
           next   == TcpLoop!WaitNextEvent(x, x.tcp_rules)
           failed == IF next.result = "BusyWait" /\ next.x.failed = "no" THEN "busy wait"
                     ELSE next.x.failed
           y      == [next.x EXCEPT !.tcp_rules = next.rules, !.failed = failed]
<1>1. x.tcp_rules \in Seq(TcpRules)
  BY SocketParts
<1>2. pruned.x \in Sockets /\ pruned.rules \in Seq(TcpRules)
  BY <1>1, TcpPruned
<1>3. next = TcpLoop!AfterPoll(pruned)
  BY DEF TcpLoop!WaitNextEvent
<1> HIDE DEF next, pruned
<1>4. served \in TcpAccs(pruned)
  BY <1>2, TcpServed
<1>5. /\ served \in [x : Sockets, rules : Seq(TcpRules), result : {"None", "Success", "BusyWait"}]
      /\ served.result = "BusyWait" => served.x.failed = "SIGPIPE"
  BY <1>4 DEF TcpAccs
<1>6. next \in {[x |-> pruned.x, rules |-> pruned.rules, result |-> "Exit"],
                [x |-> pruned.x, rules |-> pruned.rules, result |-> "Timeout"],
                [served EXCEPT !.result = IF @ = "None" THEN "Success" ELSE @]}
  BY <1>3, Zenon DEF TcpLoop!AfterPoll
<1> HIDE DEF served
<1>7. /\ next.x \in Sockets /\ next.rules \in Seq(TcpRules)
      /\ next.result = "BusyWait" => next.x.failed = "SIGPIPE"
  BY <1>2, <1>5, <1>6
<1>8. failed \in {"no", "SIGPIPE"}
  BY <1>7, SocketParts
<1> HIDE DEF failed
<1>9. y \in Sockets
  BY <1>7, <1>8 DEF Sockets
<1>10. LoopServes(x).socket = y
  BY DEF LoopServes, AfterEvent, failed, next
<1>11. QED
  BY <1>9, <1>10

-----------------------------------------------------------------------------
(* The other steps of the thread and the owner. *)
LEMMA LoopTicksTyped ==
  ASSUME NEW x \in Sockets, NEW ms \in Nat
  PROVE  LoopTicks(x, ms) \in Sockets
<1> DEFINE peer == PeerTick(x.tcp, ms)
           y == [x EXCEPT !.tcp = peer]
<1>1. peer \in Peers
  BY SocketParts, PeerTickTyped
<1>2. LoopTicks(x, ms) = IF Active(x.tcp) THEN CollectSegments(y) ELSE x
  BY DEF LoopTicks
<1> HIDE DEF peer
<1>3. y \in Sockets
  BY <1>1 DEF Sockets
<1> HIDE DEF y
<1>4. QED
  BY <1>2, <1>3, CollectedSocket

LEMMA ShutdownOwnerTyped ==
  ASSUME NEW x \in Sockets
  PROVE  ShutdownOwner(x) \in Sockets
<1>1. Shutdown(x.to_thread) \in Pipes /\ Shutdown(x.to_owner) \in Pipes
  BY SocketParts, ShutPiped
<1>2. QED
  BY <1>1 DEF ShutdownOwner, Sockets

LEMMA ThreadEndTyped ==
  ASSUME NEW x \in Sockets
  PROVE  ThreadEnd(x) \in Sockets
<1>1. 0 \in SequenceNumber
  BY Word32Assumption DEF SequenceNumber
<1>2. NewPeer(0, 0, 0) \in Peers
  BY <1>1, NewPeerTyped
<1>3. ShutdownOwner(x) \in Sockets
  BY ShutdownOwnerTyped
<1>4. QED
  BY <1>2, <1>3 DEF ThreadEnd, Sockets

LEMMA OpeningTyped ==
  ASSUME NEW x \in Sockets
  PROVE  Connecting(x) \in Sockets /\ Listening(x) \in Sockets
<1> DEFINE peer == PeerPush(x.tcp)
           y == [x EXCEPT !.tcp = peer]
<1>1. peer \in Peers
  BY SocketParts, PeerPushTyped
<1>2. Connecting(x) = CollectSegments(y)
  BY DEF Connecting
<1> HIDE DEF peer
<1>3. y \in Sockets
  BY <1>1 DEF Sockets
<1> HIDE DEF y
<1>4. SetListening(x.adapter, TRUE) \in Adapters
  BY SocketParts DEF SetListening, Adapters
<1>5. Listening(x) \in Sockets
  BY <1>4 DEF Listening, Sockets
<1>6. QED
  BY <1>2, <1>3, <1>5, CollectedSocket

-----------------------------------------------------------------------------
(* The owner's copy. *)
LEMMA CopyRulesDiffer ==
  /\ ReadInput # WriteSocket /\ ReadInput # ReadSocket /\ ReadInput # WriteOutput
  /\ WriteSocket # ReadSocket /\ WriteSocket # WriteOutput /\ ReadSocket # WriteOutput
<1>1. /\ ReadInput.name # WriteSocket.name /\ ReadInput.name # ReadSocket.name
      /\ ReadInput.name # WriteOutput.name /\ WriteSocket.name # ReadSocket.name
      /\ WriteSocket.name # WriteOutput.name /\ ReadSocket.name # WriteOutput.name
  BY DEF ReadInput, WriteSocket, ReadSocket, WriteOutput
<1>2. QED
  BY <1>1

LEMMA CopyParts ==
  ASSUME NEW c \in StreamCopies
  PROVE  /\ c.copy_rules \in Seq(CopyRules)
         /\ c.outbound \in ByteStreams /\ c.inbound \in ByteStreams
         /\ c.outbound_shutdown \in BOOLEAN /\ c.inbound_shutdown \in BOOLEAN
         /\ c.input_eof \in BOOLEAN /\ c.socket_eof \in BOOLEAN
         /\ c.input \in Pipes /\ c.output \in Pipes
BY DEF StreamCopies

LEMMA FilledTyped ==
  ASSUME NEW s \in ByteStreams, NEW p \in Pipes
  PROVE  Filled(s, p) \in ByteStreams /\ AfterRead(p, AvailableCapacity(s)) \in Pipes
<1> DEFINE n == AvailableCapacity(s)
           pushed == Push(s, ReadBytes(p, n))
<1>1. n \in Nat
  BY StreamParts
<1>2. Filled(s, p) = IF AtEof(p) THEN Close(pushed) ELSE pushed
  BY DEF Filled
<1> HIDE DEF n
<1>3. ReadBytes(p, n) \in Seq(Byte) /\ AfterRead(p, n) \in Pipes
  BY <1>1, ReadPiped
<1>4. pushed \in ByteStreams
  BY <1>3, PushCounted
<1> HIDE DEF pushed
<1>5. Close(pushed) \in ByteStreams
  BY <1>4, FlagCounted
<1>6. QED
  BY <1>2, <1>3, <1>4, <1>5 DEF n

(* A rule that writes has written something, or all there was is written.  *)
LEMMA DrainServes ==
  ASSUME NEW s \in ByteStreams, NEW p \in Pipes, Writable(p)
  PROVE  /\ Drained(s, p) \in ByteStreams /\ AfterDrain(s, p) \in Pipes
         /\ AfterDrain(s, p) # p \/ BytesBuffered(Drained(s, p)) = 0
<1> DEFINE data == s.stream
           n == BytesWritten(p, data)
           written == AfterWrite(p, data)
           left == Drained(s, p)
<1>1. /\ data \in Seq(Byte) /\ Len(data) \in Nat /\ BytesBuffered(s) = Len(data)
      /\ s.bytes_read \in Nat /\ s.bytes_write \in Nat
  BY StreamParts
<1>2. /\ n \in Nat /\ written \in Pipes
      /\ Len(data) > 0 => Len(written.bytes) > Len(p.bytes)
  BY <1>1, WritePiped
<1>3. left = Pop(s, n)
  BY DEF Drained
<1>4. left \in ByteStreams
  BY <1>2, <1>3, PopCounted
<1>5. AfterDrain(s, p) \in {written, Shutdown(written)}
  BY DEF AfterDrain
<1>6. Len(data) = 0 => BytesBuffered(left) = 0
  <2>1. ASSUME Len(data) = 0
        PROVE  BytesBuffered(left) = 0
    <3>1. n = 0
      <4>1. Len(p.bytes) \in Nat /\ p.room \in Nat
        BY PipeParts
      <4>2. QED
        BY <2>1, <4>1 DEF BytesWritten, Writable, Lesser
    <3> HIDE DEF n
    <3>2. left = [s EXCEPT !.stream = SubSeq(@, 0 + 1, Len(@)), !.bytes_read = @ + 0]
      BY <1>3, <2>1, <3>1 DEF Pop
    <3> DEFINE rest == SubSeq(s.stream, 0 + 1, Len(s.stream))
               read == s.bytes_read + 0
    <3>3. read = s.bytes_read /\ left = [s EXCEPT !.stream = rest, !.bytes_read = read]
      BY <1>1, <3>2
    <3> HIDE DEF rest, read, left
    <3>4. left.bytes_read = s.bytes_read /\ left.bytes_write = s.bytes_write
      BY <3>3, StreamParts DEF StreamStates
    <3>5. QED
      BY <1>1, <2>1, <3>4 DEF BytesBuffered
  <2>2. QED
    BY <2>1
<1> HIDE DEF written, left
<1>7. Shutdown(written) \in Pipes /\ Shutdown(written).bytes = written.bytes
  BY <1>2, ShutPiped
<1>8. Len(data) > 0 => AfterDrain(s, p) # p
  <2>1. Len(p.bytes) \in Nat
    BY PipeParts
  <2>2. AfterDrain(s, p).bytes = written.bytes
    BY <1>5, <1>7
  <2> HIDE DEF data
  <2>3. ASSUME Len(data) > 0
        PROVE  written.bytes # p.bytes
    BY <1>2, <2>1, <2>3
  <2>4. QED
    BY <2>2, <2>3
<1>9. QED
  BY <1>1, <1>2, <1>4, <1>5, <1>6, <1>7, <1>8 DEF left

LEMMA CopyCancelTyped ==
  ASSUME NEW x \in Sockets, NEW rule
  PROVE  /\ CopyCancel(x, rule) \in Sockets
         /\ CopyCancel(x, rule).to_thread = x.to_thread
         /\ CopyCancel(x, rule).copy.output = x.copy.output
<1> DEFINE c   == x.copy
           out == Close(c.outbound)
           in  == Close(c.inbound)
           a   == [c EXCEPT !.outbound = out]
           b   == [c EXCEPT !.inbound = in]
           xa  == [x EXCEPT !.copy = a]
           xb  == [x EXCEPT !.copy = b]
<1>1. c \in StreamCopies
  BY SocketParts
<1>2. out \in ByteStreams /\ in \in ByteStreams
  BY <1>1, CopyParts, FlagCounted
<1>3. CopyCancel(x, rule) \in {xa, xb}
  BY DEF CopyCancel
<1> HIDE DEF out, in
<1>4. a \in StreamCopies /\ a.output = c.output /\ b \in StreamCopies /\ b.output = c.output
  BY <1>1, <1>2 DEF StreamCopies
<1> HIDE DEF a, b
<1>5. xa \in Sockets /\ xa.copy = a /\ xa.to_thread = x.to_thread
  BY <1>4 DEF Sockets
<1>6. xb \in Sockets /\ xb.copy = b /\ xb.to_thread = x.to_thread
  BY <1>4 DEF Sockets
<1> HIDE DEF xa, xb
<1>7. QED
  BY <1>3, <1>4, <1>5, <1>6

LEMMA ReadInputTyped ==
  ASSUME NEW x \in Sockets
  PROVE  CopyCall(x, ReadInput) \in Sockets
<1> DEFINE c == x.copy
           new == Filled(c.outbound, c.input)
           eof == c.input_eof \/ AtEof(c.input)
           pipe == AfterRead(c.input, AvailableCapacity(c.outbound))
           copy == [c EXCEPT !.outbound = new, !.input_eof = eof, !.input = pipe]
<1>1. c \in StreamCopies
  BY SocketParts
<1>2. new \in ByteStreams /\ pipe \in Pipes
  BY <1>1, CopyParts, FilledTyped
<1>3. eof \in BOOLEAN
  BY <1>1, CopyParts, PipeParts
<1>4. CopyCall(x, ReadInput) = [x EXCEPT !.copy = copy]
  BY CopyRulesDiffer DEF CopyCall, Sockets, StreamCopies
<1> HIDE DEF new, eof, pipe
<1>5. copy \in StreamCopies
  BY <1>1, <1>2, <1>3 DEF StreamCopies
<1> HIDE DEF copy
<1>6. QED
  BY <1>4, <1>5 DEF Sockets

LEMMA ReadSocketTyped ==
  ASSUME NEW x \in Sockets
  PROVE  CopyCall(x, ReadSocket) \in Sockets
<1> DEFINE c == x.copy
           new == Filled(c.inbound, x.to_owner)
           eof == c.socket_eof \/ AtEof(x.to_owner)
           pipe == AfterRead(x.to_owner, AvailableCapacity(c.inbound))
           copy == [c EXCEPT !.inbound = new, !.socket_eof = eof]
<1>1. c \in StreamCopies /\ x.to_owner \in Pipes
  BY SocketParts
<1>2. new \in ByteStreams /\ pipe \in Pipes
  BY <1>1, CopyParts, FilledTyped
<1>3. eof \in BOOLEAN
  BY <1>1, CopyParts, PipeParts
<1>4. CopyCall(x, ReadSocket) = [x EXCEPT !.copy = copy, !.to_owner = pipe]
  BY CopyRulesDiffer DEF CopyCall, Sockets, StreamCopies
<1> HIDE DEF new, eof, pipe
<1>5. copy \in StreamCopies
  BY <1>1, <1>2, <1>3 DEF StreamCopies
<1> HIDE DEF copy
<1>6. QED
  BY <1>2, <1>4, <1>5 DEF Sockets

LEMMA WriteSocketServes ==
  ASSUME NEW x \in Sockets, Writable(x.to_thread)
  PROVE  LET y == CopyCall(x, WriteSocket)
         IN  /\ y \in Sockets
             /\ y.to_thread # x.to_thread \/ ~CopyInterested(y, WriteSocket)
<1> DEFINE c == x.copy
           left == Drained(c.outbound, x.to_thread)
           pipe == AfterDrain(c.outbound, x.to_thread)
           shut == c.outbound_shutdown \/ IsFinished(left)
           copy == [c EXCEPT !.outbound = left, !.outbound_shutdown = shut]
           y == [x EXCEPT !.copy = copy, !.to_thread = pipe]
<1>1. c \in StreamCopies /\ x.to_thread \in Pipes
  BY SocketParts
<1>2. /\ left \in ByteStreams /\ pipe \in Pipes
      /\ pipe # x.to_thread \/ BytesBuffered(left) = 0
  BY <1>1, CopyParts, DrainServes
<1>3. CopyCall(x, WriteSocket) = y
  BY CopyRulesDiffer DEF CopyCall, Sockets, StreamCopies
<1> HIDE DEF left, pipe
<1>4. shut \in BOOLEAN /\ (IsFinished(left) => shut)
  BY <1>1, <1>2, CopyParts, StreamParts
<1> HIDE DEF shut
<1>5. copy \in StreamCopies /\ copy.outbound = left /\ copy.outbound_shutdown = shut
  BY <1>1, <1>2, <1>4 DEF StreamCopies
<1> HIDE DEF copy
<1>6. y \in Sockets /\ y.copy = copy /\ y.to_thread = pipe
  BY <1>2, <1>5 DEF Sockets
<1> HIDE DEF y
<1>7. BytesBuffered(left) = 0 => ~CopyInterested(y, WriteSocket)
  BY <1>4, <1>5, <1>6, CopyRulesDiffer DEF CopyInterested, Drainable
<1>8. QED
  BY <1>2, <1>3, <1>6, <1>7

LEMMA WriteOutputServes ==
  ASSUME NEW x \in Sockets, Writable(x.copy.output)
  PROVE  LET y == CopyCall(x, WriteOutput)
         IN  /\ y \in Sockets
             /\ y.copy.output # x.copy.output \/ ~CopyInterested(y, WriteOutput)
<1> DEFINE c == x.copy
           left == Drained(c.inbound, c.output)
           pipe == AfterDrain(c.inbound, c.output)
           shut == c.inbound_shutdown \/ IsFinished(left)
           copy == [c EXCEPT !.inbound = left, !.output = pipe, !.inbound_shutdown = shut]
           y == [x EXCEPT !.copy = copy]
<1>1. c \in StreamCopies /\ c.output \in Pipes
  BY SocketParts, CopyParts
<1>2. /\ left \in ByteStreams /\ pipe \in Pipes
      /\ pipe # c.output \/ BytesBuffered(left) = 0
  BY <1>1, CopyParts, DrainServes
<1>3. CopyCall(x, WriteOutput) = y
  BY CopyRulesDiffer DEF CopyCall, Sockets, StreamCopies
<1> HIDE DEF left, pipe
<1>4. shut \in BOOLEAN /\ (IsFinished(left) => shut)
  BY <1>1, <1>2, CopyParts, StreamParts
<1> HIDE DEF shut
<1>5. /\ copy \in StreamCopies /\ copy.inbound = left /\ copy.inbound_shutdown = shut
      /\ copy.output = pipe
  BY <1>1, <1>2, <1>4 DEF StreamCopies
<1> HIDE DEF copy
<1>6. y \in Sockets /\ y.copy = copy
  BY <1>5 DEF Sockets
<1> HIDE DEF y
<1>7. BytesBuffered(left) = 0 => ~CopyInterested(y, WriteOutput)
  BY <1>4, <1>5, <1>6, CopyRulesDiffer DEF CopyInterested, Drainable
<1>8. QED
  BY <1>2, <1>3, <1>5, <1>6, <1>7

(* The callback of a rule that is ready is never taken for a busy wait.    *)
LEMMA CopyCallServes ==
  ASSUME NEW x \in Sockets, NEW rule \in CopyRules,
         rule = WriteSocket => Writable(x.to_thread),
         rule = WriteOutput => Writable(x.copy.output)
  PROVE  /\ CopyCall(x, rule) \in Sockets
         /\ ~(CopyIdle(x, CopyCall(x, rule), rule) /\ CopyInterested(CopyCall(x, rule), rule))
<1>1. CASE rule = ReadInput
  BY <1>1, ReadInputTyped, CopyRulesDiffer DEF CopyIdle
<1>2. CASE rule = WriteSocket
  BY <1>2, WriteSocketServes, CopyRulesDiffer DEF CopyIdle
<1>3. CASE rule = ReadSocket
  BY <1>3, ReadSocketTyped, CopyRulesDiffer DEF CopyIdle
<1>4. CASE rule = WriteOutput
  BY <1>4, WriteOutputServes, CopyRulesDiffer DEF CopyIdle
<1>5. QED
  BY <1>1, <1>2, <1>3, <1>4 DEF CopyRules

-----------------------------------------------------------------------------
(* And its two walks over its rules. *)
PruneCopy(acc, rule) ==
  IF CopyDefunct(acc.x, rule) THEN [acc EXCEPT !.x = CopyCancel(@, rule)]
  ELSE [acc EXCEPT !.rules = Append(@, rule),
                   !.wanted = @ \cup {r \in {rule} : CopyInterested(acc.x, r)}]

LEMMA CopyPruned ==
  ASSUME NEW x \in Sockets, NEW rules \in Seq(CopyRules)
  PROVE  LET pruned == CopyLoop!Pruned(x, rules)
         IN  /\ pruned.x \in Sockets /\ pruned.rules \in Seq(CopyRules)
             /\ pruned.wanted \in SUBSET CopyRules
<1> DEFINE n     == Len(rules)
           S     == [x : Sockets, rules : Seq(CopyRules), wanted : SUBSET CopyRules]
           base  == [x |-> x, rules |-> << >>, wanted |-> {}]
           step  == [p \in S \X (1..n) |-> PruneCopy(p[1], rules[p[2]])]
           Is(f) == f = [s \in SUBSET (DOMAIN rules) |->
                           IF s = {} THEN base
                           ELSE PruneCopy(f[s \ {Max(s)}], rules[Max(s)])]
           F     == CHOOSE f : Is(f)
<1>1. /\ n \in Nat /\ DOMAIN rules = 1..n
      /\ \A i \in 1..n : rules[i] \in CopyRules
  BY LenProperties, ElementOfSeq
<1> HIDE DEF n
<1>2. base \in S
  BY EmptySeq
<1>3. ASSUME NEW acc \in S, NEW rule \in CopyRules
      PROVE  PruneCopy(acc, rule) \in S
  <2> DEFINE y == CopyCancel(acc.x, rule)
             q == Append(acc.rules, rule)
             v == acc.wanted \cup {r \in {rule} : CopyInterested(acc.x, r)}
  <2>1. acc.x \in Sockets /\ acc.rules \in Seq(CopyRules) /\ acc.wanted \in SUBSET CopyRules
    OBVIOUS
  <2>2. y \in Sockets
    BY <2>1, CopyCancelTyped
  <2>3. q \in Seq(CopyRules) /\ v \in SUBSET CopyRules
    BY <2>1, AppendProperties
  <2>4. PruneCopy(acc, rule) = IF CopyDefunct(acc.x, rule) THEN [acc EXCEPT !.x = y]
                              ELSE [acc EXCEPT !.rules = q, !.wanted = v]
    BY DEF PruneCopy
  <2> HIDE DEF y, q, v
  <2>5. QED
    BY <2>2, <2>3, <2>4
<1>4. step \in [S \X (1..n) -> S]
  <2> HIDE DEF S
  <2>1. QED
    BY <1>1, <1>3
<1> HIDE DEF base
<1>5. \E f : Is(f)
  <2>1. PICK it : FoldsOver(it, n, S, base, step)
    <3> HIDE DEF S, step
    <3>1. QED
      BY <1>1, <1>2, <1>4, FoldExists
  <2>2. ASSUME NEW s \in SUBSET (1..n), s # {}
        PROVE  it[s] = PruneCopy(it[s \ {Max(s)}], rules[Max(s)])
    <3>1. Max(s) \in 1..n /\ s \ {Max(s)} \in SUBSET (1..n)
      BY <1>1, <2>2, MaxOf
    <3>2. it[s \ {Max(s)}] \in S /\ it[s] = step[<<it[s \ {Max(s)}], Max(s)>>]
      <4> HIDE DEF S, step
      <4>1. QED
        BY <2>1, <2>2, <3>1 DEF FoldsOver
    <3> HIDE DEF S
    <3>3. QED
      BY <3>1, <3>2
  <2>3. it = [s \in SUBSET (1..n) |-> it[s]] /\ it[{}] = base
    <3> HIDE DEF S, step
    <3>1. QED
      BY <2>1 DEF FoldsOver
  <2>4. Is(it)
    BY <1>1, <2>2, <2>3
  <2>5. QED
    BY <2>4
<1>6. Is(F)
  BY <1>5
<1>7. CopyLoop!Pruned(x, rules) = F[DOMAIN rules]
  BY DEF CopyLoop!Pruned, CopyLoop!FoldLeft, CopyLoop!MapThenFoldSet, Max, CopyLoop!Max,
         PruneCopy, base
<1> HIDE DEF F
<1>8. F[{}] = base
  BY <1>1, <1>6
<1>9. ASSUME NEW s \in SUBSET (1..n), s # {}, F[s \ {Max(s)}] \in S
      PROVE  F[s] = step[<<F[s \ {Max(s)}], Max(s)>>]
  <2>1. Max(s) \in 1..n
    BY <1>1, <1>9, MaxOf
  <2>2. F[s] = PruneCopy(F[s \ {Max(s)}], rules[Max(s)])
    BY <1>1, <1>6, <1>9
  <2> HIDE DEF S
  <2>3. QED
    BY <1>9, <2>1, <2>2
<1>10. F[1..n] \in S
  <2> HIDE DEF S, step
  <2>1. QED
    BY <1>1, <1>2, <1>4, <1>8, <1>9, FoldStays, ZenonT(60)
<1>11. QED
  BY <1>1, <1>7, <1>10

ServeCopy(polled, acc, rule) ==
  IF acc.result # "None" THEN [acc EXCEPT !.rules = Append(@, rule)]
  ELSE IF CopyLoop!Gone(polled, rule) THEN [acc EXCEPT !.x = CopyCancel(@, rule)]
  ELSE IF CopyLoop!Ready(polled, rule)
  THEN CopyLoop!CalledBack(acc, rule, CopyCall(acc.x, rule))
  ELSE [acc EXCEPT !.rules = Append(@, rule)]

\* Until a rule is served nothing is written; and none is taken for a busy wait.
CopyAccs(polled) ==
  {acc \in [x : Sockets, rules : Seq(CopyRules), result : {"None", "Success"}] :
     acc.result = "None" => /\ acc.x.to_thread = polled.x.to_thread
                            /\ acc.x.copy.output = polled.x.copy.output}

LEMMA ServeCopyStays ==
  ASSUME NEW polled, NEW acc \in CopyAccs(polled), NEW rule \in CopyRules
  PROVE  ServeCopy(polled, acc, rule) \in CopyAccs(polled)
<1> DEFINE gone == CopyCancel(acc.x, rule)
           q    == Append(acc.rules, rule)
           y    == CopyCall(acc.x, rule)
           kept == [acc EXCEPT !.rules = q]
           served == [x |-> y, rules |-> q, result |-> "Success"]
           R == [x : Sockets, rules : Seq(CopyRules), result : {"None", "Success"}]
<1>1. /\ acc \in R /\ acc.x \in Sockets /\ acc.rules \in Seq(CopyRules)
      /\ acc.result = "None" => /\ acc.x.to_thread = polled.x.to_thread
                                /\ acc.x.copy.output = polled.x.copy.output
  BY DEF CopyAccs
<1>2. q \in Seq(CopyRules)
  BY <1>1, AppendProperties
<1>3. kept \in CopyAccs(polled)
  <2> HIDE DEF q
  <2>1. kept \in R /\ kept.x = acc.x /\ kept.result = acc.result
    BY <1>1, <1>2
  <2> HIDE DEF kept
  <2>2. QED
    BY <1>1, <2>1 DEF CopyAccs
<1>4. CASE acc.result # "None"
  BY <1>3, <1>4 DEF ServeCopy
<1>5. CASE acc.result = "None" /\ CopyLoop!Gone(polled, rule)
  <2>1. /\ gone \in Sockets /\ gone.to_thread = acc.x.to_thread
        /\ gone.copy.output = acc.x.copy.output
    BY <1>1, CopyCancelTyped
  <2>2. ServeCopy(polled, acc, rule) = [acc EXCEPT !.x = gone]
    BY <1>5 DEF ServeCopy
  <2> HIDE DEF gone
  <2>3. /\ [acc EXCEPT !.x = gone] \in R /\ [acc EXCEPT !.x = gone].x = gone
        /\ [acc EXCEPT !.x = gone].result = "None"
    BY <1>1, <1>5, <2>1
  <2>4. [acc EXCEPT !.x = gone] \in CopyAccs(polled)
    BY <1>1, <1>5, <2>1, <2>3 DEF CopyAccs
  <2>5. QED
    BY <2>2, <2>4
<1>6. CASE /\ acc.result = "None" /\ ~CopyLoop!Gone(polled, rule)
           /\ CopyLoop!Ready(polled, rule)
  <2>1. ServeCopy(polled, acc, rule) = CopyLoop!CalledBack(acc, rule, y)
    BY <1>6 DEF ServeCopy
  <2>2. CopyPollable(polled.x, rule)
    BY <1>6 DEF CopyLoop!Ready
  <2>3. /\ rule = WriteSocket => Writable(acc.x.to_thread)
        /\ rule = WriteOutput => Writable(acc.x.copy.output)
    BY <1>1, <1>6, <2>2, CopyRulesDiffer DEF CopyPollable
  <2>4. y \in Sockets /\ ~(CopyIdle(acc.x, y, rule) /\ CopyInterested(y, rule))
    BY <1>1, <2>3, CopyCallServes
  <2> HIDE DEF y
  <2>5. ServeCopy(polled, acc, rule) = served
    BY <2>1, <2>4 DEF CopyLoop!CalledBack
  <2> HIDE DEF q
  <2>6. served \in R /\ served.result = "Success"
    BY <1>2, <2>4
  <2> HIDE DEF served
  <2>7. served \in CopyAccs(polled)
    BY <2>6 DEF CopyAccs
  <2>8. QED
    BY <2>5, <2>7
<1>7. CASE /\ acc.result = "None" /\ ~CopyLoop!Gone(polled, rule)
           /\ ~CopyLoop!Ready(polled, rule)
  BY <1>3, <1>7 DEF ServeCopy
<1>8. QED
  BY <1>4, <1>5, <1>6, <1>7

LEMMA CopyServed ==
  ASSUME NEW polled, polled.x \in Sockets, polled.rules \in Seq(CopyRules)
  PROVE  CopyLoop!Served(polled) \in CopyAccs(polled)
<1> DEFINE rules == polled.rules
           n     == Len(rules)
           S     == CopyAccs(polled)
           base  == [x |-> polled.x, rules |-> << >>, result |-> "None"]
           step  == [p \in S \X (1..n) |-> ServeCopy(polled, p[1], rules[p[2]])]
           Is(f) == f = [s \in SUBSET (DOMAIN rules) |->
                           IF s = {} THEN base
                           ELSE ServeCopy(polled, f[s \ {Max(s)}], rules[Max(s)])]
           F     == CHOOSE f : Is(f)
<1>1. /\ n \in Nat /\ DOMAIN rules = 1..n
      /\ \A i \in 1..n : rules[i] \in CopyRules
  BY LenProperties, ElementOfSeq
<1> HIDE DEF n
<1>2. base \in S
  <2>1. << >> \in Seq(CopyRules)
    BY EmptySeq
  <2>2. QED
    BY <2>1 DEF CopyAccs
<1>3. ASSUME NEW acc \in S, NEW rule \in CopyRules
      PROVE  ServeCopy(polled, acc, rule) \in S
  BY ServeCopyStays
<1> HIDE DEF S, base
<1>4. step \in [S \X (1..n) -> S]
  BY <1>1, <1>3
<1>5. \E f : Is(f)
  <2>1. PICK it : FoldsOver(it, n, S, base, step)
    <3> HIDE DEF step
    <3>1. QED
      BY <1>1, <1>2, <1>4, FoldExists
  <2>2. ASSUME NEW s \in SUBSET (1..n), s # {}
        PROVE  it[s] = ServeCopy(polled, it[s \ {Max(s)}], rules[Max(s)])
    <3>1. Max(s) \in 1..n /\ s \ {Max(s)} \in SUBSET (1..n)
      BY <1>1, <2>2, MaxOf
    <3>2. it[s \ {Max(s)}] \in S /\ it[s] = step[<<it[s \ {Max(s)}], Max(s)>>]
      <4> HIDE DEF step
      <4>1. QED
        BY <2>1, <2>2, <3>1 DEF FoldsOver
    <3>3. QED
      BY <3>1, <3>2
  <2>3. it = [s \in SUBSET (1..n) |-> it[s]] /\ it[{}] = base
    <3> HIDE DEF step
    <3>1. QED
      BY <2>1 DEF FoldsOver
  <2>4. Is(it)
    BY <1>1, <2>2, <2>3
  <2>5. QED
    BY <2>4
<1>6. Is(F)
  BY <1>5
<1>7. CopyLoop!Served(polled) = F[DOMAIN rules]
  BY DEF CopyLoop!Served, CopyLoop!FoldLeft, CopyLoop!MapThenFoldSet, Max, CopyLoop!Max,
         ServeCopy, base
<1> HIDE DEF F
<1>8. F[{}] = base
  BY <1>1, <1>6
<1>9. ASSUME NEW s \in SUBSET (1..n), s # {}, F[s \ {Max(s)}] \in S
      PROVE  F[s] = step[<<F[s \ {Max(s)}], Max(s)>>]
  <2>1. Max(s) \in 1..n
    BY <1>1, <1>9, MaxOf
  <2>2. F[s] = ServeCopy(polled, F[s \ {Max(s)}], rules[Max(s)])
    BY <1>1, <1>6, <1>9
  <2>3. QED
    BY <1>9, <2>1, <2>2
<1>10. F[1..n] \in S
  <2> HIDE DEF step
  <2>1. QED
    BY <1>1, <1>2, <1>4, <1>8, <1>9, FoldStays, ZenonT(60)
<1>11. QED
  BY <1>1, <1>7, <1>10 DEF S

(* A round of the copy throws nothing.                                     *)
LEMMA CopyRoundServes ==
  ASSUME NEW x \in Sockets
  PROVE  CopyRound(x).x \in Sockets /\ CopyRound(x).result # "BusyWait"
<1> DEFINE rules  == x.copy.copy_rules
           pruned == CopyLoop!Pruned(x, rules)
           served == CopyLoop!Served(pruned)
           next   == CopyLoop!WaitNextEvent(x, rules)
           copy   == [next.x.copy EXCEPT !.copy_rules = next.rules]
           y      == [next.x EXCEPT !.copy = copy]
<1>1. rules \in Seq(CopyRules)
  BY SocketParts, CopyParts
<1>2. pruned.x \in Sockets /\ pruned.rules \in Seq(CopyRules)
  BY <1>1, CopyPruned
<1>3. next = CopyLoop!AfterPoll(pruned)
  BY DEF CopyLoop!WaitNextEvent
<1>4. CopyRound(x) = [x |-> [next.x EXCEPT !.copy.copy_rules = next.rules],
                      result |-> next.result]
  BY DEF CopyRound, AfterCopyEvent
<1> HIDE DEF next, pruned
<1>5. served \in CopyAccs(pruned)
  BY <1>2, CopyServed
<1>6. served \in [x : Sockets, rules : Seq(CopyRules), result : {"None", "Success"}]
  BY <1>5 DEF CopyAccs
<1>7. next \in {[x |-> pruned.x, rules |-> pruned.rules, result |-> "Exit"],
                [x |-> pruned.x, rules |-> pruned.rules, result |-> "Timeout"],
                [served EXCEPT !.result = IF @ = "None" THEN "Success" ELSE @]}
  BY <1>3, Zenon DEF CopyLoop!AfterPoll
<1> HIDE DEF served
<1>8. /\ next.x \in Sockets /\ next.rules \in Seq(CopyRules)
      /\ next.result # "BusyWait"
  BY <1>2, <1>6, <1>7
<1>9. next.x.copy \in StreamCopies
  BY <1>8, SocketParts
<1>10. copy \in StreamCopies
  BY <1>8, <1>9 DEF StreamCopies
<1>11. CopyRound(x) = [x |-> y, result |-> next.result]
  BY <1>4
<1> HIDE DEF copy
<1>12. y \in Sockets
  BY <1>8, <1>10 DEF Sockets
<1>13. QED
  BY <1>8, <1>11, <1>12

-----------------------------------------------------------------------------
(* The steps of the specification. *)
LEMMA Hosts ==
  ASSUME NEW h \in Host
  PROVE  Other(h) \in Host /\ Other(h) # h
<1>1. IsFiniteSet(Host) /\ Cardinality(Host) = 2
  BY HostAssumption
<1>2. IsFiniteSet(Host \ {h}) /\ Cardinality(Host \ {h}) = 1
  BY <1>1, FS_RemoveElement
<1>3. PICK o : Host \ {h} = {o}
  BY <1>2, FS_Singleton
<1>4. o \in Host /\ o # h /\ \A g \in Host : g = h \/ g = o
  BY <1>3
<1>5. Other(h) = o
  BY <1>4 DEF Other
<1>6. QED
  BY <1>4, <1>5

LEMMA AddressesHold ==
  ASSUME NEW h \in Host
  PROVE  /\ AddressOf[h] \in Addresses /\ ListenAddress \in Addresses
         /\ Stranger \in Addresses /\ [ip |-> AnyAddress, port |-> 0] \in Addresses
BY DEF Addresses

LEMMA CarriedTyped ==
  ASSUME Inv, NEW h \in Host, NEW x \in Sockets
  PROVE  Carried(h, x) \in [Host -> Sockets]
<1> DEFINE o == Other(h)
           q == socket[o].tun_in \o x.tun_out
           n == Lesser(1, Len(q))
           held == IF x.adapter.destination = Stranger THEN socket[o].tun_in ELSE Held(o, q)
           mine == [x EXCEPT !.tun_out = << >>]
           theirs == [socket[o] EXCEPT !.tun_in = held]
<1>1. o \in Host /\ o # h /\ socket \in [Host -> Sockets] /\ socket[o] \in Sockets
  BY Hosts DEF Inv
<1> HIDE DEF o
<1>2. q \in Seq(Datagrams)
  BY <1>1, SocketParts, ConcatProperties
<1>3. Carried(h, x) = [socket EXCEPT ![h] = mine, ![o] = theirs]
  BY <1>1 DEF Carried, o
<1> HIDE DEF q
<1>4. held \in Seq(Datagrams)
  <2>1. n \in 0..Len(q)
    BY <1>2, LenProperties DEF Lesser
  <2> HIDE DEF n
  <2>2. SubSeq(q, 1, n) \in Seq(Datagrams)
    BY <1>2, <2>1, Cut
  <2>3. held \in {socket[o].tun_in, q, SubSeq(q, 1, n)}
    BY DEF Held, n
  <2>4. socket[o].tun_in \in Seq(Datagrams)
    BY <1>1, SocketParts
  <2>5. QED
    BY <1>2, <2>2, <2>3, <2>4
<1> HIDE DEF held
<1>5. mine \in Sockets
  BY EmptySeq DEF Sockets
<1>6. theirs \in Sockets
  BY <1>1, <1>4 DEF Sockets
<1> HIDE DEF mine, theirs
<1>7. QED
  BY <1>1, <1>3, <1>5, <1>6

LEMMA InitInv == Init => Inv
<1> SUFFICES ASSUME Init
             PROVE  Inv
  OBVIOUS
<1> SUFFICES ASSUME NEW h \in Host
             PROVE  socket[h] \in Sockets
  BY DEF Inv, Init
<1> DEFINE o == Other(h)
           n == setup.input[h]
           input == [bytes |-> BytesFrom(0, n), room |-> n, shut |-> TRUE]
           output == NewPipe(setup.input[o] + 1)
           copy == NewCopy(setup.buffer, input, output)
           peer == NewPeer(IsnOf[h], setup.send, setup.recv)
           adapter == IF h = Client THEN NewAdapter(AddressOf[h], AddressOf[o])
                      ELSE NewAdapter(ListenAddress, [ip |-> AnyAddress, port |-> 0])
<1>1. socket[h] = NewSocket(copy, peer, adapter, setup.in, setup.out)
  BY DEF Init
<1>2. /\ setup.input \in [Host -> Nat] /\ setup.buffer \in Nat
      /\ setup.send \in Nat /\ setup.recv \in Nat
      /\ setup.in \in Nat /\ setup.out \in Nat
  BY SetupsAssumption DEF Init
<1>3. o \in Host /\ n \in Nat /\ setup.input[o] \in Nat /\ IsnOf[h] \in SequenceNumber
  BY <1>2, Hosts, IsnAssumption
<1>4. input \in Pipes
  <2> HIDE DEF n
  <2>1. BytesFrom(0, n) \in Seq(Byte)
    BY <1>3, BytesFromProperties
  <2>2. QED
    BY <1>3, <2>1 DEF Pipes
<1>5. output \in Pipes
  <2>1. setup.input[o] + 1 \in Nat
    BY <1>3
  <2>2. QED
    BY <2>1, NewPiped
<1> HIDE DEF input, output
<1>6. copy \in StreamCopies
  <2>1. NewByteStream(setup.buffer) \in ByteStreams
    BY <1>2, NewCounted
  <2>2. <<ReadInput, WriteSocket, ReadSocket, WriteOutput>> \in Seq(CopyRules)
    BY DEF CopyRules
  <2>3. QED
    BY <1>4, <1>5, <2>1, <2>2 DEF NewCopy, StreamCopies
<1>7. peer \in Peers
  BY <1>2, <1>3, NewPeerTyped
<1>8. adapter \in Adapters
  BY <1>3, AddressesHold DEF NewAdapter, Adapters
<1>9. NewPipe(setup.in) \in Pipes /\ NewPipe(setup.out) \in Pipes
  BY <1>2, NewPiped
<1>10. <<Receive, PushOut, ReadIn, Send>> \in Seq(TcpRules)
  BY DEF TcpRules
<1>11. << >> \in Seq(TCPSegment) /\ << >> \in Seq(Datagrams)
  BY EmptySeq
<1> HIDE DEF copy, peer, adapter
<1>12. NewSocket(copy, peer, adapter, setup.in, setup.out) \in Sockets
  BY <1>6, <1>7, <1>8, <1>9, <1>10, <1>11 DEF NewSocket, Sockets
<1>13. QED
  BY <1>1, <1>12

LEMMA ArrivingTyped ==
  ASSUME Inv, NEW h \in Host
  PROVE  socket[h] \in Sockets /\ Arriving(h) \in Sockets
<1> DEFINE x == socket[h]
           rest == Tail(x.tun_in)
           y == [x EXCEPT !.tun_in = rest]
<1>1. x \in Sockets
  BY DEF Inv
<1>2. Arriving(h) \in {x, y} /\ (x.tun_in = << >> => Arriving(h) = x)
  BY DEF Arriving
<1> HIDE DEF x
<1>3. ASSUME x.tun_in # << >>
      PROVE  y \in Sockets
  <2>1. rest \in Seq(Datagrams)
    BY <1>1, <1>3, SocketParts, HeadTailProperties
  <2> HIDE DEF rest
  <2>2. QED
    BY <1>1, <2>1 DEF Sockets
<1>4. QED
  BY <1>1, <1>2, <1>3 DEF x

(* A step that replaces the state of one host.                             *)
LEMMA Replaced ==
  ASSUME Inv, NEW h \in Host, NEW x \in Sockets, socket' = [socket EXCEPT ![h] = x]
  PROVE  Inv'
BY DEF Inv

LEMMA ConnectsInv ==
  ASSUME Inv, Connects
  PROVE  Inv'
<1>1. Client \in Host /\ socket[Client] \in Sockets
  BY HostAssumption DEF Inv
<1>2. Connecting(socket[Client]) \in Sockets
  BY <1>1, OpeningTyped
<1>3. socket' = Carried(Client, Connecting(socket[Client]))
  BY DEF Connects
<1>4. QED
  BY <1>1, <1>2, <1>3, CarriedTyped DEF Inv

LEMMA ListensInv ==
  ASSUME Inv, Listens
  PROVE  Inv'
<1>1. Server \in Host /\ socket[Server] \in Sockets
  BY HostAssumption, Hosts DEF Inv, Server
<1>2. Listening(socket[Server]) \in Sockets
  BY <1>1, OpeningTyped
<1>3. socket' = Carried(Server, Listening(socket[Server]))
  BY DEF Listens
<1>4. QED
  BY <1>1, <1>2, <1>3, CarriedTyped DEF Inv

LEMMA OwnerCallsInv ==
  ASSUME Inv, NEW h \in Host, OwnerCalls(h)
  PROVE  Inv'
<1>1. CASE Listens
  BY <1>1, ListensInv
<1>2. CASE Opened(h)
  BY <1>2 DEF Opened, Inv
<1>3. CASE WaitsUntilClosed(h)
  <2>1. socket[h] \in Sockets
    BY DEF Inv
  <2>2. ShutdownOwner(socket[h]) \in Sockets
    BY <2>1, ShutdownOwnerTyped
  <2>3. socket' = [socket EXCEPT ![h] = ShutdownOwner(socket[h])]
    BY <1>3 DEF WaitsUntilClosed
  <2>4. QED
    BY <2>2, <2>3, Replaced
<1>4. CASE Joins(h)
  BY <1>4 DEF Joins, Inv
<1>5. QED
  BY <1>1, <1>2, <1>3, <1>4 DEF OwnerCalls

LEMMA CopiesInv ==
  ASSUME Inv, NEW h \in Host, Copies(h)
  PROVE  Inv'
<1> DEFINE round == CopyRound(socket[h])
<1>1. socket[h] \in Sockets
  BY DEF Inv
<1>2. round.x \in Sockets /\ round.result # "BusyWait"
  BY <1>1, CopyRoundServes
<1>3. socket' = [socket EXCEPT ![h] = round.x]
  BY <1>2 DEF Copies
<1> HIDE DEF round
<1>4. QED
  BY <1>2, <1>3, Replaced

LEMMA DestructsInv ==
  ASSUME Inv, NEW h \in Host, Destructs(h)
  PROVE  Inv'
<1> DEFINE x == [socket[h] EXCEPT !.abort = TRUE]
<1>1. socket[h] \in Sockets
  BY DEF Inv
<1>2. x \in Sockets
  BY <1>1 DEF Sockets
<1>3. socket' = [socket EXCEPT ![h] = x]
  BY DEF Destructs
<1> HIDE DEF x
<1>4. QED
  BY <1>2, <1>3, Replaced

LEMMA RunsInv ==
  ASSUME Inv, NEW h \in Host, Runs(h)
  PROVE  Inv'
<1> DEFINE served == LoopServes(Arriving(h))
           y == served.socket
<1>1. y \in Sockets
  BY ArrivingTyped, LoopServesTyped
<1>2. \/ Leaves(h, y)
      \/ \E ms \in 0..1 : Ticks(h, y, ms)
  BY DEF Runs
<1> HIDE DEF served
<1>3. CASE Leaves(h, y)
  <2>1. ThreadEnd(y) \in Sockets
    BY <1>1, ThreadEndTyped
  <2>2. socket' \in {Carried(h, y), Carried(h, ThreadEnd(y))}
    BY <1>3 DEF Leaves
  <2>3. QED
    BY <1>1, <2>1, <2>2, CarriedTyped DEF Inv
<1>4. ASSUME NEW ms \in 0..1, Ticks(h, y, ms)
      PROVE  Inv'
  <2>1. ms \in Nat
    OBVIOUS
  <2>2. LoopTicks(y, ms) \in Sockets
    BY <1>1, <2>1, LoopTicksTyped
  <2>3. socket' = Carried(h, LoopTicks(y, ms))
    BY <1>4 DEF Ticks
  <2>4. QED
    BY <2>2, <2>3, CarriedTyped DEF Inv
<1>5. QED
  BY <1>2, <1>3, <1>4

LEMMA LosesInv ==
  ASSUME Inv, NEW h \in Host, Loses(h)
  PROVE  Inv'
<1> DEFINE x == socket[h]
           read == UnwrapTcpInIp(x.adapter, Head(x.tun_in))
           rest == Tail(x.tun_in)
<1>1. x \in Sockets /\ x.tun_in # << >> /\ socket \in [Host -> Sockets]
  BY DEF Inv, Loses
<1>2. PICK adapter \in {x.adapter, DroppedRead(x.adapter, Head(x.tun_in)).adapter} :
        socket' = [socket EXCEPT ![h].tun_in = Tail(@), ![h].adapter = adapter]
  BY DEF Loses
<1>3. Head(x.tun_in) \in Datagrams /\ rest \in Seq(Datagrams) /\ x.adapter \in Adapters
  BY <1>1, SocketParts, HeadTailProperties
<1>4. read.adapter \in Adapters
  BY <1>3, UnwrapTcpTyped
<1>5. DroppedRead(x.adapter, Head(x.tun_in)).adapter = read.adapter
  <2>1. DroppedRead(x.adapter, Head(x.tun_in)) = [read EXCEPT !.segment = NoSegment]
    BY DEF DroppedRead
  <2>2. read \in [adapter : {read.adapter}, segment : {read.segment}]
    BY DEF UnwrapTcpInIp
  <2> HIDE DEF read
  <2>3. QED
    BY <2>1, <2>2
<1>6. adapter \in Adapters
  BY <1>2, <1>3, <1>4, <1>5
<1>7. socket' = [socket EXCEPT ![h] = [x EXCEPT !.tun_in = rest, !.adapter = adapter]]
  BY <1>1, <1>2
<1> HIDE DEF rest, x
<1>8. [x EXCEPT !.tun_in = rest, !.adapter = adapter] \in Sockets
  BY <1>1, <1>3, <1>6 DEF Sockets
<1>9. QED
  BY <1>7, <1>8, Replaced

LEMMA StraysInv ==
  ASSUME Inv, NEW h \in Host, NEW src \in {AddressOf[Other(h)], Stranger},
         NEW segment \in {ResetSegment, SynSegment}, Strays(h, src, segment)
  PROVE  Inv'
<1> DEFINE x == socket[h]
           dgram == [src |-> src, dst |-> AddressOf[h], segment |-> segment]
           given == Append(x.tun_in, dgram)
<1>1. x \in Sockets /\ socket \in [Host -> Sockets]
  BY DEF Inv
<1>2. segment \in TCPSegment
  <2>1. 0 \in SequenceNumber /\ 0 \in 0..Word16 - 1
    BY Word32Assumption, Word16Assumption DEF SequenceNumber
  <2>2. << >> \in Seq(Byte)
    BY EmptySeq
  <2>3. ResetSegment \in TCPSegment
    BY <2>1, <2>2 DEF ResetSegment, TCPSegment, SenderMessages, ReceiverMessages
  <2>4. SynSegment \in TCPSegment
    BY <2>1, <2>2 DEF SynSegment, TCPSegment, SenderMessages, ReceiverMessages
  <2>5. QED
    BY <2>3, <2>4
<1>3. dgram \in Datagrams
  BY <1>2, Hosts, AddressesHold DEF Datagrams
<1>4. given \in Seq(Datagrams)
  <2> HIDE DEF dgram
  <2>1. QED
    BY <1>1, <1>3, SocketParts, AppendProperties
<1>5. socket' = [socket EXCEPT ![h] = [x EXCEPT !.tun_in = given]]
  BY <1>1 DEF Strays
<1> HIDE DEF given, x
<1>6. [x EXCEPT !.tun_in = given] \in Sockets
  BY <1>1, <1>4 DEF Sockets
<1>7. QED
  BY <1>5, <1>6, Replaced

LEMMA StepInv == Inv /\ [Next]_vars => Inv'
<1> SUFFICES ASSUME Inv, [Next]_vars
             PROVE  Inv'
  OBVIOUS
<1>1. CASE Connects
  BY <1>1, ConnectsInv
<1>2. ASSUME NEW h \in Host, OwnerCalls(h)
      PROVE  Inv'
  BY <1>2, OwnerCallsInv
<1>3. ASSUME NEW h \in Host, Copies(h)
      PROVE  Inv'
  BY <1>3, CopiesInv
<1>4. ASSUME NEW h \in Host, Runs(h)
      PROVE  Inv'
  BY <1>4, RunsInv
<1>5. ASSUME NEW h \in Host, Destructs(h)
      PROVE  Inv'
  BY <1>5, DestructsInv
<1>6. ASSUME NEW h \in Host, Loses(h)
      PROVE  Inv'
  BY <1>6, LosesInv
<1>7. ASSUME NEW h \in Host, ResetByPeer(h) \/ StrangerSends(h)
      PROVE  Inv'
  BY <1>7, StraysInv DEF ResetByPeer, StrangerSends
<1>8. CASE UNCHANGED vars
  BY <1>8 DEF vars, Inv
<1>9. QED
  BY <1>1, <1>2, <1>3, <1>4, <1>5, <1>6, <1>7, <1>8 DEF Next

LEMMA InvariantInv == Spec => []Inv
<1>1. Init => Inv
  BY InitInv
<1>2. Inv /\ [Next]_vars => Inv'
  BY StepInv
<1>3. QED
  BY <1>1, <1>2, PTL DEF Spec

(* No event loop takes one of its rules for a busy wait and throws: not    *)
(* that of the TCP thread, whose rule 3 stays interested after an error    *)
(* until the owner is told, nor that of the copy, whose buffers are full   *)
(* or empty in any combination (eventloop.cc:213-219).                     *)
THEOREM NoLoopThrows == Spec => []NoBusyWait
<1>1. Inv => NoBusyWait
  BY DEF Inv, Sockets, NoBusyWait
<1>2. QED
  BY <1>1, InvariantInv, PTL
=============================================================================
