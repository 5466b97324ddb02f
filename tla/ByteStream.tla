----------------------------- MODULE ByteStream -----------------------------
(***************************************************************************)
(* The flow-controlled byte queue of src/src/byte_stream.{hh,cc} as a      *)
(* record whose fields are the class's members, with one operator per      *)
(* method of Writer and Reader.  A byte is represented by its index in the *)
(* stream it belongs to, so that a stream whose content is intact holds    *)
(* consecutive numbers.                                                    *)
(***************************************************************************)
EXTENDS Naturals, Sequences

\* std::min, used by the pushing and the reassembling code.
Lesser(a, b) == IF a <= b THEN a ELSE b

\* std::max.
Greater(a, b) == IF a >= b THEN a ELSE b

Byte == Nat

\* The n bytes of the stream from index first on, and what it is for a
\* sequence of bytes to be such a run.
BytesFrom(first, n) == [k \in 1..n |-> first + k - 1]

Contiguous(bytes, first) == \A k \in 1..Len(bytes) : bytes[k] = first + k - 1

StreamStates ==
  [capacity_ : Nat, stream : Seq(Byte), bytes_read : Nat, bytes_write : Nat,
   error_ : BOOLEAN, close_ : BOOLEAN]

NewByteStream(capacity) ==
  [capacity_ |-> capacity, stream |-> << >>, bytes_read |-> 0,
   bytes_write |-> 0, error_ |-> FALSE, close_ |-> FALSE]

-----------------------------------------------------------------------------
(* Writer *)

AvailableCapacity(s) == s.capacity_ - Len(s.stream)

BytesPushed(s) == s.bytes_write

IsClosed(s) == s.close_

\* Mutated form of Push: the available capacity is not looked at.
PushUnbounded(s, data) ==
  [s EXCEPT !.stream = @ \o data, !.bytes_write = @ + Len(data)]

\* Writer::push takes what fits and drops the rest; it does not look at close_.
Push(s, data) ==
  LET length_write == Lesser(Len(data), AvailableCapacity(s))
  IN  [s EXCEPT !.stream = @ \o SubSeq(data, 1, length_write),
                !.bytes_write = @ + length_write]

Close(s) == [s EXCEPT !.close_ = TRUE]

SetError(s) == [s EXCEPT !.error_ = TRUE]

-----------------------------------------------------------------------------
(* Reader *)

BytesBuffered(s) == s.bytes_write - s.bytes_read

BytesPopped(s) == s.bytes_read

HasError(s) == s.error_

\* Mutated forms of IsFinished: an empty stream counts as a finished one; a
\* stream with an error never does.
IsDrained(s) == s.bytes_write = s.bytes_read

IsFinishedCleanly(s) ==
  s.close_ /\ ~s.error_ /\ s.bytes_write = s.bytes_read

IsFinished(s) == s.close_ /\ s.bytes_write = s.bytes_read

\* Mutated form of Pop: the bytes are erased but not counted.
PopUncounted(s, len) ==
  IF len > Len(s.stream)
  THEN [s EXCEPT !.error_ = TRUE]
  ELSE [s EXCEPT !.stream = SubSeq(@, len + 1, Len(@))]

\* Mutated form of Pop: one byte too few is erased.
PopOffByOne(s, len) ==
  IF len > Len(s.stream)
  THEN [s EXCEPT !.error_ = TRUE]
  ELSE [s EXCEPT !.stream = SubSeq(@, len, Len(@)),
                 !.bytes_read = @ + len]

\* Popping more than is buffered is the reader's error and removes nothing.
Pop(s, len) ==
  IF len > Len(s.stream)
  THEN [s EXCEPT !.error_ = TRUE]
  ELSE [s EXCEPT !.stream = SubSeq(@, len + 1, Len(@)),
                 !.bytes_read = @ + len]

\* The helper read(): peek and pop at most len bytes.  The loop of the code
\* runs at most once, as peek() returns the whole buffer.
ReadOut(s, len) == SubSeq(s.stream, 1, Lesser(len, BytesBuffered(s)))

Read(s, len) == Pop(s, Lesser(len, BytesBuffered(s)))

-----------------------------------------------------------------------------
\* A stream no byte of which was lost, repeated or reordered: the counters
\* account for the buffer and the buffer holds the bytes between them.
Intact(s) == /\ s \in StreamStates
             /\ Len(s.stream) <= s.capacity_
             /\ s.bytes_write = s.bytes_read + Len(s.stream)
             /\ Contiguous(s.stream, s.bytes_read)

=============================================================================
