----------------------------- MODULE Reassembler ----------------------------
(***************************************************************************)
(* Reassembler::insert of src/src/reassembler.cc over a record of the      *)
(* class's members.  The vectors flag and buffer, always of one length,    *)
(* are the function "buffer" on offsets 0 .. size-1 from base_index: a     *)
(* byte where flag is set, Empty where it is not.                          *)
(***************************************************************************)
EXTENDS ByteStream, MachineIntegers, Integers, FiniteSets

CONSTANT Empty  \* what an offset holds at which flag is false

ASSUME EmptyAssumption == Empty \notin Byte

ReassemblerStates(size) ==
  [base_index : Nat, unassembled_size : Nat, size : {size},
   buffer : [0..size-1 -> Byte \cup {Empty}], eof : BOOLEAN,
   initialized : BOOLEAN]

NewReassembler ==
  [base_index |-> 0, unassembled_size |-> 0, size |-> 0,
   buffer |-> [o \in 0..-1 |-> Empty], eof |-> FALSE, initialized |-> FALSE]

\* Mutated form of Initialized: one offset too many.
InitializedTooLong(r, output) ==
  IF r.initialized THEN r
  ELSE [r EXCEPT !.size = AvailableCapacity(output) + 1,
                 !.buffer = [o \in 0..AvailableCapacity(output) |-> Empty],
                 !.initialized = TRUE]

\* The vectors get their length from the capacity available at the first call.
Initialized(r, output) ==
  IF r.initialized THEN r
  ELSE [r EXCEPT !.size = AvailableCapacity(output),
                 !.buffer = [o \in 0..AvailableCapacity(output)-1 |-> Empty],
                 !.initialized = TRUE]

\* Mutated forms of WindowLength: the window is as long as the vectors, or ends
\* nowhere.
WindowOfVectors(r, first, n, output) ==
  Difference64(Lesser(r.base_index + r.size, first + n),
               Greater(r.base_index, first))

WindowUnbounded(r, first, n, output) ==
  Difference64(first + n, Greater(r.base_index, first))

\* len of the code: the substring's part inside the window that starts at
\* base_index; the unsigned difference wraps when there is no such part.
WindowLength(r, first, n, output) ==
  LET start_index == Greater(r.base_index, first)
      end_index == Lesser(r.base_index + AvailableCapacity(output), first + n)
  IN  Difference64(end_index, start_index)

\* Mutated form of Offsets: an off-by-one loses the substrings that end with
\* the next byte.
OffsetsPastNext(r, first, n, output) ==
  LET len == WindowLength(r, first, n, output)
  IN  IF first > r.base_index
      THEN (first - r.base_index)..(first - r.base_index + Lesser(len, n) - 1)
      ELSE IF first + n > r.base_index + 1 THEN 0..(Lesser(len, r.size) - 1)
                                           ELSE {}

\* The offsets the store loops write unless flag is already set there.
Offsets(r, first, n, output) ==
  LET len == WindowLength(r, first, n, output)
  IN  IF first > r.base_index
      THEN (first - r.base_index)..(first - r.base_index + Lesser(len, n) - 1)
      ELSE IF first + n > r.base_index THEN 0..(Lesser(len, r.size) - 1)
                                       ELSE {}

\* Mutated forms of Stored: a substring that starts before base_index is not
\* truncated at its front; a byte that comes twice is counted twice.
StoredUntruncated(r, first, data, at) ==
  LET fresh == {o \in at \cap (0..r.size-1) : r.buffer[o] = Empty}
      skip  == IF first > r.base_index THEN first - r.base_index ELSE 0
  IN  [r EXCEPT !.buffer = [o \in 0..r.size-1 |-> IF o \in fresh
                                                  THEN data[o - skip + 1]
                                                  ELSE r.buffer[o]],
                !.unassembled_size = @ + Cardinality(fresh)]

StoredCountedTwice(r, first, data, at) ==
  LET fresh == {o \in at \cap (0..r.size-1) : r.buffer[o] = Empty}
  IN  [r EXCEPT !.buffer = [o \in 0..r.size-1 |->
                              IF o \in fresh
                              THEN data[o + r.base_index - first + 1]
                              ELSE r.buffer[o]],
                !.unassembled_size = @ + Cardinality(at)]

\* The store loops; "at" may name offsets past the vectors' end, which C++
\* would write to all the same: OffsetsInBounds of the specification.
Stored(r, first, data, at) ==
  LET fresh == {o \in at \cap (0..r.size-1) : r.buffer[o] = Empty}
  IN  [r EXCEPT !.buffer = [o \in 0..r.size-1 |->
                              IF o \in fresh
                              THEN data[o + r.base_index - first + 1]
                              ELSE r.buffer[o]],
                !.unassembled_size = @ + Cardinality(fresh)]

\* cnt of the code: the filled offsets before the first gap.
Assembled(r) ==
  CHOOSE cnt \in 0..r.size :
    /\ \A o \in 0..cnt-1 : r.buffer[o] # Empty
    /\ cnt < r.size => r.buffer[cnt] = Empty

\* The vectors lose their first cnt entries and get cnt empty ones.
Shifted(r, cnt) ==
  [r EXCEPT !.buffer = [o \in 0..r.size-1 |->
                          IF o + cnt < r.size THEN r.buffer[o + cnt] ELSE Empty],
            !.unassembled_size = @ - cnt,
            !.base_index = @ + cnt]

AssembledBytes(r, cnt) == [k \in 1..cnt |-> r.buffer[k - 1]]

\* Mutated forms of Insert: the stream is closed with the last substring still
\* waiting for its turn; eof is forgotten by the next substring.
InsertClosesAtOnce(r, first, data, is_last_substring, output) ==
  LET opened == Initialized(r, output)
      stored == Stored(opened, first, data,
                       Offsets(opened, first, Len(data), output))
      cnt    == Assembled(stored)
      eof    == r.eof \/ is_last_substring
      pushed == Push(output, AssembledBytes(stored, cnt))
  IN  [reassembler |-> [Shifted(stored, cnt) EXCEPT !.eof = eof],
       output |-> IF eof THEN Close(pushed) ELSE pushed]

InsertForgetsEof(r, first, data, is_last_substring, output) ==
  LET opened == Initialized(r, output)
      stored == Stored(opened, first, data,
                       Offsets(opened, first, Len(data), output))
      cnt    == Assembled(stored)
      after  == [Shifted(stored, cnt) EXCEPT !.eof = is_last_substring]
      pushed == Push(output, AssembledBytes(stored, cnt))
  IN  [reassembler |-> after,
       output |-> IF after.unassembled_size = 0 /\ after.eof THEN Close(pushed)
                                                             ELSE pushed]

Insert(r, first, data, is_last_substring, output) ==
  LET opened == Initialized(r, output)
      stored == Stored(opened, first, data,
                       Offsets(opened, first, Len(data), output))
      cnt    == Assembled(stored)
      eof    == r.eof \/ is_last_substring
      after  == [Shifted(stored, cnt) EXCEPT !.eof = eof]
      pushed == Push(output, AssembledBytes(stored, cnt))
  IN  [reassembler |-> after,
       output |-> IF after.unassembled_size = 0 /\ eof THEN Close(pushed)
                                                       ELSE pushed]

BytesPending(r) == r.unassembled_size

=============================================================================
