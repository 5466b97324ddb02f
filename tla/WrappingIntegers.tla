-------------------------- MODULE WrappingIntegers --------------------------
(***************************************************************************)
(* Wrap32 of src/src/wrapping_integers.{hh,cc}: a 32-bit sequence number   *)
(* is an element of 0 .. Word32-1; absolute sequence numbers are uint64_t. *)
(***************************************************************************)
EXTENDS MachineIntegers

CONSTANT Word32  \* number of values of a uint32_t

ASSUME Word32Assumption == Word32 \in Nat \ {0}

SequenceNumber == 0..Word32 - 1

\* operator+, whose sum is truncated to 32 bits.
Advanced(raw_value, n) == (raw_value + n) % Word32

Wrap(n, zero_point) == Advanced(zero_point, n)

AbsoluteDelta(a, b) == IF a < b THEN b - a ELSE a - b

\* Mutated form of Offset32: what the comment in the code warns of.
OffsetAbsolute(seqno, isn) == AbsoluteDelta(seqno, isn)

\* seqno - isn as a number below 2^32: tmp before the comparison.
Offset32(seqno, isn) ==
  IF seqno < isn THEN Word32 - (isn - seqno) ELSE seqno - isn

\* Mutated form of Unwrap: the candidate on the checkpoint's near side is
\* returned without a look at the other one.
UnwrapOneSided(seqno, isn, checkpoint) ==
  LET tmp == Offset32(seqno, isn)
  IN  IF tmp >= checkpoint THEN checkpoint + ((tmp - checkpoint) % Word32)
                           ELSE checkpoint - ((checkpoint - tmp) % Word32)

\* Of the two numbers around the checkpoint that wrap to seqno, the closer one;
\* between equally close ones the first, which is below the checkpoint.
Unwrap(seqno, isn, checkpoint) ==
  LET tmp   == Offset32(seqno, isn)
      above == tmp >= checkpoint
      near  == IF above THEN checkpoint + ((tmp - checkpoint) % Word32)
                        ELSE checkpoint - ((checkpoint - tmp) % Word32)
      other == IF above THEN Difference64(near, Word32)
                        ELSE Sum64(near, Word32)
  IN  IF AbsoluteDelta(checkpoint, other) < AbsoluteDelta(checkpoint, near)
      THEN other ELSE near

=============================================================================
