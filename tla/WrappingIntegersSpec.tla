------------------------ MODULE WrappingIntegersSpec ------------------------
(***************************************************************************)
(* A connection's use of Wrap32: a random isn, an absolute position        *)
(* (checkpoint) that only grows, sequence numbers near it that are wrapped *)
(* by one side and unwrapped by the other.  MaxCheckpoint bounds the run;  *)
(* it lies several wraps of the 32-bit numbers away.                       *)
(***************************************************************************)
EXTENDS WrappingIntegers

CONSTANT MaxCheckpoint

ASSUME MaxCheckpointAssumption ==
  MaxCheckpoint \in Nat /\ MaxCheckpoint + 2 * Word32 < Word64

VARIABLES isn, checkpoint

wrapVars == <<isn, checkpoint>>

WrapInit == isn \in SequenceNumber /\ checkpoint = 0

Move == /\ checkpoint < MaxCheckpoint
        /\ checkpoint' = checkpoint + 1
        /\ UNCHANGED isn

WrapNext == Move

WrapSpec == WrapInit /\ [][WrapNext]_wrapVars

-----------------------------------------------------------------------------
\* The absolute numbers that can be meant: all that wrap to seqno.
Candidates(seqno) ==
  {n \in 0..checkpoint + 2 * Word32 : Wrap(n, isn) = seqno}

(* unwrap() returns, of all absolute sequence numbers that wrap to the     *)
(* given one, the one closest to the checkpoint                            *)
(* (wrapping_integers.hh:22-28), also just after 0 and across the wrap.    *)
UnwrapIsClosest ==
  \A seqno \in SequenceNumber :
    LET n == Unwrap(seqno, isn, checkpoint)
    IN  /\ n \in Candidates(seqno)
        /\ \A m \in Candidates(seqno) :
             AbsoluteDelta(checkpoint, n) <= AbsoluteDelta(checkpoint, m)

(* What was wrapped is recovered from any checkpoint less than half the    *)
(* sequence space away: the assumption under which the sender and the      *)
(* receiver exchange 32-bit numbers for 64-bit positions.                  *)
RoundTrip ==
  \A n \in 0..checkpoint + Word32 :
    2 * AbsoluteDelta(n, checkpoint) < Word32 =>
      Unwrap(Wrap(n, isn), isn, checkpoint) = n

=============================================================================
