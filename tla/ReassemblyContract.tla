------------------------- MODULE ReassemblyContract -------------------------
(***************************************************************************)
(* What src/src/reassembler.hh:25-36 promises: substrings arrive in any    *)
(* order and overlap; every byte that could be written if the gaps before  *)
(* it were filled is kept, every other one is dropped; what is contiguous  *)
(* is written at once; the stream is closed after its last byte.           *)
(***************************************************************************)
EXTENDS Naturals

CONSTANTS Capacity,     \* of the output stream
          StreamLength  \* bytes of the stream being reassembled

VARIABLES known,   \* the indices learned and kept, or already written
          pushed,  \* bytes written to the output
          popped,  \* bytes taken out of it by its reader
          ended,   \* the last substring was seen
          closed   \* the output is closed

cvars == <<known, pushed, popped, ended, closed>>

CInit == /\ known = {}
         /\ pushed = 0
         /\ popped = 0
         /\ ended = FALSE
         /\ closed = FALSE

\* The indices that can be written without anything more being read.
Window == pushed..(popped + Capacity - 1)

Learn(substring, is_last) ==
  /\ known' = known \cup (substring \cap Window)
  /\ pushed' \in 0..StreamLength /\ pushed' \notin known' /\ 0..pushed' - 1 \subseteq known'
  /\ ended' = (ended \/ is_last)
  /\ closed' = (closed \/ (ended' /\ pushed' = StreamLength))
  /\ UNCHANGED popped

Take(n) == /\ popped + n <= pushed
           /\ popped' = popped + n
           /\ UNCHANGED <<known, pushed, ended, closed>>

CNext == \/ \E first, end \in 0..StreamLength, is_last \in BOOLEAN :
              Learn(first..end - 1, is_last)
         \/ \E n \in 1..Capacity : Take(n)

CSpec == CInit /\ [][CNext]_cvars

=============================================================================
