--------------------------- MODULE MachineIntegers --------------------------
(***************************************************************************)
(* The 64-bit unsigned arithmetic of the code, where it can wrap.          *)
(***************************************************************************)
EXTENDS Integers

CONSTANT Word64  \* number of values of a uint64_t

ASSUME Word64Assumption == Word64 \in Nat \ {0}

\* a - b, a + b on uint64_t.
Difference64(a, b) == IF a >= b THEN a - b ELSE a - b + Word64

Sum64(a, b) == (a + b) % Word64

=============================================================================
