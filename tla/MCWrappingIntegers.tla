------------------------- MODULE MCWrappingIntegers -------------------------
(* WrappingIntegersSpec with a small even modulus and every isn. *)
EXTENDS WrappingIntegersSpec

=============================================================================
