---------------------------- MODULE MCAnyTLSPool ----------------------------
(* Instances of AnyTLSPool for TLC. *)
EXTENDS AnyTLSPool, TLC

CONSTANTS c1, c2, c3, c4

CallSymmetry == Permutations(Calls)
=============================================================================
