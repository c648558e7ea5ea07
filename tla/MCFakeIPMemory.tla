--------------------------- MODULE MCFakeIPMemory ---------------------------
(* Instances of FakeIPMemory for TLC. *)
EXTENDS FakeIPMemory, TLC

CONSTANTS h1, h2, h3

(* Two ranges of three addresses, of which they share two. *)
TwoRanges == {[first |-> 5, last |-> 8], [first |-> 6, last |-> 9]}

HostSymmetry == Permutations(Hosts)
=============================================================================
