---------------------------- MODULE MCFakeIPBolt ----------------------------
(* Instances of FakeIPBolt for TLC. *)
EXTENDS FakeIPBolt, TLC

CONSTANTS h1, h2, h3, A, B

TwoNets == {A, B}
TwoFirst == A :> 5 @@ B :> 15
TwoLast == A :> 7 @@ B :> 17

HostSymmetry == Permutations(Hosts)
=============================================================================
