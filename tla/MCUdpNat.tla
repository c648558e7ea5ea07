----------------------------- MODULE MCUdpNat -----------------------------
(* Instances of UdpNat for TLC. *)
EXTENDS UdpNat, TLC

CONSTANTS p1, p2, p3, p4, k1, k2

PacketSymmetry == Permutations(Packets)
=============================================================================
