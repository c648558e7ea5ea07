---------------------------- MODULE NameService ----------------------------
(***************************************************************************)
(* What a fake-ip pool promises: hosts lease addresses, an address has at  *)
(* most one tenant, and a lease changes only by being granted, when the    *)
(* host has none and the address no tenant, or by being revoked, also to   *)
(* make room for a grant.  No step moves an address from one host to       *)
(* another or a host to another address, so an answer that a client still  *)
(* holds may become void but never points to somebody else's connection    *)
(* without having been void in between.                                    *)
(***************************************************************************)
CONSTANTS Hosts, Addrs, NoAddr

VARIABLE lease       \* host -> its address, or NoAddr

Init == lease = [h \in Hosts |-> NoAddr]

Revoked(S) == [h \in Hosts |-> IF h \in S THEN NoAddr ELSE lease[h]]

Grant(h, a, S) ==
    /\ lease[h] = NoAddr /\ \A g \in Hosts : lease[g] # a
    /\ lease' = [Revoked(S) EXCEPT ![h] = a]

Revoke(S) == lease' = Revoked(S)

Next ==
    \E S \in SUBSET Hosts :
        \/ Revoke(S)
        \/ \E h \in Hosts, a \in Addrs : Grant(h, a, S)

Spec == Init /\ [][Next]_lease
=============================================================================
