----------------------------- MODULE FakeIPBolt -----------------------------
(***************************************************************************)
(* The persistent fake-ip pool: component/fakeip/pool.go over the bbolt    *)
(* store of component/fakeip/cachefile.go and                              *)
(* component/profile/cachefile/cache.go.                                   *)
(*                                                                         *)
(* The bucket "fakeip" holds host -> ip and ip -> host under separate      *)
(* keys, each written by a transaction of its own; the mutex of a Pool     *)
(* covers Lookup, LookBack and Exist but neither FlushFakeIP nor           *)
(* StoreState, and every configuration reload opens a second Pool on the   *)
(* same bucket, publishes it later or not at all, and requests may still   *)
(* hold the first one.  The process may die between any two transactions.  *)
(*                                                                         *)
(* A Lookup that finds its host, LookBack and Exist only read: they take   *)
(* no step here, and what they would answer is a function of the bucket.   *)
(***************************************************************************)
EXTENDS Integers

CONSTANTS
    Hosts,       \* lower-cased domain names (Lookup folds the case first)
    NoHost,      \* the absent host
    Nets,        \* the fake-ip-range values the configuration may take
    First, Last, \* per net: pool.first and pool.last, as integers
    MaxBoots,    \* bound: how many pools are ever created
    MaxFaults    \* bound: API flushes, failed writes of a Lookup, overlapping pools

ASSUME HostAssumption == NoHost \notin Hosts

ASSUME NetAssumption ==
    /\ First \in [Nets -> Nat] /\ Last \in [Nets -> Nat]
    /\ \A n \in Nets : 4 < First[n] /\ First[n] < Last[n]

(* Ranges are prefixes: two that overlap are one inside the other.         *)
ASSUME PrefixAssumption ==
    \A m, n \in Nets : First[m] - 4 <= First[n] - 4 =>
        Last[m] < First[n] - 4 \/ Last[n] <= Last[m] \/ First[m] = First[n]

ASSUME BoundAssumption == MaxBoots \in Nat /\ MaxFaults \in Nat

NoIP == 0

(* New: the masked address is first - 4, the gateway is first - 3. *)
Gateway(n) == First[n] - 3
Contains(n, ip) == ip \in (First[n] - 4) .. Last[n]

(* dns/enhancer.go: inside the range, neither gateway nor broadcast. *)
IsFakeIP(n, ip) == Contains(n, ip) /\ ip # Gateway(n) /\ ip # Last[n]

(* Every address an offset may denote. *)
IPs == UNION {(First[n] - 4) .. Last[n] : n \in Nets}

Pools == {1, 2}           \* the pool in use and one it replaced

VARIABLES
    ipOf, hostOf,             \* the bucket: host -> ip and ip -> host
    savedOffset, savedCycle,  \* the bucket: offsetKey, and whether cycleKey exists
    live,                     \* the pools some goroutine of the process holds
    cur,                      \* the pool of resolver.DefaultHostMapper, 0 for none
    opened,                   \* the pool of a configuration not yet applied, 0 for none
    net, offset, cycle,       \* per pool: its range, p.offset, p.cycle
    pc, req, slot, victim,    \* per pool: where the holder of its mutex stands
    flushing,                 \* pools whose bucket is emptied and that are not yet reset
    storing,                  \* pool whose StoreState has yet to look at cycle, 0 for none
    boots, faults             \* bounded counters

bucket == <<ipOf, hostOf, savedOffset, savedCycle>>
pools == <<live, cur, opened, net, offset, cycle>>
lookup == <<pc, req, slot, victim>>
vars == <<ipOf, hostOf, savedOffset, savedCycle, live, cur, opened, net, offset, cycle,
          pc, req, slot, victim, flushing, storing, boots, faults>>

(* No pool ever stands on an address outside IPs, nor a bucket entry. *)
TypeOK ==
    /\ ipOf \in [Hosts -> IPs \cup {NoIP}]
    /\ hostOf \in [IPs -> Hosts \cup {NoHost}]
    /\ savedOffset \in IPs \cup {NoIP}
    /\ savedCycle \in BOOLEAN
    /\ live \subseteq Pools /\ cur \in live \cup {0} /\ opened \in live \cup {0}
    /\ net \in [Pools -> Nets]
    /\ offset \in [Pools -> IPs]
    /\ \A p \in Pools : Contains(net[p], offset[p])
    /\ cycle \in [Pools -> BOOLEAN]
    /\ pc \in [Pools -> {"idle", "get", "read", "del", "putIP", "ret", "putHost"}]
    /\ req \in [Pools -> Hosts \cup {NoHost}]
    /\ slot \in [Pools -> IPs \cup {NoIP}]
    /\ \A p \in Pools : /\ pc[p] # "idle" => req[p] \in Hosts
                        /\ pc[p] \in {"del", "putHost"} => slot[p] \in IPs
    /\ victim \in [Pools -> Hosts \cup {NoHost}]
    /\ flushing \subseteq Pools
    /\ storing \in Pools \cup {0}
    /\ boots \in 0 .. MaxBoots /\ faults \in 0 .. MaxFaults

Init ==
    /\ ipOf = [h \in Hosts |-> NoIP] /\ hostOf = [i \in IPs |-> NoHost]
    /\ savedOffset = NoIP /\ savedCycle = FALSE
    /\ live = {} /\ cur = 0 /\ opened = 0
    /\ net \in {[p \in Pools |-> n] : n \in Nets}
    /\ offset = [p \in Pools |-> First[net[p]] - 1]
    /\ cycle = [p \in Pools |-> FALSE]
    /\ pc = [p \in Pools |-> "idle"] /\ req = [p \in Pools |-> NoHost]
    /\ slot = [p \in Pools |-> NoIP] /\ victim = [p \in Pools |-> NoHost]
    /\ flushing = {} /\ storing = 0
    /\ boots = 0 /\ faults = 0

-----------------------------------------------------------------------------
(* Lookup of a host that is not in the store, one step per transaction.    *)

Goto(p, from, to) == pc[p] = from /\ pc' = [pc EXCEPT ![p] = to]

(* A step that is counted as a fault, and one that may be. *)
Fault == faults < MaxFaults /\ faults' = faults + 1
FaultUnless(c) == IF c THEN UNCHANGED faults ELSE Fault

(* db.Batch succeeds, or fails and the caller only logs it. *)
Commit(ok) == FaultUnless(ok)

(* Lock; GetByHost misses.  A request may still hold a replaced pool, but  *)
(* none has one that is not published.                                     *)
Begin(p, h) ==
    /\ p \in live \ {opened} /\ ipOf[h] = NoIP
    /\ FaultUnless(p = cur)
    /\ Goto(p, "idle", "get")
    /\ req' = [req EXCEPT ![p] = h]
    /\ UNCHANGED <<bucket, pools, slot, victim, flushing, storing, boots>>

(* Slips in the definitions below: wrapping one address late, not asking   *)
(* the store whether the slot is taken.                                    *)
WrapsLate(p) == ~(offset[p] + 1 <= Last[net[p]])
TakenIfWrapped(p) == cycle[p]

(* get: advance the offset, wrap at last, and ask whether the slot is taken. *)
Wraps(p) == ~(offset[p] + 1 < Last[net[p]])
NextOffset(p) == IF Wraps(p) THEN First[net[p]] ELSE offset[p] + 1
Taken(p) == cycle[p] \/ Wraps(p) \/ hostOf[NextOffset(p)] # NoHost

Advance(p) ==
    /\ Goto(p, "get", IF Taken(p) THEN "read" ELSE "putIP")
    /\ offset' = [offset EXCEPT ![p] = NextOffset(p)]
    /\ cycle' = [cycle EXCEPT ![p] = cycle[p] \/ Wraps(p)]
    /\ UNCHANGED <<bucket, live, cur, opened, net, req, slot, victim, flushing, storing, boots, faults>>

(* DelByIP reads the host of its address in one transaction ... *)
ReadVictim(p) ==
    /\ Goto(p, "read", "del")
    /\ slot' = [slot EXCEPT ![p] = offset[p]]
    /\ victim' = [victim EXCEPT ![p] = hostOf[offset[p]]]
    /\ UNCHANGED <<bucket, pools, req, flushing, storing, boots, faults>>

(* ... and DelFakeipPair deletes both keys in another. *)
DeletePair(p, ok) ==
    /\ Goto(p, "del", "putIP")
    /\ Commit(ok)
    /\ IF ok THEN /\ hostOf' = [hostOf EXCEPT ![slot[p]] = NoHost]
                  /\ ipOf' = [h \in Hosts |-> IF h = victim[p] THEN NoIP ELSE ipOf[h]]
             ELSE UNCHANGED <<hostOf, ipOf>>
    /\ slot' = [slot EXCEPT ![p] = NoIP] /\ victim' = [victim EXCEPT ![p] = NoHost]
    /\ UNCHANGED <<savedOffset, savedCycle, pools, req, flushing, storing, boots>>

PutByIP(p, ok) ==
    /\ Goto(p, "putIP", "ret")
    /\ Commit(ok)
    /\ hostOf' = IF ok THEN [hostOf EXCEPT ![offset[p]] = req[p]] ELSE hostOf
    /\ UNCHANGED <<ipOf, savedOffset, savedCycle, pools, req, slot, victim,
                   flushing, storing, boots>>

(* get returns p.offset, read again after the write. *)
ReturnIP(p) ==
    /\ Goto(p, "ret", "putHost")
    /\ slot' = [slot EXCEPT ![p] = offset[p]]
    /\ UNCHANGED <<bucket, pools, req, victim, flushing, storing, boots, faults>>

(* PutByHost, then unlock. *)
PutByHost(p, ok) ==
    /\ Goto(p, "putHost", "idle")
    /\ Commit(ok)
    /\ ipOf' = IF ok THEN [ipOf EXCEPT ![req[p]] = slot[p]] ELSE ipOf
    /\ req' = [req EXCEPT ![p] = NoHost] /\ slot' = [slot EXCEPT ![p] = NoIP]
    /\ UNCHANGED <<hostOf, savedOffset, savedCycle, pools, victim, flushing, storing, boots>>

-----------------------------------------------------------------------------
(* The operations outside the mutex.                                       *)

EmptyBucket ==
    /\ ipOf' = [h \in Hosts |-> NoIP] /\ hostOf' = [i \in IPs |-> NoHost]
    /\ savedOffset' = NoIP /\ savedCycle' = FALSE

(* FlushFakeIP of the API: delete the bucket ... *)
FlushStore(p) ==
    /\ p = cur /\ p \in live \ flushing
    /\ Fault
    /\ EmptyBucket
    /\ flushing' = flushing \cup {p}
    /\ UNCHANGED <<pools, lookup, storing, boots>>

(* ... then forget the position. *)
FlushReset(p) ==
    /\ p \in flushing
    /\ cycle' = [cycle EXCEPT ![p] = FALSE]
    /\ offset' = [offset EXCEPT ![p] = First[net[p]] - 1]
    /\ flushing' = flushing \ {p}
    /\ UNCHANGED <<bucket, live, cur, opened, net, lookup, storing, boots, faults>>

(* StoreState at Shutdown: offsetKey first ... *)
StoreOffset(p, ok) ==
    /\ p = cur /\ p \in live /\ storing = 0
    /\ savedOffset' = IF ok THEN offset[p] ELSE savedOffset
    /\ storing' = p
    /\ UNCHANGED <<ipOf, hostOf, savedCycle, pools, lookup, flushing, boots, faults>>

(* ... then cycleKey if the pool has wrapped.  A transaction that fails    *)
(* leaves what was saved before, as a missing shutdown does: no fault.     *)
StoreCycle(p, ok) ==
    /\ storing = p
    /\ savedCycle' = (savedCycle \/ (ok /\ cycle[p]))
    /\ storing' = 0
    /\ UNCHANGED <<ipOf, hostOf, savedOffset, pools, lookup, flushing, boots, faults>>

-----------------------------------------------------------------------------
(* New with restoreState, when a configuration is parsed: the old pool     *)
(* goes on until the new one is published, and goroutines that are in the  *)
(* middle of an operation keep the pool they hold.                         *)

Busy(p) == pc[p] # "idle" \/ p \in flushing \/ storing = p
Quiet == \A q \in live : ~Busy(q)

Discards(n) ==
    IF savedOffset # NoIP THEN ~Contains(n, savedOffset) ELSE hostOf[First[n]] # NoHost

(* A flush that fails (not ok) is ignored: bucket and cycle stay, and the  *)
(* offset is that of an empty bucket.  One that works under a busy pool is *)
(* counted as a fault.                                                     *)
Open(p, n, ok) ==
    /\ boots < MaxBoots /\ boots' = boots + 1
    /\ opened = 0 /\ p \notin live
    /\ FaultUnless(Discards(n) /\ ok => Quiet)
    /\ live' = live \cup {p} /\ opened' = p
    /\ net' = [net EXCEPT ![p] = n]
    /\ cycle' = [cycle EXCEPT ![p] = savedCycle /\ ~(Discards(n) /\ ok)]
    /\ offset' = [offset EXCEPT ![p] =
            IF savedOffset = NoIP \/ Discards(n) THEN First[n] - 1 ELSE savedOffset]
    /\ IF Discards(n) /\ ok THEN EmptyBucket ELSE UNCHANGED bucket
    /\ UNCHANGED <<cur, lookup, flushing, storing>>

(* updateDNS: from now on requests find the new pool. *)
Publish ==
    /\ opened # 0
    /\ FaultUnless(Quiet)
    /\ cur' = opened /\ opened' = 0
    /\ UNCHANGED <<bucket, live, net, offset, cycle, lookup, flushing, storing, boots>>

(* The last goroutine that held a replaced pool is done, or the rest of a  *)
(* configuration was rejected after its pool was made.  What is left of an *)
(* unreachable pool is reset, so that it tells no states apart.            *)
Retire(p) ==
    /\ p \in live \ {cur} /\ ~Busy(p)
    /\ live' = live \ {p} /\ opened' = IF p = opened THEN 0 ELSE opened
    /\ offset' = [offset EXCEPT ![p] = First[net[p]] - 1]
    /\ cycle' = [cycle EXCEPT ![p] = FALSE]
    /\ UNCHANGED <<bucket, cur, net, lookup, flushing, storing, boots, faults>>

(* The process dies; committed transactions survive. *)
Crash ==
    /\ live # {}
    /\ live' = {} /\ cur' = 0 /\ opened' = 0
    /\ offset' = [p \in Pools |-> First[net[p]] - 1]
    /\ cycle' = [p \in Pools |-> FALSE]
    /\ pc' = [p \in Pools |-> "idle"] /\ req' = [p \in Pools |-> NoHost]
    /\ slot' = [p \in Pools |-> NoIP] /\ victim' = [p \in Pools |-> NoHost]
    /\ flushing' = {} /\ storing' = 0
    /\ UNCHANGED <<bucket, net, boots, faults>>

LookupStep(p) ==
    \/ \E h \in Hosts : Begin(p, h)
    \/ Advance(p)
    \/ ReadVictim(p)
    \/ \E ok \in BOOLEAN : DeletePair(p, ok)
    \/ \E ok \in BOOLEAN : PutByIP(p, ok)
    \/ ReturnIP(p)
    \/ \E ok \in BOOLEAN : PutByHost(p, ok)

Next ==
    \/ \E p \in Pools : \/ LookupStep(p)
                        \/ FlushStore(p)
                        \/ FlushReset(p)
                        \/ \E ok \in BOOLEAN : StoreOffset(p, ok) \/ StoreCycle(p, ok)
                        \/ Retire(p)
    \/ \E p \in Pools, n \in Nets, ok \in BOOLEAN : Open(p, n, ok)
    \/ Publish
    \/ Crash

Spec == Init /\ [][Next]_vars

-----------------------------------------------------------------------------
(* As long as no write of a Lookup failed, nobody flushed the pool through *)
(* the API, and no pool was published, flushed on opening or used while    *)
(* another one was busy - crashes, shutdowns that are missing or save      *)
(* nothing, restarts, rejected configurations, changes of range and a      *)
(* flush on them that fails included - a host that has an address is the   *)
(* host of that address: LookBack undoes Lookup, and no two hosts share an *)
(* address, in the middle of a Lookup too.                                 *)
LookBackUndoesLookup ==
    faults = 0 => \A h \in Hosts : ipOf[h] # NoIP => hostOf[ipOf[h]] = h

(* What holds in the middle of a Lookup: its host has no address yet, the  *)
(* slot it is about to fill belongs to nobody, and the half-written        *)
(* mapping is the one it will complete.                                    *)
LookupInProgress ==
    faults = 0 => flushing = {} /\ \A p \in Pools : pc[p] # "idle" =>
        /\ p \in live /\ p = cur
        /\ ipOf[req[p]] = NoIP
        /\ pc[p] = "del" => slot[p] = offset[p] /\ victim[p] = hostOf[offset[p]]
        /\ pc[p] = "putIP" => \A h \in Hosts : ipOf[h] # offset[p]
        /\ pc[p] \in {"ret", "putHost"} => hostOf[offset[p]] = req[p]
        /\ pc[p] = "putHost" => slot[p] = offset[p]

(* Whatever fails, overlaps or is restored, no host ever gets the gateway, *)
(* the broadcast address or an address outside the configured ranges.      *)
AnswersAllocatable ==
    \A h \in Hosts : ipOf[h] # NoIP => \E n \in Nets : IsFakeIP(n, ipOf[h])

-----------------------------------------------------------------------------
(* The bucket as a NameService: its leases are the addresses by host.  The *)
(* first fault revokes them all, and nothing is promised after it.         *)
Leases == IF faults = 0 THEN ipOf ELSE [h \in Hosts |-> NoIP]

NS == INSTANCE NameService WITH Addrs <- IPs, NoAddr <- NoIP, lease <- Leases

(* The pool implements the name service: through every crash, restart,     *)
(* change of range and recycling of an address, Lookup gives an address to *)
(* a host that has none, and only after its last owner has lost it.        *)
ImplementsNameService == NS!Spec
=============================================================================
