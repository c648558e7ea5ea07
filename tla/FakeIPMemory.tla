---------------------------- MODULE FakeIPMemory ----------------------------
(***************************************************************************)
(* The in-memory fake-ip pool: component/fakeip/pool.go over the two LRU   *)
(* caches of component/fakeip/memory.go, and the hand-over of a pool's     *)
(* store to the pool of the next configuration (dns/enhancer.go            *)
(* PatchFrom, hub/executor updateDNS).                                     *)
(*                                                                         *)
(* Every cache operation takes that cache's mutex only, so it is one step. *)
(* Lookup and LookBack hold the pool's mutex from their first step to      *)
(* their last; FlushFakeIP and CloneFrom do not take it.                   *)
(***************************************************************************)
EXTENDS LruCache, FiniteSets

CONSTANTS
    Hosts, NoHost,   \* lower-cased domain names, and none
    Ranges,          \* the fake-ip ranges a configuration may have: pool.first, pool.last
    Size,            \* entries per cache
    MaxPools,        \* bound: pools created, 1 for the first and 1 per reload
    MaxEvents        \* bound: flushes and reloads together

ASSUME RangeAssumption ==
    \A r \in Ranges : r.first \in Nat /\ r.last \in Nat /\ 4 < r.first /\ r.first < r.last
ASSUME SizeAssumption == Size \in Nat \ {0} /\ NoHost \notin Hosts
ASSUME BoundsAssumption == MaxPools \in Nat \ {0} /\ MaxEvents \in Nat

(* The addresses a pool hands out, and with where its offset starts. *)
Allocatable(r) == r.first .. (r.last - 1)
IPsOf(r) == (r.first - 1) .. (r.last - 1)
IPs == UNION {IPsOf(r) : r \in Ranges}
NoIP == 0
Opt == Options(Size, 0, FALSE, FALSE)

Pools == 1 .. MaxPools

VARIABLES
    range,                  \* the range of each pool, that of its configuration
    cacheIP, cacheHost,     \* per pool: host -> ip and ip -> host
    offset, cycle,          \* per pool: p.offset, p.cycle
    pc, req, slot, victim,  \* per pool: where the holder of its mutex stands
    flushing,               \* per pool: how far a FlushFakeIP has come
    flushes,                \* FlushFakeIP calls so far
    cur,                    \* the pool of resolver.DefaultHostMapper
    cloning,                \* how far CloneFrom into pool cur + 1 has come
    raced                   \* whether a pool was in use while it was being cloned

caches == <<cacheIP, cacheHost>>
position == <<offset, cycle>>
lookup == <<pc, req, slot, victim>>
others == <<range, flushing, flushes, cur, cloning, raced>>
vars == <<caches, position, lookup, others>>

(* What pool p may hold: addresses of its range, and of those before it,   *)
(* for a clone keeps what the old pool held even when the new one has      *)
(* another range.  A lookup that a flush meets may store first - 1.        *)
Inheritable(p) ==
    UNION {IF flushes = 0 THEN Allocatable(range[q]) ELSE IPsOf(range[q]) : q \in 1 .. p}

(* No cache ever holds an address but one that this pool or one before it  *)
(* could hand out, whatever runs at the same time: the first pool none     *)
(* outside its own range and, until a flush, neither its gateway nor its   *)
(* broadcast address.  A later pool may: CloneFrom asks nothing about the  *)
(* addresses it copies.                                                    *)
TypeOK ==
    /\ range \in [Pools -> Ranges]
    /\ \A p \in Pools :
           /\ \A i \in DOMAIN cacheIP[p] :
                  cacheIP[p][i].key \in Hosts /\ cacheIP[p][i].value \in Inheritable(p)
           /\ \A i \in DOMAIN cacheHost[p] :
                  cacheHost[p][i].key \in Inheritable(p) /\ cacheHost[p][i].value \in Hosts
           /\ slot[p] \in Inheritable(p) \cup {NoIP} /\ offset[p] \in IPsOf(range[p])
    /\ DOMAIN offset = Pools /\ DOMAIN slot = Pools /\ cycle \in [Pools -> BOOLEAN]
    /\ pc \in [Pools -> {"idle", "touchHost", "touchIP", "get", "read", "delIP", "delHost",
                         "putIP", "ret", "putHost"}]
    /\ req \in [Pools -> Hosts \cup {NoHost}] /\ victim \in [Pools -> Hosts \cup {NoHost}]
    /\ flushing \in [Pools -> {"no", "host", "reset"}] /\ flushes \in 0 .. MaxEvents
    /\ cur \in Pools /\ cloning \in {"no", "host", "publish"} /\ raced \in BOOLEAN

Init ==
    /\ range \in [Pools -> Ranges]
    /\ cacheIP = [p \in Pools |-> EmptyCache] /\ cacheHost = [p \in Pools |-> EmptyCache]
    /\ offset = [p \in Pools |-> range[p].first - 1] /\ cycle = [p \in Pools |-> FALSE]
    /\ pc = [p \in Pools |-> "idle"]
    /\ req = [p \in Pools |-> NoHost] /\ victim = [p \in Pools |-> NoHost]
    /\ slot = [p \in Pools |-> NoIP]
    /\ flushing = [p \in Pools |-> "no"] /\ flushes = 0
    /\ cur = 1 /\ cloning = "no" /\ raced = FALSE

-----------------------------------------------------------------------------
Goto(p, from, to) == pc[p] = from /\ pc' = [pc EXCEPT ![p] = to]

GetIP(p, h) == cacheIP' = [cacheIP EXCEPT ![p] = Get(@, Opt, h, 0)]
GetHost(p, i) == cacheHost' = [cacheHost EXCEPT ![p] = Get(@, Opt, i, 0)]
Finish(p) ==
    /\ req' = [req EXCEPT ![p] = NoHost] /\ slot' = [slot EXCEPT ![p] = NoIP]
    /\ UNCHANGED victim

(* Lookup, first half of GetByHost. *)
Lookup(p, h) ==
    /\ p = cur
    /\ Goto(p, "idle", IF h \in Keys(cacheIP[p]) THEN "touchHost" ELSE "get")
    /\ GetIP(p, h)
    /\ req' = [req EXCEPT ![p] = h]
    /\ slot' = [slot EXCEPT ![p] = IF h \in Keys(cacheIP[p]) THEN ValueOf(cacheIP[p], h) ELSE NoIP]
    /\ UNCHANGED <<cacheHost, position, victim, others>>

(* Second half of a GetByHost that found its host. *)
TouchHost(p) ==
    /\ Goto(p, "touchHost", "idle")
    /\ GetHost(p, slot[p])
    /\ Finish(p)
    /\ UNCHANGED <<cacheIP, position, others>>

(* LookBack: both halves of GetByIP; one that misses changes nothing. *)
LookBack(p, i) ==
    /\ p = cur /\ i \in Keys(cacheHost[p])
    /\ Goto(p, "idle", "touchIP")
    /\ GetHost(p, i)
    /\ req' = [req EXCEPT ![p] = ValueOf(cacheHost[p], i)]
    /\ UNCHANGED <<cacheIP, slot, victim, position, others>>

TouchIP(p) ==
    /\ Goto(p, "touchIP", "idle")
    /\ GetIP(p, req[p])
    /\ Finish(p)
    /\ UNCHANGED <<cacheHost, position, others>>

(* Slips: wrapping one address late, not asking whether the slot is taken, *)
(* advancing from first instead of from the offset.                        *)
NextOffsetOfFirst(p) == range[p].first
WrapsLate(p) == ~(offset[p] + 1 <= range[p].last)
TakenIfWrapped(p) == cycle[p]

(* get: advance, wrap at last, ask whether the slot is taken. *)
Wraps(p) == ~(offset[p] + 1 < range[p].last)
NextOffset(p) == IF Wraps(p) THEN range[p].first ELSE offset[p] + 1
Taken(p) == cycle[p] \/ Wraps(p) \/ NextOffset(p) \in Keys(cacheHost[p])

Advance(p) ==
    /\ Goto(p, "get", IF Taken(p) THEN "read" ELSE "putIP")
    /\ offset' = [offset EXCEPT ![p] = NextOffset(p)]
    /\ cycle' = [cycle EXCEPT ![p] = cycle[p] \/ Wraps(p)]
    /\ UNCHANGED <<caches, req, slot, victim, others>>

(* DelByIP: Get the host, delete it from cacheIP, delete ip from cacheHost. *)
ReadVictim(p) ==
    /\ Goto(p, "read", IF offset[p] \in Keys(cacheHost[p]) THEN "delIP" ELSE "delHost")
    /\ GetHost(p, offset[p])
    /\ slot' = [slot EXCEPT ![p] = offset[p]]
    /\ victim' = [victim EXCEPT ![p] =
            IF offset[p] \in Keys(cacheHost[p]) THEN ValueOf(cacheHost[p], offset[p]) ELSE NoHost]
    /\ UNCHANGED <<cacheIP, position, req, others>>

(* Slip: the slot's last owner keeps it in cacheIP. *)
KeepVictim(p) ==
    /\ Goto(p, "delIP", "delHost")
    /\ victim' = [victim EXCEPT ![p] = NoHost]
    /\ UNCHANGED <<caches, position, req, slot, others>>

DeleteVictim(p) ==
    /\ Goto(p, "delIP", "delHost")
    /\ cacheIP' = [cacheIP EXCEPT ![p] = Delete(@, victim[p])]
    /\ victim' = [victim EXCEPT ![p] = NoHost]
    /\ UNCHANGED <<cacheHost, position, req, slot, others>>

DeleteSlot(p) ==
    /\ Goto(p, "delHost", "putIP")
    /\ cacheHost' = [cacheHost EXCEPT ![p] = Delete(@, slot[p])]
    /\ slot' = [slot EXCEPT ![p] = NoIP]
    /\ UNCHANGED <<cacheIP, position, req, victim, others>>

PutByIP(p) ==
    /\ Goto(p, "putIP", "ret")
    /\ cacheHost' = [cacheHost EXCEPT ![p] = Set(@, Opt, offset[p], req[p], 0)]
    /\ UNCHANGED <<cacheIP, position, req, slot, victim, others>>

ReturnIP(p) ==
    /\ Goto(p, "ret", "putHost")
    /\ slot' = [slot EXCEPT ![p] = offset[p]]
    /\ UNCHANGED <<caches, position, req, victim, others>>

PutByHost(p) ==
    /\ Goto(p, "putHost", "idle")
    /\ cacheIP' = [cacheIP EXCEPT ![p] = Set(@, Opt, req[p], slot[p], 0)]
    /\ Finish(p)
    /\ UNCHANGED <<cacheHost, position, others>>

-----------------------------------------------------------------------------
Events == flushes + cur - 1 + IF cloning = "no" THEN 0 ELSE 1

(* FlushFakeIP: clear cacheIP, clear cacheHost, forget the position. *)
FlushIP(p) ==
    /\ p = cur /\ flushing[p] = "no"
    /\ Events < MaxEvents /\ flushes' = flushes + 1
    /\ cacheIP' = [cacheIP EXCEPT ![p] = Clear(@)]
    /\ flushing' = [flushing EXCEPT ![p] = "host"]
    /\ UNCHANGED <<cacheHost, position, lookup, range, cur, cloning, raced>>

FlushHost(p) ==
    /\ flushing[p] = "host"
    /\ cacheHost' = [cacheHost EXCEPT ![p] = Clear(@)]
    /\ flushing' = [flushing EXCEPT ![p] = "reset"]
    /\ UNCHANGED <<cacheIP, position, lookup, range, flushes, cur, cloning, raced>>

FlushReset(p) ==
    /\ flushing[p] = "reset"
    /\ cycle' = [cycle EXCEPT ![p] = FALSE]
    /\ offset' = [offset EXCEPT ![p] = range[p].first - 1]
    /\ flushing' = [flushing EXCEPT ![p] = "no"]
    /\ UNCHANGED <<caches, lookup, range, flushes, cur, cloning, raced>>

AtRest(p) == pc[p] = "idle" /\ flushing[p] = "no"

(* Reload: a new Pool, CloneTo of the one in use cache by cache, and then  *)
(* the new enhancer is published.  The clone's offset starts over.  The    *)
(* new configuration may have another fake-ip-range; CloneFrom copies all  *)
(* the same.                                                               *)
CloneIP ==
    /\ cloning = "no" /\ cur + 1 \in Pools /\ Events < MaxEvents
    /\ cacheIP' = [cacheIP EXCEPT ![cur + 1] = Clone(cacheIP[cur])]
    /\ cloning' = "host"
    /\ raced' = (raced \/ ~AtRest(cur))
    /\ UNCHANGED <<cacheHost, position, lookup, range, flushing, flushes, cur>>

CloneHost ==
    /\ cloning = "host"
    /\ cacheHost' = [cacheHost EXCEPT ![cur + 1] = Clone(cacheHost[cur])]
    /\ cloning' = "publish"
    /\ raced' = (raced \/ ~AtRest(cur) \/ cacheIP[cur + 1] # Clone(cacheIP[cur]))
    /\ UNCHANGED <<cacheIP, position, lookup, range, flushing, flushes, cur>>

(* A request that still holds the old pool finishes there and touches      *)
(* nothing else, so the old pool is forgotten.                             *)
Publish ==
    /\ cloning = "publish"
    /\ cur' = cur + 1 /\ cloning' = "no"
    /\ cacheIP' = [cacheIP EXCEPT ![cur] = EmptyCache]
    /\ cacheHost' = [cacheHost EXCEPT ![cur] = EmptyCache]
    /\ offset' = [offset EXCEPT ![cur] = range[cur].first - 1] /\ cycle' = [cycle EXCEPT ![cur] = FALSE]
    /\ pc' = [pc EXCEPT ![cur] = "idle"] /\ flushing' = [flushing EXCEPT ![cur] = "no"]
    /\ req' = [req EXCEPT ![cur] = NoHost] /\ victim' = [victim EXCEPT ![cur] = NoHost]
    /\ slot' = [slot EXCEPT ![cur] = NoIP]
    /\ UNCHANGED <<range, flushes, raced>>

LookupStep(p) ==
    \/ \E h \in Hosts : Lookup(p, h)
    \/ TouchHost(p)
    \/ Advance(p)
    \/ ReadVictim(p)
    \/ DeleteVictim(p)
    \/ DeleteSlot(p)
    \/ PutByIP(p)
    \/ ReturnIP(p)
    \/ PutByHost(p)

Flush(p) == FlushIP(p) \/ FlushHost(p) \/ FlushReset(p)

Reload == CloneIP \/ CloneHost \/ Publish

Next ==
    \/ \E p \in Pools : \/ LookupStep(p)
                        \/ \E i \in IPs : LookBack(p, i)
                        \/ TouchIP(p)
                        \/ Flush(p)
    \/ Reload

Spec == Init /\ [][Next]_vars

-----------------------------------------------------------------------------
(* No flush so far, and no pool was in use while it was being cloned.      *)
Calm == flushes = 0 /\ ~raced

(* A host that Lookup would answer from the cache is the host LookBack     *)
(* gives for that answer, whenever no operation is under way.              *)
LookBackUndoesLookup ==
    Calm /\ AtRest(cur) => \A h \in Keys(cacheIP[cur]) :
        LET i == ValueOf(cacheIP[cur], h)
        IN  i \in Keys(cacheHost[cur]) /\ ValueOf(cacheHost[cur], i) = h

(* At rest the two caches are each other's mirror image, in the same order *)
(* of use: they will evict the two halves of a mapping together.           *)
CachesMirror ==
    Calm /\ AtRest(cur) =>
        /\ Len(cacheIP[cur]) = Len(cacheHost[cur])
        /\ \A i \in DOMAIN cacheIP[cur] : /\ cacheIP[cur][i].key = cacheHost[cur][i].value
                                         /\ cacheHost[cur][i].key = cacheIP[cur][i].value

(* In the first pool, until its addresses have wrapped, a host loses its   *)
(* address only when it is the least recently used one of a full cache, or *)
(* by a flush.  (A pool that CloneFrom filled starts at the first address  *)
(* again and takes it from its owner, however recently used.)              *)
FirstPoolDropsOnlyCold ==
    [][\A h \in Keys(cacheIP[cur]) :
         h \notin Keys(cacheIP'[cur]) /\ ~cycle[cur] /\ flushes' = 0 /\ cur' = cur /\ cur = 1
           => Len(cacheIP[cur]) = Size /\ cacheIP[cur][1].key = h]_vars

-----------------------------------------------------------------------------
(* The pool as a NameService: its leases are the addresses by host in      *)
(* cacheIP, and once its store is cloned those of the clone.  What the old *)
(* pool still answers before the clone is published is no lease: the clone *)
(* does not know of it.  A flush, or a clone of a pool in use, revokes all *)
(* and ends the promise.                                                   *)
Leases ==
    LET c == cacheIP[IF cloning = "publish" THEN cur + 1 ELSE cur]
    IN  [h \in Hosts |-> IF Calm /\ h \in Keys(c) THEN ValueOf(c, h) ELSE NoIP]

NS == INSTANCE NameService WITH Addrs <- IPs, NoAddr <- NoIP, lease <- Leases

(* The pool implements the name service across evictions, recycling and    *)
(* reloads: Lookup gives an address to a host that has none only after its *)
(* last owner has lost it, although the two caches forget one by one.      *)
ImplementsNameService == NS!Spec
=============================================================================
