------------------------------- MODULE UdpNat -------------------------------
(***************************************************************************)
(* The UDP path of tunnel/tunnel.go and tunnel/connection.go over the NAT  *)
(* table of component/nat: a packet is queued, taken by a worker, sent     *)
(* through the session of its source address if the table has one, and     *)
(* otherwise makes that session or waits for the goroutine that does.      *)
(*                                                                         *)
(* A session and a lock are named after the packet whose goroutine made    *)
(* them.  Every call of a concurrent map is one step, and so is each call  *)
(* on a session; the cond's mutex and its list of waiters are modelled, so *)
(* that a Broadcast wakes only who is on the list.                         *)
(***************************************************************************)
EXTENDS Naturals, Sequences, FiniteSets

CONSTANTS
    Packets, None,   \* UDP packets, and no packet
    Keys,            \* source addresses, the keys of the table
    Workers,         \* goroutines in processUDP
    QueueSize        \* capacity of udpQueue

ASSUME NoneAssumption == None \notin Packets
ASSUME SizeAssumption == Workers \in Nat \ {0} /\ QueueSize \in Nat \ {0}

VARIABLES
    queue,     \* udpQueue
    at,        \* per packet: the next thing its goroutine does
    key,       \* per packet: its source address
    role,      \* per packet: "fast" in a worker, "creator" or "waiter" in its goroutine
    found,     \* per packet: what its last natTable.Get gave
    cond,      \* per packet: the cond it got from GetOrCreateLock
    mapping,   \* natTable.mapping: the session of a key
    lockMap,   \* natTable.lockMap: the lock of a key
    mutex,     \* per cond: who holds cond.L
    conn,      \* per session: its outbound packet connection
    reader,    \* per session: its handleUDPToLocal
    writeBack, \* per session: the packet its replies are written back to
    wrote,     \* per packet: what WriteTo on an open connection made of it
    trouble    \* keys for which a dial failed or a session ended

goroutine == <<at, role, found, cond>>
table == <<mapping, lockMap>>
session == <<conn, reader, writeBack>>
vars == <<queue, key, goroutine, table, mutex, session, wrote, trouble>>

InWorker == {"prepare", "get", "update", "write", "lock", "drop"}
InCreator == {"dial", "set", "spawn", "get", "update", "write", "deleteLock", "broadcast", "drop"}
InWaiter == {"enlist", "waiting", "woken", "get", "update", "write", "unlock", "drop"}

(* Every field has its type; udpQueue never exceeds its capacity.          *)
TypeOK ==
    /\ queue \in Seq(Packets) /\ Len(queue) <= QueueSize
    /\ at \in [Packets -> {"new", "queued", "done"} \cup InWorker \cup InCreator \cup InWaiter]
    /\ key \in [Packets -> Keys]
    /\ role \in [Packets -> {"fast", "creator", "waiter"}]
    /\ found \in [Packets -> Packets \cup {None}]
    /\ cond \in [Packets -> Packets \cup {None}]
    /\ mapping \in [Keys -> Packets \cup {None}]
    /\ lockMap \in [Keys -> Packets \cup {None}]
    /\ mutex \in [Packets -> Packets \cup {None}]
    /\ conn \in [Packets -> {"none", "open", "closed"}]
    /\ reader \in [Packets -> {"none", "read", "close", "delete", "done"}]
    /\ writeBack \in [Packets -> Packets \cup {None}]
    /\ wrote \in [Packets -> {"nothing", "data", "error"}] /\ trouble \subseteq Keys

Init ==
    /\ queue = <<>>
    /\ at = [p \in Packets |-> "new"]
    /\ key \in [Packets -> Keys]
    /\ role = [p \in Packets |-> "fast"]
    /\ found = [p \in Packets |-> None] /\ cond = [p \in Packets |-> None]
    /\ mapping = [k \in Keys |-> None] /\ lockMap = [k \in Keys |-> None]
    /\ mutex = [p \in Packets |-> None]
    /\ conn = [p \in Packets |-> "none"] /\ reader = [p \in Packets |-> "none"]
    /\ writeBack = [p \in Packets |-> None]
    /\ wrote = [p \in Packets |-> "nothing"] /\ trouble = {}

-----------------------------------------------------------------------------
Goto(p, from, to) == at[p] = from /\ at' = [at EXCEPT ![p] = to]

(* HandleUDPPacket: a full queue loses the packet, which is not dropped.   *)
HasRoom == Len(queue) < QueueSize

Enqueue(p) ==
    /\ IF HasRoom
         THEN Goto(p, "new", "queued") /\ queue' = Append(queue, p)
         ELSE Goto(p, "new", "done") /\ UNCHANGED queue
    /\ UNCHANGED <<key, role, found, cond, table, mutex, session, wrote, trouble>>

Working == {p \in Packets : role[p] = "fast" /\ at[p] \in InWorker}

(* A worker of processUDP takes the next packet. *)
Take ==
    /\ queue # <<>> /\ Cardinality(Working) < Workers
    /\ Goto(Head(queue), "queued", "prepare")
    /\ queue' = Tail(queue)
    /\ UNCHANGED <<key, role, found, cond, table, mutex, session, wrote, trouble>>

(* The checks, preHandleMetadata and the name resolution of handleUDPConn: *)
(* each failure drops the packet.                                          *)
Prepare(p) ==
    /\ \E to \in {"get", "drop"} : Goto(p, "prepare", to)
    /\ UNCHANGED <<queue, key, role, found, cond, table, mutex, session, wrote, trouble>>

(* Where handle() returns to, when it has found a session or not. *)
AfterHit(p) == CASE role[p] = "fast" -> "drop"
                 [] role[p] = "creator" -> "deleteLock"
                 [] role[p] = "waiter" -> "unlock"
AfterMiss(p) == IF role[p] = "fast" THEN "lock" ELSE AfterHit(p)

(* Slip: a waiter is content with having waited. *)
HitUnlessWaiter(p) == role[p] # "waiter" /\ mapping[key[p]] # None

(* handle(): look the session up, give it the packet to write back to,     *)
(* and write the packet's data, which fails on a closed connection and may *)
(* fail on an open one (the local stack's or the proxy's error, which      *)
(* nobody looks at: the packet is then lost and the session stays).        *)
Hit(p) == mapping[key[p]] # None

HandleGet(p) ==
    /\ Goto(p, "get", IF Hit(p) THEN "update" ELSE AfterMiss(p))
    /\ found' = [found EXCEPT ![p] = mapping[key[p]]]
    /\ UNCHANGED <<queue, key, role, cond, table, mutex, session, wrote, trouble>>

HandleUpdate(p) ==
    /\ Goto(p, "update", "write")
    /\ writeBack' = [writeBack EXCEPT ![found[p]] = p]
    /\ UNCHANGED <<queue, key, role, found, cond, table, mutex, conn, reader, wrote, trouble>>

HandleWrite(p) ==
    /\ Goto(p, "write", AfterHit(p))
    /\ IF conn[found[p]] = "open"
         THEN \E result \in {"data", "error"} : wrote' = [wrote EXCEPT ![p] = result]
         ELSE UNCHANGED wrote
    /\ UNCHANGED <<queue, key, role, found, cond, table, mutex, session, trouble>>

(* Slip: the lock counts only once there is a session. *)
LockedAndMapped(k) == lockMap[k] # None /\ mapping[k] # None

(* GetOrCreateLock, and then the goroutine that owns the packet. *)
Loaded(k) == lockMap[k] # None

BecomeWaiter(p) ==
    /\ Goto(p, "lock", "enlist") /\ Loaded(key[p])
    /\ role' = [role EXCEPT ![p] = "waiter"]
    /\ cond' = [cond EXCEPT ![p] = lockMap[key[p]]]
    /\ UNCHANGED <<queue, key, found, table, mutex, session, wrote, trouble>>

BecomeCreator(p) ==
    /\ Goto(p, "lock", "dial") /\ ~Loaded(key[p])
    /\ role' = [role EXCEPT ![p] = "creator"]
    /\ cond' = [cond EXCEPT ![p] = p]
    /\ lockMap' = [lockMap EXCEPT ![key[p]] = p]
    /\ UNCHANGED <<queue, key, found, mapping, mutex, session, wrote, trouble>>

(* defer packet.Drop(), or Drop in the worker.  What the packet found and  *)
(* what became of it is then forgotten, so that it tells no states apart.  *)
Drop(p) ==
    /\ Goto(p, "drop", "done")
    /\ found' = [found EXCEPT ![p] = None]
    /\ wrote' = [wrote EXCEPT ![p] = "nothing"]
    /\ UNCHANGED <<queue, key, role, cond, table, mutex, session, trouble>>

-----------------------------------------------------------------------------
(* The goroutine of a packet that waits.  Wait puts it on the cond's list  *)
(* and only then releases cond.L, which it takes again when it is woken.   *)
Enlist(p) ==
    /\ Goto(p, "enlist", "waiting") /\ mutex[cond[p]] = None
    /\ UNCHANGED <<queue, key, role, found, cond, table, mutex, session, wrote, trouble>>

Wake(p) ==
    /\ Goto(p, "woken", "get") /\ mutex[cond[p]] = None
    /\ mutex' = [mutex EXCEPT ![cond[p]] = p]
    /\ UNCHANGED <<queue, key, role, found, cond, table, session, wrote, trouble>>

Unlock(p) ==
    /\ Goto(p, "unlock", "drop")
    /\ mutex' = [mutex EXCEPT ![cond[p]] = None]
    /\ UNCHANGED <<queue, key, role, found, cond, table, session, wrote, trouble>>

-----------------------------------------------------------------------------
(* Slips: the reader is started before its session is in the table, a      *)
(* failed dial leaves without the deferred calls, and the waiters are woken *)
(* as soon as the connection is there.                                      *)
SpawnsFirst == [dialed |-> "spawn", spawned |-> "set", set |-> "get", failed |-> "deleteLock",
                released |-> "broadcast", woke |-> "drop"]
LeavesSilently == [dialed |-> "set", set |-> "spawn", spawned |-> "get", failed |-> "drop",
                   released |-> "broadcast", woke |-> "drop"]

(* The order of the calls of the goroutine that makes the session: the     *)
(* deferred DeleteLock and Broadcast come after everything else but Drop,  *)
(* and come when resolveMetadata or ListenPacketContext fails too.         *)
Order == [dialed |-> "set", set |-> "spawn", spawned |-> "get", failed |-> "deleteLock",
          released |-> "broadcast", woke |-> "drop"]

DialFails(p) ==
    /\ Goto(p, "dial", Order.failed)
    /\ trouble' = trouble \cup {key[p]}
    /\ UNCHANGED <<queue, key, role, found, cond, table, mutex, session, wrote>>

DialSucceeds(p) ==
    /\ Goto(p, "dial", Order.dialed)
    /\ conn' = [conn EXCEPT ![p] = "open"]
    /\ UNCHANGED <<queue, key, role, found, cond, table, mutex, reader, writeBack, wrote, trouble>>

SetSession(p) ==
    /\ Goto(p, "set", Order.set)
    /\ mapping' = [mapping EXCEPT ![key[p]] = p]
    /\ writeBack' = [writeBack EXCEPT ![p] = p]
    /\ UNCHANGED <<queue, key, role, found, cond, lockMap, mutex, conn, reader, wrote, trouble>>

Spawn(p) ==
    /\ Goto(p, "spawn", Order.spawned)
    /\ reader' = [reader EXCEPT ![p] = "read"]
    /\ UNCHANGED <<queue, key, role, found, cond, table, mutex, conn, writeBack, wrote, trouble>>

DeleteLock(p) ==
    /\ Goto(p, "deleteLock", Order.released)
    /\ lockMap' = [lockMap EXCEPT ![key[p]] = None]
    /\ UNCHANGED <<queue, key, role, found, cond, mapping, mutex, session, wrote, trouble>>

(* Broadcast wakes the goroutines that are on the cond's list. *)
Listed(c) == {p \in Packets : at[p] = "waiting" /\ cond[p] = c}

Broadcast(p) ==
    /\ at[p] = "broadcast"
    /\ at' = [q \in Packets |-> IF q = p THEN Order.woke
                                ELSE IF q \in Listed(p) THEN "woken" ELSE at[q]]
    /\ UNCHANGED <<queue, key, role, found, cond, table, mutex, session, wrote, trouble>>

-----------------------------------------------------------------------------
(* handleUDPToLocal of session s: a reply that is written back changes     *)
(* nothing here; an error or a timeout of the read, or an error of the     *)
(* write-back, ends it.                                                    *)
ReadEnds(s) ==
    /\ reader[s] = "read" /\ reader' = [reader EXCEPT ![s] = "close"]
    /\ trouble' = trouble \cup {key[s]}
    /\ UNCHANGED <<queue, key, goroutine, table, mutex, conn, writeBack, wrote>>

CloseConn(s) ==
    /\ reader[s] = "close" /\ reader' = [reader EXCEPT ![s] = "delete"]
    /\ conn' = [conn EXCEPT ![s] = "closed"]
    /\ UNCHANGED <<queue, key, goroutine, table, mutex, writeBack, wrote, trouble>>

(* Delete goes by the key, whoever's session the table holds by now. *)
DeleteSession(s) ==
    /\ reader[s] = "delete" /\ reader' = [reader EXCEPT ![s] = "done"]
    /\ mapping' = [mapping EXCEPT ![key[s]] = None]
    /\ UNCHANGED <<queue, key, goroutine, lockMap, mutex, conn, writeBack, wrote, trouble>>

-----------------------------------------------------------------------------
Handle(p) == HandleGet(p) \/ HandleUpdate(p) \/ HandleWrite(p)

Worker(p) == Prepare(p) \/ BecomeWaiter(p) \/ BecomeCreator(p)

Waiter(p) == Enlist(p) \/ Wake(p) \/ Unlock(p)

Creator(p) ==
    \/ DialFails(p)
    \/ DialSucceeds(p)
    \/ SetSession(p)
    \/ Spawn(p)
    \/ DeleteLock(p)
    \/ Broadcast(p)

Goroutine(p) == Worker(p) \/ Handle(p) \/ Waiter(p) \/ Creator(p) \/ Drop(p)

Reader(s) == ReadEnds(s) \/ CloseConn(s) \/ DeleteSession(s)

Next ==
    \/ Take
    \/ \E p \in Packets : Enqueue(p) \/ Goroutine(p) \/ Reader(p)

(* Every goroutine that can run does, and a dial ends by its timeout; no   *)
(* packet has to arrive and no session has to end.                         *)
Fairness ==
    /\ WF_vars(Take)
    /\ \A p \in Packets : WF_vars(Goroutine(p)) /\ WF_vars(CloseConn(p) \/ DeleteSession(p))

Spec == Init /\ [][Next]_vars
FairSpec == Spec /\ Fairness

-----------------------------------------------------------------------------
(* Creating p holds the lock of its key, until natTable.DeleteLock. *)
Creating == {p \in Packets : role[p] = "creator" /\ at[p] \in InCreator \ {"broadcast", "drop"}}

(* No two goroutines make a session for the same source address at once.   *)
OneCreator == \A p, q \in Creating : key[p] = key[q] => p = q

(* The table never keeps a session that is over: whatever it holds, a      *)
(* reader is there, or about to start, to take it out.                     *)
NoDeadEntry ==
    \A k \in Keys : mapping[k] # None =>
        \/ reader[mapping[k]] \in {"read", "close", "delete"}
        \/ at[mapping[k]] = "spawn"

Rejected(p) == role[p] = "fast" /\ found[p] = None

(* As long as no dial for its source address has failed and no session of  *)
(* it has ended, a packet that handleUDPConn has not rejected has been     *)
(* written to an open connection by the time it is dropped, however the    *)
(* packets of that address overlap: nothing but the error of that WriteTo  *)
(* itself, which the code discards, loses it.                              *)
PreparedPacketsSent ==
    \A p \in Packets :
        at[p] \in {"unlock", "drop"} /\ ~Rejected(p) /\ key[p] \notin trouble
            => wrote[p] # "nothing"

(* A packet that waits on a cond whose lock is still in the table is woken *)
(* and dropped: the deferred Broadcast comes after every return.           *)
EnlistedPacketsServed ==
    \A p \in Packets :
        (at[p] = "waiting" /\ lockMap[key[p]] = cond[p]) ~> (at[p] = "done")

(* Every packet that a worker took is dropped in the end.                  *)
TakenPacketsDropped ==
    \A p \in Packets : (at[p] = "prepare") ~> (at[p] = "done")
=============================================================================
