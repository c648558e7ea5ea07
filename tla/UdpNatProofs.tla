---------------------------- MODULE UdpNatProofs ----------------------------
(***************************************************************************)
(* Proofs about the UDP path, for every number of packets, source          *)
(* addresses and workers, and every capacity of the queue.                 *)
(***************************************************************************)
EXTENDS UdpNat, TLAPS

(* A packet that finds room leaves the queue within its capacity.          *)
LEMMA AppendFits ==
    ASSUME NEW q \in Seq(Packets), NEW p \in Packets, Len(q) < QueueSize
    PROVE  Append(q, p) \in Seq(Packets) /\ Len(Append(q, p)) <= QueueSize
BY SizeAssumption

(* The type invariant: in particular udpQueue never exceeds its capacity.  *)
THEOREM TypeCorrect == Spec => []TypeOK
<1> USE DEF TypeOK, InWorker, InCreator, InWaiter
<1>1. Init => TypeOK
  BY SizeAssumption DEF Init
<1>2. TypeOK /\ [Next]_vars => TypeOK'
  <2> SUFFICES ASSUME TypeOK, [Next]_vars PROVE TypeOK'
    OBVIOUS
  <2> USE DEF Goto, goroutine, table, session, Order
  <2>1. CASE Take
    <3>1. Head(queue) \in Packets /\ queue' \in Seq(Packets) /\ Len(queue') <= QueueSize
      BY <2>1, SizeAssumption DEF Take
    <3>2. QED BY <2>1, <3>1 DEF Take
  <2>2. ASSUME NEW p \in Packets, Enqueue(p) PROVE TypeOK'
    <3>0. (Len(queue) < QueueSize /\ queue' = Append(queue, p)) \/ queue' = queue
      BY <2>2, Zenon DEF Enqueue, HasRoom
    <3>1. queue' \in Seq(Packets) /\ Len(queue') <= QueueSize
      BY <3>0, AppendFits
    <3>2. /\ Goto(p, "new", "queued") \/ Goto(p, "new", "done")
          /\ UNCHANGED <<key, role, found, cond, table, mutex, session, wrote, trouble>>
      BY <2>2, Zenon DEF Enqueue
    <3>3. at' \in [Packets -> {"new", "queued", "done"} \cup InWorker \cup InCreator \cup InWaiter]
      BY <3>2
    <3>4. QED BY <3>1, <3>2, <3>3
  <2>3. ASSUME NEW p \in Packets, Worker(p) PROVE TypeOK'
    <3>1. CASE Prepare(p)
      BY <3>1 DEF Prepare
    <3>2. CASE BecomeWaiter(p)
      BY <3>2 DEF BecomeWaiter
    <3>3. CASE BecomeCreator(p)
      BY <3>3 DEF BecomeCreator
    <3>4. QED BY <2>3, <3>1, <3>2, <3>3 DEF Worker
  <2>4. ASSUME NEW p \in Packets, Handle(p) PROVE TypeOK'
    <3>1. AfterHit(p) \in {"drop", "deleteLock", "unlock"}
          /\ AfterMiss(p) \in {"lock", "drop", "deleteLock", "unlock"}
      BY DEF AfterHit, AfterMiss
    <3>2. CASE HandleGet(p)
      BY <3>1, <3>2 DEF HandleGet
    <3>3. CASE HandleUpdate(p)
      BY <3>3 DEF HandleUpdate
    <3>4. CASE HandleWrite(p)
      BY <3>1, <3>4 DEF HandleWrite
    <3>5. QED BY <2>4, <3>2, <3>3, <3>4 DEF Handle
  <2>5. ASSUME NEW p \in Packets, Waiter(p) PROVE TypeOK'
    BY <2>5 DEF Waiter, Enlist, Wake, Unlock
  <2>6. ASSUME NEW p \in Packets, Creator(p) PROVE TypeOK'
    <3>0. CASE DialFails(p)
      BY <3>0 DEF DialFails
    <3>1. CASE DialSucceeds(p)
      BY <3>1 DEF DialSucceeds
    <3>2. CASE SetSession(p)
      BY <3>2 DEF SetSession
    <3>3. CASE Spawn(p)
      BY <3>3 DEF Spawn
    <3>4. CASE DeleteLock(p)
      BY <3>4 DEF DeleteLock
    <3>5. CASE Broadcast(p)
      BY <3>5 DEF Broadcast
    <3>6. QED BY <2>6, <3>0, <3>1, <3>2, <3>3, <3>4, <3>5 DEF Creator
  <2>7. ASSUME NEW p \in Packets, Drop(p) PROVE TypeOK'
    BY <2>7 DEF Drop
  <2>8. ASSUME NEW p \in Packets, Reader(p) PROVE TypeOK'
    BY <2>8 DEF Reader, ReadEnds, CloseConn, DeleteSession
  <2>9. CASE UNCHANGED vars
    BY <2>9 DEF vars
  <2>10. QED
    BY <2>1, <2>2, <2>3, <2>4, <2>5, <2>6, <2>7, <2>8, <2>9 DEF Next, Goroutine
<1>3. QED BY <1>1, <1>2, PTL DEF Spec

-----------------------------------------------------------------------------
(* Whose code a goroutine is in says which goroutine it is.                *)
RoleFits(p) ==
    /\ at[p] \in {"new", "queued", "prepare", "lock"} => role[p] = "fast"
    /\ at[p] \in {"enlist", "waiting", "woken", "unlock"} => role[p] = "waiter"
    /\ at[p] \in {"dial", "set", "spawn", "deleteLock", "broadcast"} => role[p] = "creator"

RolesFit == \A p \in Packets : RoleFits(p)

(* Each goroutine stays in the code of its role: worker, creator, waiter.   *)
LEMMA RolesFitInductive ==
    ASSUME TypeOK, RolesFit, [Next]_vars
    PROVE  RolesFit'
<1> USE DEF RolesFit, RoleFits, Goto, goroutine
<1>a. /\ at \in [Packets -> {"new", "queued", "done"} \cup InWorker \cup InCreator \cup InWaiter]
      /\ role \in [Packets -> {"fast", "creator", "waiter"}]
      /\ queue \in Seq(Packets)
  BY DEF TypeOK
<1>1. CASE Take
  <2>1. Head(queue) \in Packets
    BY <1>1, <1>a DEF Take
  <2>2. QED BY <1>1, <1>a, <2>1 DEF Take
<1>2. ASSUME NEW p \in Packets, Enqueue(p) PROVE RolesFit'
  BY <1>2, <1>a DEF Enqueue
<1>3. ASSUME NEW p \in Packets, Worker(p) PROVE RolesFit'
  BY <1>3, <1>a DEF Worker, Prepare, BecomeWaiter, BecomeCreator
<1>4. ASSUME NEW p \in Packets, Handle(p) PROVE RolesFit'
  BY <1>4, <1>a DEF Handle, HandleGet, HandleUpdate, HandleWrite, AfterHit, AfterMiss
<1>5. ASSUME NEW p \in Packets, Waiter(p) PROVE RolesFit'
  BY <1>5, <1>a DEF Waiter, Enlist, Wake, Unlock
<1>6. ASSUME NEW p \in Packets, Creator(p) PROVE RolesFit'
  <2> USE DEF Order
  <2>1. CASE Broadcast(p)
    BY <1>a, <2>1 DEF Broadcast, Listed
  <2>2. CASE ~Broadcast(p)
    BY <1>6, <1>a, <2>2 DEF Creator, DialFails, DialSucceeds, SetSession, Spawn, DeleteLock
  <2>3. QED BY <2>1, <2>2
<1>7. ASSUME NEW p \in Packets, Drop(p) PROVE RolesFit'
  BY <1>7, <1>a DEF Drop
<1>8. ASSUME NEW s \in Packets, Reader(s) PROVE RolesFit'
  BY <1>8 DEF Reader, ReadEnds, CloseConn, DeleteSession
<1>9. CASE UNCHANGED vars
  BY <1>9 DEF vars
<1>10. QED
  BY <1>1, <1>2, <1>3, <1>4, <1>5, <1>6, <1>7, <1>8, <1>9 DEF Next, Goroutine

(* Why two goroutines never make the same session: the one that does is    *)
(* the one whose lock the table holds, until it deletes that lock itself.  *)
CreatorHoldsLock == \A p \in Creating : lockMap[key[p]] = p

(* A lock of the table has one creator, so two creators have two keys.      *)
LEMMA HolderIsOne == ASSUME CreatorHoldsLock PROVE OneCreator
BY DEF CreatorHoldsLock, OneCreator

(* A step that locks nothing and moves nobody into the creator's code.     *)
LEMMA KeepsHolder ==
    ASSUME CreatorHoldsLock, UNCHANGED <<key, lockMap>>, Creating' \subseteq Creating
    PROVE  CreatorHoldsLock'
BY DEF CreatorHoldsLock

(* Every step of createConn and handleUDPConn keeps the lock with its maker.*)
LEMMA CreatorHoldsLockInductive ==
    ASSUME TypeOK, RolesFit, CreatorHoldsLock, [Next]_vars
    PROVE  CreatorHoldsLock'
<1> USE DEF RolesFit, RoleFits, CreatorHoldsLock, Creating, InCreator, Goto, goroutine, table, session
<1>a. /\ at \in [Packets -> {"new", "queued", "done"} \cup InWorker \cup InCreator \cup InWaiter]
      /\ role \in [Packets -> {"fast", "creator", "waiter"}]
      /\ lockMap \in [Keys -> Packets \cup {None}]
      /\ key \in [Packets -> Keys]
      /\ queue \in Seq(Packets)
  BY DEF TypeOK
<1>1. CASE Take
  <2>1. Head(queue) \in Packets
    BY <1>1, <1>a DEF Take
  <2>2. QED BY <1>1, <1>a, <2>1 DEF Take
<1>2. ASSUME NEW p \in Packets, Enqueue(p) PROVE CreatorHoldsLock'
  BY <1>2, <1>a DEF Enqueue
<1>3. ASSUME NEW p \in Packets, Worker(p) PROVE CreatorHoldsLock'
  <2>1. CASE Prepare(p) \/ BecomeWaiter(p)
    BY <1>a, <2>1 DEF Prepare, BecomeWaiter
  <2>2. CASE BecomeCreator(p)
    <3>1. \A q \in Creating : key[q] # key[p]
      BY <1>a, <2>2, NoneAssumption DEF BecomeCreator, Loaded
    <3>2. QED BY <1>a, <2>2, <3>1 DEF BecomeCreator
  <2>3. QED BY <1>3, <2>1, <2>2 DEF Worker
<1>4. ASSUME NEW p \in Packets, Handle(p) PROVE CreatorHoldsLock'
  <2>1. UNCHANGED <<key, lockMap, role>>
    BY <1>4 DEF Handle, HandleGet, HandleUpdate, HandleWrite
  <2>2. at[p] \in {"get", "update", "write"} /\ \A q \in Packets \ {p} : at'[q] = at[q]
    BY <1>4, <1>a DEF Handle, HandleGet, HandleUpdate, HandleWrite
  <2>3. Creating' \subseteq Creating
    BY <1>a, <2>1, <2>2
  <2>4. QED BY <2>1, <2>3, KeepsHolder
<1>5. ASSUME NEW p \in Packets, Waiter(p) PROVE CreatorHoldsLock'
  <2>1. CASE Enlist(p)
    BY <1>a, <2>1 DEF Enlist
  <2>2. CASE Wake(p)
    BY <1>a, <2>2 DEF Wake
  <2>3. CASE Unlock(p)
    BY <1>a, <2>3 DEF Unlock
  <2>4. QED BY <1>5, <2>1, <2>2, <2>3 DEF Waiter
<1>6. ASSUME NEW p \in Packets, Creator(p) PROVE CreatorHoldsLock'
  <2> USE DEF Order
  <2>1. CASE DialFails(p) \/ DialSucceeds(p)
    BY <1>a, <2>1 DEF DialFails, DialSucceeds
  <2>2. CASE SetSession(p) \/ Spawn(p)
    BY <1>a, <2>2 DEF SetSession, Spawn
  <2>3. CASE DeleteLock(p)
    <3>1. p \notin Creating'
      BY <1>a, <2>3 DEF DeleteLock
    <3>2. \A q \in Creating' : q \in Creating /\ key[q] # key[p]
      BY <1>a, <2>3, <3>1 DEF DeleteLock
    <3>3. QED BY <1>a, <2>3, <3>2 DEF DeleteLock
  <2>4. CASE Broadcast(p)
    <3>1. UNCHANGED <<key, lockMap>> /\ Creating' \subseteq Creating
      BY <1>a, <2>4 DEF Broadcast, Listed
    <3>2. QED BY <3>1, KeepsHolder
  <2>5. QED BY <1>6, <2>1, <2>2, <2>3, <2>4 DEF Creator
<1>7. ASSUME NEW p \in Packets, Drop(p) PROVE CreatorHoldsLock'
  BY <1>7, <1>a DEF Drop
<1>8. ASSUME NEW p \in Packets, Reader(p) PROVE CreatorHoldsLock'
  BY <1>8, <1>a DEF Reader, ReadEnds, CloseConn, DeleteSession
<1>9. CASE UNCHANGED vars
  BY <1>9 DEF vars
<1>10. QED
  BY <1>1, <1>2, <1>3, <1>4, <1>5, <1>6, <1>7, <1>8, <1>9 DEF Next, Goroutine

(* No two goroutines make a session for the same source address at once,   *)
(* whatever the schedule: what GetOrCreateLock is there for.               *)
THEOREM OneCreatorCorrect == Spec => []OneCreator
<1>1. Init => RolesFit /\ CreatorHoldsLock
  BY DEF Init, RolesFit, RoleFits, CreatorHoldsLock, Creating
<1>2. TypeOK /\ RolesFit /\ [Next]_vars => RolesFit'
  BY RolesFitInductive
<1>3. TypeOK /\ RolesFit /\ CreatorHoldsLock /\ [Next]_vars => CreatorHoldsLock'
  BY CreatorHoldsLockInductive
<1>4. CreatorHoldsLock => OneCreator
  BY HolderIsOne
<1>5. QED BY <1>1, <1>2, <1>3, <1>4, TypeCorrect, PTL DEF Spec

-----------------------------------------------------------------------------
(* What the table holds under a key is a session of that key, and one      *)
(* whose reader will still delete that key.                                *)
LiveEntry(k) ==
    mapping[k] # None =>
        /\ key[mapping[k]] = k
        /\ reader[mapping[k]] \in {"read", "close", "delete"} \/ at[mapping[k]] = "spawn"

EntriesLive == \A k \in Keys : LiveEntry(k)

(* Every step keeps a reader, or one about to be spawned, to each entry.    *)
LEMMA EntriesLiveInductive ==
    ASSUME TypeOK, EntriesLive, [Next]_vars
    PROVE  EntriesLive'
<1> USE DEF EntriesLive, LiveEntry, Goto, goroutine, table, session
<1>a. /\ at \in [Packets -> {"new", "queued", "done"} \cup InWorker \cup InCreator \cup InWaiter]
      /\ mapping \in [Keys -> Packets \cup {None}]
      /\ reader \in [Packets -> {"none", "read", "close", "delete", "done"}]
      /\ key \in [Packets -> Keys]
      /\ queue \in Seq(Packets)
  BY DEF TypeOK
<1>1. CASE Take
  <2>1. Head(queue) \in Packets
    BY <1>1, <1>a DEF Take
  <2>2. QED BY <1>1, <1>a, <2>1 DEF Take
<1>2. ASSUME NEW p \in Packets, Enqueue(p) PROVE EntriesLive'
  BY <1>2, <1>a DEF Enqueue
<1>3. ASSUME NEW p \in Packets, Worker(p) PROVE EntriesLive'
  BY <1>3, <1>a DEF Worker, Prepare, BecomeWaiter, BecomeCreator
<1>4. ASSUME NEW p \in Packets, Handle(p) PROVE EntriesLive'
  BY <1>4, <1>a DEF Handle, HandleGet, HandleUpdate, HandleWrite
<1>5. ASSUME NEW p \in Packets, Waiter(p) PROVE EntriesLive'
  BY <1>5, <1>a DEF Waiter, Enlist, Wake, Unlock
<1>6. ASSUME NEW p \in Packets, Creator(p) PROVE EntriesLive'
  <2> USE DEF Order
  <2>1. CASE DialFails(p) \/ DialSucceeds(p)
    BY <1>a, <2>1 DEF DialFails, DialSucceeds
  <2>2. CASE SetSession(p)
    BY <1>a, <2>2 DEF SetSession
  <2>3. CASE Spawn(p)
    BY <1>a, <2>3 DEF Spawn
  <2>4. CASE DeleteLock(p)
    BY <1>a, <2>4 DEF DeleteLock
  <2>5. CASE Broadcast(p)
    BY <1>a, <2>5 DEF Broadcast, Listed
  <2>6. QED BY <1>6, <2>1, <2>2, <2>3, <2>4, <2>5 DEF Creator
<1>7. ASSUME NEW p \in Packets, Drop(p) PROVE EntriesLive'
  BY <1>7, <1>a DEF Drop
<1>8. ASSUME NEW s \in Packets, Reader(s) PROVE EntriesLive'
  <2>1. CASE ReadEnds(s) \/ CloseConn(s)
    BY <1>a, <2>1 DEF ReadEnds, CloseConn
  <2>2. CASE DeleteSession(s)
    <3>1. mapping'[key[s]] = None /\ \A k \in Keys : mapping'[k] # None => mapping'[k] = mapping[k]
      BY <1>a, <2>2 DEF DeleteSession
    <3>2. \A k \in Keys : mapping'[k] # s
      BY <1>a, <3>1, NoneAssumption
    <3>3. QED BY <1>a, <2>2, <3>1, <3>2 DEF DeleteSession
  <2>3. QED BY <1>8, <2>1, <2>2 DEF Reader
<1>9. CASE UNCHANGED vars
  BY <1>9 DEF vars
<1>10. QED
  BY <1>1, <1>2, <1>3, <1>4, <1>5, <1>6, <1>7, <1>8, <1>9 DEF Next, Goroutine

(* The NAT table never keeps an entry that nothing will remove, although a *)
(* reader removes by key and another session may have taken its place.     *)
THEOREM NoDeadEntryCorrect == Spec => []NoDeadEntry
<1>1. Init => EntriesLive
  BY DEF Init, EntriesLive, LiveEntry
<1>2. TypeOK /\ EntriesLive /\ [Next]_vars => EntriesLive'
  BY EntriesLiveInductive
<1>3. EntriesLive => NoDeadEntry
  BY DEF EntriesLive, LiveEntry, NoDeadEntry
<1>4. QED BY <1>1, <1>2, <1>3, TypeCorrect, PTL DEF Spec
-----------------------------------------------------------------------------
(* Nothing has gone wrong for a source address: no dial failed, no session *)
(* ended.                                                                  *)
Calm(k) == k \notin trouble

(* Then its readers still read, a session that is dialled has an open      *)
(* connection, and so has the one in the table and the one a packet found. *)
QuietReader(s) == Calm(key[s]) => reader[s] \in {"none", "read"}
OpensConn(p) == Calm(key[p]) /\ at[p] = "set" => conn[p] = "open"
OpenEntry(k) == mapping[k] # None => key[mapping[k]] = k /\ (Calm(k) => conn[mapping[k]] = "open")
FoundOpen(p) ==
    at[p] \in {"update", "write"} =>
        found[p] # None /\ key[found[p]] = key[p] /\ (Calm(key[p]) => conn[found[p]] = "open")

SessionsOpen ==
    /\ \A p \in Packets : QuietReader(p) /\ OpensConn(p) /\ FoundOpen(p)
    /\ \A k \in Keys : OpenEntry(k)

(* As long as an address is calm, the connections of its sessions stay     *)
(* open: only handleUDPToLocal closes one, after its read has ended.       *)
LEMMA SessionsOpenInductive ==
    ASSUME TypeOK, RolesFit, SessionsOpen, [Next]_vars
    PROVE  SessionsOpen'
<1> USE NoneAssumption DEF Goto, Calm, goroutine, table, session, Order
<1>a. /\ at \in [Packets -> {"new", "queued", "done"} \cup InWorker \cup InCreator \cup InWaiter]
      /\ mapping \in [Keys -> Packets \cup {None}]
      /\ found \in [Packets -> Packets \cup {None}]
      /\ reader \in [Packets -> {"none", "read", "close", "delete", "done"}]
      /\ conn \in [Packets -> {"none", "open", "closed"}]
      /\ key \in [Packets -> Keys]
      /\ queue \in Seq(Packets)
  BY DEF TypeOK
<1>1. CASE Take
  <2>0. Head(queue) \in Packets
    BY <1>1, <1>a DEF Take
  <2>1. QED BY <1>1, <2>0, <1>a DEF Take, SessionsOpen, QuietReader, OpensConn, FoundOpen, OpenEntry
<1>2. ASSUME NEW p \in Packets, Enqueue(p) PROVE SessionsOpen'
  BY <1>2, <1>a DEF Enqueue, SessionsOpen, QuietReader, OpensConn, FoundOpen, OpenEntry
<1>3. ASSUME NEW p \in Packets, Prepare(p) PROVE SessionsOpen'
  BY <1>3, <1>a DEF Prepare, SessionsOpen, QuietReader, OpensConn, FoundOpen, OpenEntry
<1>4. ASSUME NEW p \in Packets, BecomeWaiter(p) PROVE SessionsOpen'
  BY <1>4, <1>a DEF BecomeWaiter, Loaded, SessionsOpen, QuietReader, OpensConn, FoundOpen, OpenEntry
<1>5. ASSUME NEW p \in Packets, BecomeCreator(p) PROVE SessionsOpen'
  BY <1>5, <1>a DEF BecomeCreator, Loaded, SessionsOpen, QuietReader, OpensConn, FoundOpen, OpenEntry
<1>6. ASSUME NEW p \in Packets, HandleGet(p) PROVE SessionsOpen'
  <2>1. AfterHit(p) \in {"drop", "deleteLock", "unlock"} /\ AfterMiss(p) \in {"lock", "drop", "deleteLock", "unlock"}
    BY DEF AfterHit, AfterMiss, TypeOK
  <2>2. /\ \A q \in Packets \ {p} : at'[q] = at[q] /\ found'[q] = found[q]
        /\ at'[p] # "set" /\ (at'[p] \in {"update", "write"} => Hit(p)) /\ found'[p] = mapping[key[p]]
        /\ UNCHANGED <<key, mapping, reader, conn, trouble>>
    BY <1>6, <1>a, <2>1 DEF HandleGet
  <2>3. QED BY <1>a, <2>2 DEF Hit, SessionsOpen, QuietReader, OpensConn, FoundOpen, OpenEntry
<1>7. ASSUME NEW p \in Packets, HandleUpdate(p) PROVE SessionsOpen'
  BY <1>7, <1>a DEF HandleUpdate, SessionsOpen, QuietReader, OpensConn, FoundOpen, OpenEntry
<1>8. ASSUME NEW p \in Packets, HandleWrite(p) PROVE SessionsOpen'
  <2>1. AfterHit(p) \in {"drop", "deleteLock", "unlock"}
    BY DEF AfterHit, TypeOK
  <2>2. QED BY <1>8, <1>a, <2>1 DEF HandleWrite, SessionsOpen, QuietReader, OpensConn, FoundOpen, OpenEntry
<1>9. ASSUME NEW p \in Packets, Enlist(p) PROVE SessionsOpen'
  BY <1>9, <1>a DEF Enlist, SessionsOpen, QuietReader, OpensConn, FoundOpen, OpenEntry
<1>10. ASSUME NEW p \in Packets, Wake(p) PROVE SessionsOpen'
  BY <1>10, <1>a DEF Wake, SessionsOpen, QuietReader, OpensConn, FoundOpen, OpenEntry
<1>11. ASSUME NEW p \in Packets, Unlock(p) PROVE SessionsOpen'
  BY <1>11, <1>a DEF Unlock, SessionsOpen, QuietReader, OpensConn, FoundOpen, OpenEntry
<1>12. ASSUME NEW p \in Packets, DialFails(p) PROVE SessionsOpen'
  BY <1>12, <1>a DEF DialFails, SessionsOpen, QuietReader, OpensConn, FoundOpen, OpenEntry
<1>13. ASSUME NEW p \in Packets, DialSucceeds(p) PROVE SessionsOpen'
  BY <1>13, <1>a DEF DialSucceeds, SessionsOpen, QuietReader, OpensConn, FoundOpen, OpenEntry
<1>14. ASSUME NEW p \in Packets, SetSession(p) PROVE SessionsOpen'
  BY <1>14, <1>a DEF SetSession, SessionsOpen, QuietReader, OpensConn, FoundOpen, OpenEntry
<1>15. ASSUME NEW p \in Packets, Spawn(p) PROVE SessionsOpen'
  BY <1>15, <1>a DEF Spawn, SessionsOpen, QuietReader, OpensConn, FoundOpen, OpenEntry
<1>16. ASSUME NEW p \in Packets, DeleteLock(p) PROVE SessionsOpen'
  BY <1>16, <1>a DEF DeleteLock, SessionsOpen, QuietReader, OpensConn, FoundOpen, OpenEntry
<1>17. ASSUME NEW p \in Packets, Broadcast(p) PROVE SessionsOpen'
  BY <1>17, <1>a DEF Broadcast, Listed, SessionsOpen, QuietReader, OpensConn, FoundOpen, OpenEntry
<1>18. ASSUME NEW p \in Packets, Drop(p) PROVE SessionsOpen'
  BY <1>18, <1>a DEF Drop, SessionsOpen, QuietReader, OpensConn, FoundOpen, OpenEntry
<1>19. ASSUME NEW p \in Packets, ReadEnds(p) PROVE SessionsOpen'
  BY <1>19, <1>a DEF ReadEnds, SessionsOpen, QuietReader, OpensConn, FoundOpen, OpenEntry
<1>20. ASSUME NEW p \in Packets, CloseConn(p) PROVE SessionsOpen'
  BY <1>20, <1>a DEF CloseConn, SessionsOpen, QuietReader, OpensConn, FoundOpen, OpenEntry
<1>21. ASSUME NEW p \in Packets, DeleteSession(p) PROVE SessionsOpen'
  BY <1>21, <1>a DEF DeleteSession, SessionsOpen, QuietReader, OpensConn, FoundOpen, OpenEntry
<1>22. CASE UNCHANGED vars
  BY <1>22, <1>a DEF vars, SessionsOpen, QuietReader, OpensConn, FoundOpen, OpenEntry
<1>23. QED
  BY <1>1, <1>2, <1>3, <1>4, <1>5, <1>6, <1>7, <1>8, <1>9, <1>10, <1>11, <1>12, <1>13, <1>14, <1>15, <1>16, <1>17, <1>18, <1>19, <1>20, <1>21, <1>22
  DEF Next, Goroutine, Worker, Handle, Waiter, Creator, Reader

(* A lock and a cond belong to a packet of the same source address.        *)
OwnLock(k) == lockMap[k] # None => key[lockMap[k]] = k
OwnCond(p) == role[p] = "waiter" => cond[p] # None /\ key[cond[p]] = key[p]
LocksOwned == (\A k \in Keys : OwnLock(k)) /\ \A p \in Packets : OwnCond(p)

(* GetOrCreateLock files every lock under the address of its maker.        *)
LEMMA LocksOwnedInductive ==
    ASSUME TypeOK, LocksOwned, [Next]_vars
    PROVE  LocksOwned'
<1> USE NoneAssumption DEF Goto, goroutine, table, session
<1>a. /\ lockMap \in [Keys -> Packets \cup {None}]
      /\ cond \in [Packets -> Packets \cup {None}]
      /\ role \in [Packets -> {"fast", "creator", "waiter"}]
      /\ key \in [Packets -> Keys]
      /\ queue \in Seq(Packets)
  BY DEF TypeOK
<1>1. CASE Take
  BY <1>1, <1>a DEF Take, LocksOwned, OwnLock, OwnCond
<1>2. ASSUME NEW p \in Packets, Enqueue(p) PROVE LocksOwned'
  BY <1>2, <1>a DEF Enqueue, LocksOwned, OwnLock, OwnCond
<1>3. ASSUME NEW p \in Packets, Prepare(p) PROVE LocksOwned'
  BY <1>3, <1>a DEF Prepare, LocksOwned, OwnLock, OwnCond
<1>4. ASSUME NEW p \in Packets, BecomeWaiter(p) PROVE LocksOwned'
  BY <1>4, <1>a DEF BecomeWaiter, Loaded, LocksOwned, OwnLock, OwnCond
<1>5. ASSUME NEW p \in Packets, BecomeCreator(p) PROVE LocksOwned'
  BY <1>5, <1>a DEF BecomeCreator, Loaded, LocksOwned, OwnLock, OwnCond
<1>6. ASSUME NEW p \in Packets, HandleGet(p) PROVE LocksOwned'
  BY <1>6, <1>a DEF HandleGet, Hit, AfterHit, AfterMiss, LocksOwned, OwnLock, OwnCond
<1>7. ASSUME NEW p \in Packets, HandleUpdate(p) PROVE LocksOwned'
  BY <1>7, <1>a DEF HandleUpdate, LocksOwned, OwnLock, OwnCond
<1>8. ASSUME NEW p \in Packets, HandleWrite(p) PROVE LocksOwned'
  BY <1>8, <1>a DEF HandleWrite, AfterHit, LocksOwned, OwnLock, OwnCond
<1>9. ASSUME NEW p \in Packets, Enlist(p) PROVE LocksOwned'
  BY <1>9, <1>a DEF Enlist, LocksOwned, OwnLock, OwnCond
<1>10. ASSUME NEW p \in Packets, Wake(p) PROVE LocksOwned'
  BY <1>10, <1>a DEF Wake, LocksOwned, OwnLock, OwnCond
<1>11. ASSUME NEW p \in Packets, Unlock(p) PROVE LocksOwned'
  BY <1>11, <1>a DEF Unlock, LocksOwned, OwnLock, OwnCond
<1>12. ASSUME NEW p \in Packets, DialFails(p) PROVE LocksOwned'
  BY <1>12, <1>a DEF DialFails, LocksOwned, OwnLock, OwnCond
<1>13. ASSUME NEW p \in Packets, DialSucceeds(p) PROVE LocksOwned'
  BY <1>13, <1>a DEF DialSucceeds, LocksOwned, OwnLock, OwnCond
<1>14. ASSUME NEW p \in Packets, SetSession(p) PROVE LocksOwned'
  BY <1>14, <1>a DEF SetSession, LocksOwned, OwnLock, OwnCond
<1>15. ASSUME NEW p \in Packets, Spawn(p) PROVE LocksOwned'
  BY <1>15, <1>a DEF Spawn, LocksOwned, OwnLock, OwnCond
<1>16. ASSUME NEW p \in Packets, DeleteLock(p) PROVE LocksOwned'
  BY <1>16, <1>a DEF DeleteLock, LocksOwned, OwnLock, OwnCond
<1>17. ASSUME NEW p \in Packets, Broadcast(p) PROVE LocksOwned'
  BY <1>17, <1>a DEF Broadcast, Listed, LocksOwned, OwnLock, OwnCond
<1>18. ASSUME NEW p \in Packets, Drop(p) PROVE LocksOwned'
  BY <1>18, <1>a DEF Drop, LocksOwned, OwnLock, OwnCond
<1>19. ASSUME NEW p \in Packets, ReadEnds(p) PROVE LocksOwned'
  BY <1>19, <1>a DEF ReadEnds, LocksOwned, OwnLock, OwnCond
<1>20. ASSUME NEW p \in Packets, CloseConn(p) PROVE LocksOwned'
  BY <1>20, <1>a DEF CloseConn, LocksOwned, OwnLock, OwnCond
<1>21. ASSUME NEW p \in Packets, DeleteSession(p) PROVE LocksOwned'
  BY <1>21, <1>a DEF DeleteSession, LocksOwned, OwnLock, OwnCond
<1>22. CASE UNCHANGED vars
  BY <1>22, <1>a DEF vars, LocksOwned, OwnLock, OwnCond
<1>23. QED
  BY <1>1, <1>2, <1>3, <1>4, <1>5, <1>6, <1>7, <1>8, <1>9, <1>10, <1>11, <1>12, <1>13, <1>14, <1>15, <1>16, <1>17, <1>18, <1>19, <1>20, <1>21, <1>22
  DEF Next, Goroutine, Worker, Handle, Waiter, Creator, Reader

(* Past SetSession the table has a session, for the goroutine that made it *)
(* and for those it wakes; a packet that has not been handled has found    *)
(* none; and what has been handled has been written.                       *)
SessionIsSet == {"spawn", "get", "update", "write", "deleteLock", "broadcast", "woken", "unlock", "drop"}
HasEntry(p) == Calm(key[p]) /\ role[p] # "fast" /\ at[p] \in SessionIsSet => mapping[key[p]] # None
NotLooked(p) == at[p] \in {"new", "queued", "prepare"} => found[p] = None
Delivered(p) ==
    at[p] \in {"deleteLock", "broadcast", "unlock", "drop"} /\ ~Rejected(p) /\ Calm(key[p])
        => wrote[p] # "nothing"
Served == \A p \in Packets : HasEntry(p) /\ NotLooked(p) /\ Delivered(p)

(* A waiter is woken only after the session is in the table, and nothing   *)
(* takes it out again while the address is calm.                           *)
LEMMA ServedInductive ==
    ASSUME TypeOK, RolesFit, SessionsOpen, LocksOwned, Served, [Next]_vars
    PROVE  Served'
<1> USE NoneAssumption DEF Goto, Calm, goroutine, table, session, Order
<1>a. /\ at \in [Packets -> {"new", "queued", "done"} \cup InWorker \cup InCreator \cup InWaiter]
      /\ mapping \in [Keys -> Packets \cup {None}]
      /\ found \in [Packets -> Packets \cup {None}]
      /\ role \in [Packets -> {"fast", "creator", "waiter"}]
      /\ key \in [Packets -> Keys]
      /\ queue \in Seq(Packets)
      /\ wrote \in [Packets -> {"nothing", "data", "error"}]
  BY DEF TypeOK
<1>1. CASE Take
  <2>0. Head(queue) \in Packets
    BY <1>1, <1>a DEF Take
  <2>1. QED BY <1>1, <2>0, <1>a DEF Take, Served, HasEntry, NotLooked, Delivered, Rejected, SessionIsSet, RolesFit, RoleFits
<1>2. ASSUME NEW p \in Packets, Enqueue(p) PROVE Served'
  BY <1>2, <1>a DEF Enqueue, Served, HasEntry, NotLooked, Delivered, Rejected, SessionIsSet, RolesFit, RoleFits
<1>3. ASSUME NEW p \in Packets, Prepare(p) PROVE Served'
  BY <1>3, <1>a DEF Prepare, Served, HasEntry, NotLooked, Delivered, Rejected, SessionIsSet, RolesFit, RoleFits
<1>4. ASSUME NEW p \in Packets, BecomeWaiter(p) PROVE Served'
  BY <1>4, <1>a DEF BecomeWaiter, Loaded, Served, HasEntry, NotLooked, Delivered, Rejected, SessionIsSet, RolesFit, RoleFits
<1>5. ASSUME NEW p \in Packets, BecomeCreator(p) PROVE Served'
  BY <1>5, <1>a DEF BecomeCreator, Loaded, Served, HasEntry, NotLooked, Delivered, Rejected, SessionIsSet, RolesFit, RoleFits
<1>6. ASSUME NEW p \in Packets, HandleGet(p) PROVE Served'
  BY <1>6, <1>a DEF HandleGet, Hit, AfterHit, AfterMiss, Served, HasEntry, NotLooked, Delivered, Rejected, SessionIsSet, RolesFit, RoleFits
<1>7. ASSUME NEW p \in Packets, HandleUpdate(p) PROVE Served'
  BY <1>7, <1>a DEF HandleUpdate, Served, HasEntry, NotLooked, Delivered, Rejected, SessionIsSet, RolesFit, RoleFits
<1>8. ASSUME NEW p \in Packets, HandleWrite(p) PROVE Served'
  <2>1. AfterHit(p) \in {"drop", "deleteLock", "unlock"}
    BY DEF AfterHit, TypeOK
  <2>2. Calm(key[p]) => wrote'[p] # "nothing"
    BY <1>8, <1>a DEF HandleWrite, SessionsOpen, FoundOpen
  <2>3. /\ at[p] = "write" /\ at'[p] = AfterHit(p) /\ \A q \in Packets \ {p} : at'[q] = at[q]
        /\ \A q \in Packets \ {p} : wrote'[q] = wrote[q]
        /\ UNCHANGED <<key, role, found, mapping, trouble>>
    BY <1>8, <1>a DEF HandleWrite
  <2>4. QED BY <1>a, <2>1, <2>2, <2>3 DEF Served, HasEntry, NotLooked, Delivered, Rejected, SessionIsSet
<1>9. ASSUME NEW p \in Packets, Enlist(p) PROVE Served'
  BY <1>9, <1>a DEF Enlist, Served, HasEntry, NotLooked, Delivered, Rejected, SessionIsSet, RolesFit, RoleFits
<1>10. ASSUME NEW p \in Packets, Wake(p) PROVE Served'
  BY <1>10, <1>a DEF Wake, Served, HasEntry, NotLooked, Delivered, Rejected, SessionIsSet, RolesFit, RoleFits
<1>11. ASSUME NEW p \in Packets, Unlock(p) PROVE Served'
  BY <1>11, <1>a DEF Unlock, Served, HasEntry, NotLooked, Delivered, Rejected, SessionIsSet, RolesFit, RoleFits
<1>12. ASSUME NEW p \in Packets, DialFails(p) PROVE Served'
  BY <1>12, <1>a DEF DialFails, Served, HasEntry, NotLooked, Delivered, Rejected, SessionIsSet, RolesFit, RoleFits
<1>13. ASSUME NEW p \in Packets, DialSucceeds(p) PROVE Served'
  BY <1>13, <1>a DEF DialSucceeds, Served, HasEntry, NotLooked, Delivered, Rejected, SessionIsSet, RolesFit, RoleFits
<1>14. ASSUME NEW p \in Packets, SetSession(p) PROVE Served'
  BY <1>14, <1>a DEF SetSession, Served, HasEntry, NotLooked, Delivered, Rejected, SessionIsSet, RolesFit, RoleFits
<1>15. ASSUME NEW p \in Packets, Spawn(p) PROVE Served'
  BY <1>15, <1>a DEF Spawn, Served, HasEntry, NotLooked, Delivered, Rejected, SessionIsSet, RolesFit, RoleFits
<1>16. ASSUME NEW p \in Packets, DeleteLock(p) PROVE Served'
  BY <1>16, <1>a DEF DeleteLock, Served, HasEntry, NotLooked, Delivered, Rejected, SessionIsSet, RolesFit, RoleFits
<1>17. ASSUME NEW p \in Packets, Broadcast(p) PROVE Served'
  <2>1. /\ at[p] = "broadcast" /\ at'[p] = "drop" /\ UNCHANGED <<key, role, found, mapping, wrote, trouble>>
        /\ \A q \in Packets \ {p} : at'[q] = at[q] \/ (at[q] = "waiting" /\ at'[q] = "woken" /\ cond[q] = p)
    BY <1>17, <1>a DEF Broadcast, Listed
  <2>2. role[p] = "creator" /\ (Calm(key[p]) => mapping[key[p]] # None)
    BY <2>1 DEF Served, HasEntry, SessionIsSet, RolesFit, RoleFits
  <2>3. \A q \in Packets : at[q] = "waiting" /\ cond[q] = p => role[q] = "waiter" /\ key[q] = key[p]
    BY DEF RolesFit, RoleFits, LocksOwned, OwnCond
  <2>4. QED BY <1>a, <2>1, <2>2, <2>3 DEF Served, HasEntry, NotLooked, Delivered, Rejected, SessionIsSet
<1>18. ASSUME NEW p \in Packets, Drop(p) PROVE Served'
  BY <1>18, <1>a DEF Drop, Served, HasEntry, NotLooked, Delivered, Rejected, SessionIsSet, RolesFit, RoleFits
<1>19. ASSUME NEW p \in Packets, ReadEnds(p) PROVE Served'
  BY <1>19, <1>a DEF ReadEnds, Served, HasEntry, NotLooked, Delivered, Rejected, SessionIsSet, RolesFit, RoleFits
<1>20. ASSUME NEW p \in Packets, CloseConn(p) PROVE Served'
  BY <1>20, <1>a DEF CloseConn, Served, HasEntry, NotLooked, Delivered, Rejected, SessionIsSet, RolesFit, RoleFits
<1>21. ASSUME NEW p \in Packets, DeleteSession(p) PROVE Served'
  <2>1. ~Calm(key[p]) /\ UNCHANGED <<at, key, role, found, wrote, trouble>>
    BY <1>21 DEF DeleteSession, SessionsOpen, QuietReader
  <2>2. \A k \in Keys : Calm(k) => mapping'[k] = mapping[k]
    BY <1>21, <1>a, <2>1 DEF DeleteSession
  <2>3. QED BY <1>a, <2>1, <2>2 DEF Served, HasEntry, NotLooked, Delivered, Rejected
<1>22. CASE UNCHANGED vars
  BY <1>22, <1>a DEF vars, Served, HasEntry, NotLooked, Delivered, Rejected, SessionIsSet, RolesFit, RoleFits
<1>23. QED
  BY <1>1, <1>2, <1>3, <1>4, <1>5, <1>6, <1>7, <1>8, <1>9, <1>10, <1>11, <1>12, <1>13, <1>14, <1>15, <1>16, <1>17, <1>18, <1>19, <1>20, <1>21, <1>22
  DEF Next, Goroutine, Worker, Handle, Waiter, Creator, Reader

(* A packet that handleUDPConn has not rejected has reached an open        *)
(* connection by the time its goroutine drops it, as long as nothing went  *)
(* wrong for its address: no interleaving of the packets of one address    *)
(* loses one between the table, the lock and the cond.                     *)
THEOREM PreparedPacketsCorrect == Spec => []PreparedPacketsSent
<1>1. Init => RolesFit /\ SessionsOpen /\ LocksOwned /\ Served
  BY NoneAssumption DEF Init, RolesFit, RoleFits, SessionsOpen, QuietReader, OpensConn, FoundOpen, OpenEntry,
     LocksOwned, OwnLock, OwnCond, Served, HasEntry, NotLooked, Delivered, SessionIsSet
<1>2. TypeOK /\ RolesFit /\ [Next]_vars => RolesFit'
  BY RolesFitInductive
<1>3. TypeOK /\ RolesFit /\ SessionsOpen /\ [Next]_vars => SessionsOpen'
  BY SessionsOpenInductive
<1>4. TypeOK /\ LocksOwned /\ [Next]_vars => LocksOwned'
  BY LocksOwnedInductive
<1>5. TypeOK /\ RolesFit /\ SessionsOpen /\ LocksOwned /\ Served /\ [Next]_vars => Served'
  BY ServedInductive
<1>6. Served => PreparedPacketsSent
  BY DEF Served, Delivered, Calm, PreparedPacketsSent
<1>7. QED BY <1>1, <1>2, <1>3, <1>4, <1>5, <1>6, TypeCorrect, PTL DEF Spec
=============================================================================
