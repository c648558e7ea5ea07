-------------------------- MODULE FakeIPBoltProofs --------------------------
(***************************************************************************)
(* Proofs about the persistent fake-ip pool, for every set of hosts, every *)
(* set of ranges and every number of boots.                                *)
(***************************************************************************)
EXTENDS FakeIPBolt, TLAPS

(* The addresses of a range are addresses of the model. *)
LEMMA ContainsIPs ==
    ASSUME NEW n \in Nets, NEW ip, Contains(n, ip)
    PROVE  ip \in IPs
BY DEF Contains, IPs

(* The ends of a range belong to it. *)
LEMMA RangeFacts ==
    ASSUME NEW n \in Nets
    PROVE  /\ First[n] \in Nat /\ Last[n] \in Nat
           /\ 4 < First[n] /\ First[n] < Last[n]
           /\ Contains(n, First[n]) /\ Contains(n, First[n] - 1)
           /\ First[n] \in IPs /\ First[n] - 1 \in IPs
<1>1. First[n] \in Nat /\ Last[n] \in Nat /\ 4 < First[n] /\ First[n] < Last[n]
  BY NetAssumption
<1>2. Contains(n, First[n]) /\ Contains(n, First[n] - 1)
  BY <1>1 DEF Contains
<1>3. QED BY <1>1, <1>2, ContainsIPs

(* get never leaves the range the pool stands in. *)
LEMMA NextOffsetInRange ==
    ASSUME TypeOK, NEW p \in Pools
    PROVE  Contains(net[p], NextOffset(p)) /\ NextOffset(p) \in IPs
<1>1. net[p] \in Nets /\ Contains(net[p], offset[p])
  BY DEF TypeOK
<1>2. First[net[p]] \in Nat /\ Last[net[p]] \in Nat /\ First[net[p]] < Last[net[p]]
      /\ Contains(net[p], First[net[p]])
  BY <1>1, RangeFacts
<1>3. Contains(net[p], NextOffset(p))
  BY <1>1, <1>2 DEF NextOffset, Wraps, Contains
<1>4. QED BY <1>1, <1>3, ContainsIPs

(* The type invariant, of every schedule: offsets stay in their ranges.    *)
THEOREM TypeCorrect == Spec => []TypeOK
<1>1. Init => TypeOK
  <2> SUFFICES ASSUME Init PROVE TypeOK
    OBVIOUS
  <2>1. PICK n \in Nets : net = [p \in Pools |-> n]
    BY DEF Init
  <2>2. \A p \in Pools : net[p] = n
    BY <2>1
  <2>3. offset = [p \in Pools |-> First[n] - 1]
    BY <2>2 DEF Init
  <2>4. First[n] - 1 \in IPs /\ Contains(n, First[n] - 1)
    BY RangeFacts
  <2>5. net \in [Pools -> Nets] /\ offset \in [Pools -> IPs]
        /\ \A p \in Pools : Contains(net[p], offset[p])
    BY <2>1, <2>2, <2>3, <2>4
  <2>6. boots \in 0 .. MaxBoots /\ faults \in 0 .. MaxFaults
    BY BoundAssumption DEF Init
  <2>7. \A p \in Pools : pc[p] = "idle"
    BY DEF Init
  <2>8. QED BY <2>5, <2>6, <2>7 DEF Init, TypeOK
<1>2. TypeOK /\ [Next]_vars => TypeOK'
  <2> SUFFICES ASSUME TypeOK, [Next]_vars PROVE TypeOK'
    OBVIOUS
  <2> USE DEF TypeOK, Goto, bucket, pools, lookup
  <2>1. ASSUME NEW p \in Pools, NEW h \in Hosts, Begin(p, h) PROVE TypeOK'
    BY <2>1, BoundAssumption DEF Begin, FaultUnless, Fault
  <2>2. ASSUME NEW p \in Pools, Advance(p) PROVE TypeOK'
    BY <2>2, NextOffsetInRange DEF Advance
  <2>3. ASSUME NEW p \in Pools, ReadVictim(p) PROVE TypeOK'
    BY <2>3 DEF ReadVictim
  <2>4. ASSUME NEW p \in Pools, NEW ok \in BOOLEAN, DeletePair(p, ok) PROVE TypeOK'
    BY <2>4, BoundAssumption DEF DeletePair, Commit, FaultUnless, Fault
  <2>5. ASSUME NEW p \in Pools, NEW ok \in BOOLEAN, PutByIP(p, ok) PROVE TypeOK'
    BY <2>5, BoundAssumption DEF PutByIP, Commit, FaultUnless, Fault
  <2>6. ASSUME NEW p \in Pools, ReturnIP(p) PROVE TypeOK'
    BY <2>6 DEF ReturnIP
  <2>7. ASSUME NEW p \in Pools, NEW ok \in BOOLEAN, PutByHost(p, ok) PROVE TypeOK'
    BY <2>7, BoundAssumption DEF PutByHost, Commit, FaultUnless, Fault
  <2>8. ASSUME NEW p \in Pools, FlushStore(p) PROVE TypeOK'
    <3>1. faults' \in 0 .. MaxFaults
      BY <2>8, BoundAssumption DEF FlushStore, Fault
    <3>2. QED BY <2>8, <3>1 DEF FlushStore, EmptyBucket
  <2>9. ASSUME NEW p \in Pools, FlushReset(p) PROVE TypeOK'
    BY <2>9, RangeFacts DEF FlushReset
  <2>10. ASSUME NEW p \in Pools, NEW ok \in BOOLEAN, StoreOffset(p, ok) PROVE TypeOK'
    BY <2>10 DEF StoreOffset
  <2>11. ASSUME NEW p \in Pools, NEW ok \in BOOLEAN, StoreCycle(p, ok) PROVE TypeOK'
    BY <2>11 DEF StoreCycle
  <2>12. ASSUME NEW p \in Pools, NEW n \in Nets, NEW ok \in BOOLEAN, Open(p, n, ok) PROVE TypeOK'
    <3>1. Contains(n, offset'[p]) /\ offset'[p] \in IPs
      BY <2>12, RangeFacts, ContainsIPs DEF Open, Discards
    <3>2. boots' \in 0 .. MaxBoots
      BY <2>12, BoundAssumption DEF Open
    <3>3. faults' \in 0 .. MaxFaults
      BY <2>12, BoundAssumption DEF Open, FaultUnless, Fault
    <3>4. /\ ipOf' \in [Hosts -> IPs \cup {NoIP}] /\ hostOf' \in [IPs -> Hosts \cup {NoHost}]
          /\ savedOffset' \in IPs \cup {NoIP} /\ savedCycle' \in BOOLEAN
      BY <2>12 DEF Open, EmptyBucket
    <3>5. \A q \in Pools : Contains(net'[q], offset'[q]) /\ net'[q] \in Nets /\ offset'[q] \in IPs
      BY <2>12, <3>1 DEF Open
    <3>6. QED BY <2>12, <3>2, <3>3, <3>4, <3>5 DEF Open
  <2>13. ASSUME NEW p \in Pools, Retire(p) PROVE TypeOK'
    BY <2>13, RangeFacts DEF Retire, Busy
  <2>16. CASE Publish
    BY <2>16, BoundAssumption DEF Publish, FaultUnless, Fault
  <2>14. CASE Crash
    BY <2>14, RangeFacts DEF Crash
  <2>15. CASE UNCHANGED vars
    BY <2>15 DEF vars, Contains
  <2>17. QED
    BY <2>1, <2>2, <2>3, <2>4, <2>5, <2>6, <2>7, <2>8, <2>9, <2>10, <2>11,
       <2>12, <2>13, <2>14, <2>15, <2>16 DEF Next, LookupStep
<1>3. QED BY <1>1, <1>2, PTL DEF Spec

-----------------------------------------------------------------------------
(* Inductive: with the types, what holds between and within Lookups.       *)
Inv == TypeOK /\ LookBackUndoesLookup /\ LookupInProgress

(* What was once counted as a fault stays counted. *)
LEMMA FaultsGrow ==
    ASSUME TypeOK, [Next]_vars
    PROVE  faults' = 0 => faults = 0
<1> USE DEF TypeOK, FaultUnless, Fault, Commit
<1>1. ASSUME NEW p \in Pools, LookupStep(p) PROVE faults' = 0 => faults = 0
  BY <1>1 DEF LookupStep, Begin, Advance, ReadVictim, DeletePair, PutByIP, ReturnIP, PutByHost
<1>2. ASSUME NEW p \in Pools,
             \/ FlushStore(p) \/ FlushReset(p) \/ Retire(p)
             \/ \E ok \in BOOLEAN : StoreOffset(p, ok) \/ StoreCycle(p, ok)
      PROVE  faults' = 0 => faults = 0
  BY <1>2 DEF FlushStore, FlushReset, StoreOffset, StoreCycle, Retire
<1>3. ASSUME NEW p \in Pools, NEW n \in Nets, NEW ok \in BOOLEAN, Open(p, n, ok)
      PROVE  faults' = 0 => faults = 0
  BY <1>3 DEF Open
<1>4. CASE Publish
  BY <1>4 DEF Publish
<1>5. QED BY <1>1, <1>2, <1>3, <1>4 DEF Next, Crash, vars

(* One step of a Lookup. *)
LEMMA LookupStepKeeps ==
    ASSUME Inv, TypeOK', faults = 0, faults' = 0, NEW p \in Pools, LookupStep(p)
    PROVE  LookBackUndoesLookup' /\ LookupInProgress'
<1> USE DEF Inv, LookBackUndoesLookup, LookupInProgress
<1>0. NoIP \notin IPs
  BY NetAssumption DEF IPs, NoIP
<1>1. \A q \in Pools : q # p => pc[q] = "idle" /\ pc'[q] = "idle"
  <2>1. live' = live /\ cur' = cur
    BY DEF LookupStep, Begin, Advance, ReadVictim, DeletePair, PutByIP, ReturnIP,
           PutByHost, Goto, pools
  <2>2. pc' = [pc EXCEPT ![p] = pc'[p]]
    BY DEF LookupStep, Begin, Advance, ReadVictim, DeletePair, PutByIP, ReturnIP,
           PutByHost, Goto, TypeOK
  <2>3. p = cur
    BY DEF LookupStep, Begin, Advance, ReadVictim, DeletePair, PutByIP, ReturnIP,
           PutByHost, Goto, FaultUnless, Fault
  <2>4. QED BY <2>1, <2>2, <2>3 DEF TypeOK
<1>2. ASSUME NEW h \in Hosts, Begin(p, h) PROVE LookBackUndoesLookup' /\ LookupInProgress'
  BY <1>1, <1>2 DEF Begin, Goto, TypeOK, bucket, pools, FaultUnless, Fault
<1>3. CASE Advance(p)
  <2>1. NextOffset(p) \in IPs
    BY NextOffsetInRange
  <2>2. ~Taken(p) => \A h \in Hosts : ipOf[h] # NextOffset(p)
    BY <2>1, <1>0, HostAssumption DEF Taken
  <2>3. QED BY <1>1, <1>3, <2>2 DEF Advance, Goto, TypeOK, bucket
<1>4. CASE ReadVictim(p)
  BY <1>1, <1>4 DEF ReadVictim, Goto, TypeOK, bucket, pools
<1>5. ASSUME NEW ok \in BOOLEAN, DeletePair(p, ok) PROVE LookBackUndoesLookup' /\ LookupInProgress'
  <2>1. ok /\ p = cur /\ slot[p] = offset[p] /\ victim[p] = hostOf[offset[p]]
    BY <1>5 DEF DeletePair, Commit, FaultUnless, Fault, Goto, TypeOK
  <2>2. \A h \in Hosts : ipOf[h] = offset[p] /\ ipOf[h] # NoIP => h = victim[p]
    BY <2>1
  <2>3. offset[p] # NoIP
    BY <1>0 DEF TypeOK
  <2>4. \A h \in Hosts : ipOf'[h] # offset[p] /\ (ipOf'[h] # NoIP => ipOf'[h] = ipOf[h])
    BY <1>5, <2>1, <2>2, <2>3 DEF DeletePair
  <2>5. ipOf'[req[p]] = NoIP
    BY <1>5, <2>1 DEF DeletePair, Goto, TypeOK
  <2>6. QED BY <1>1, <1>5, <2>1, <2>4, <2>5 DEF DeletePair, Goto, TypeOK, pools
<1>6. ASSUME NEW ok \in BOOLEAN, PutByIP(p, ok) PROVE LookBackUndoesLookup' /\ LookupInProgress'
  <2>1. ok
    BY <1>6 DEF PutByIP, Commit, FaultUnless, Fault, TypeOK
  <2>2. QED BY <1>1, <1>6, <2>1 DEF PutByIP, Goto, TypeOK, pools
<1>7. CASE ReturnIP(p)
  BY <1>1, <1>7 DEF ReturnIP, Goto, TypeOK, bucket, pools
<1>8. ASSUME NEW ok \in BOOLEAN, PutByHost(p, ok) PROVE LookBackUndoesLookup' /\ LookupInProgress'
  BY <1>1, <1>8 DEF PutByHost, Goto, TypeOK, pools
<1>9. QED BY <1>2, <1>3, <1>4, <1>5, <1>6, <1>7, <1>8 DEF LookupStep

(* The inductive invariant of the pool, which needs what every Lookup in   *)
(* progress has done so far.                                               *)
LEMMA Invariance == Spec => []Inv
<1> USE DEF LookBackUndoesLookup, LookupInProgress
<1>1. Init /\ TypeOK => Inv
  BY DEF Init, Inv
<1>2. Inv /\ TypeOK' /\ [Next]_vars => Inv'
  <2> SUFFICES ASSUME Inv, TypeOK', [Next]_vars, faults' = 0
               PROVE  LookBackUndoesLookup' /\ LookupInProgress'
    BY DEF Inv
  <2> USE DEF Inv, bucket, pools, lookup
  <2>0. faults = 0
    BY FaultsGrow
  <2>1. ASSUME NEW p \in Pools, LookupStep(p)
        PROVE  LookBackUndoesLookup' /\ LookupInProgress'
    BY <2>0, <2>1, LookupStepKeeps
  <2>2. ASSUME NEW p \in Pools, FlushStore(p) PROVE FALSE
    BY <2>0, <2>2 DEF FlushStore, Fault
  <2>3. ASSUME NEW p \in Pools, FlushReset(p) PROVE LookBackUndoesLookup' /\ LookupInProgress'
    BY <2>0, <2>3 DEF FlushReset
  <2>4. ASSUME NEW p \in Pools, NEW ok \in BOOLEAN, StoreOffset(p, ok) \/ StoreCycle(p, ok)
        PROVE  LookBackUndoesLookup' /\ LookupInProgress'
    BY <2>0, <2>4 DEF StoreOffset, StoreCycle
  <2>5. ASSUME NEW p \in Pools, Retire(p)
        PROVE  LookBackUndoesLookup' /\ LookupInProgress'
    BY <2>0, <2>5 DEF Retire, Busy, TypeOK
  <2>6. ASSUME NEW p \in Pools, NEW n \in Nets, NEW ok \in BOOLEAN, Open(p, n, ok)
        PROVE  LookBackUndoesLookup' /\ LookupInProgress'
    <3>1. pc[p] = "idle"
      BY <2>0, <2>6 DEF Open
    <3>2. CASE Discards(n) /\ ok
      <4>1. \A q \in Pools : pc'[q] = "idle"
        BY <2>0, <2>6, <3>2 DEF Open, Quiet, Busy, TypeOK, FaultUnless, Fault
      <4>2. LookBackUndoesLookup' /\ flushing' = {}
        BY <2>0, <2>6, <3>2 DEF Open, EmptyBucket
      <4>3. QED BY <4>1, <4>2
    <3>3. CASE ~(Discards(n) /\ ok)
      <4>1. /\ ipOf' = ipOf /\ hostOf' = hostOf /\ flushing' = flushing /\ cur' = cur
            /\ live' = live \cup {p} /\ pc' = pc /\ req' = req /\ slot' = slot /\ victim' = victim
            /\ \A q \in Pools : q # p => offset'[q] = offset[q]
        BY <2>6, <3>3 DEF Open, TypeOK
      <4>2. QED BY <2>0, <3>1, <4>1
    <3>4. QED BY <3>2, <3>3
  <2>9. CASE Publish
    <3>1. \A q \in Pools : pc'[q] = "idle"
      BY <2>0, <2>9 DEF Publish, Quiet, Busy, TypeOK, FaultUnless, Fault
    <3>2. QED BY <2>0, <2>9, <3>1 DEF Publish
  <2>7. CASE Crash
    BY <2>0, <2>7 DEF Crash
  <2>8. CASE UNCHANGED vars
    BY <2>8 DEF vars
  <2>10. QED
    BY <2>1, <2>2, <2>3, <2>4, <2>5, <2>6, <2>7, <2>8, <2>9 DEF Next
<1>3. QED BY <1>1, <1>2, TypeCorrect, PTL DEF Spec

(* As long as nothing is counted as a fault, LookBack undoes Lookup: no    *)
(* two hosts ever share a fake address, whatever crashes, restarts and     *)
(* changes of range do.                                                    *)
THEOREM LookBackCorrect == Spec => []LookBackUndoesLookup
<1>1. Inv => LookBackUndoesLookup
  BY DEF Inv
<1>2. QED BY <1>1, Invariance, PTL

(* A Lookup finds its half-written mapping as it left it, at each of its   *)
(* steps, and nobody else has the address it is about to write.            *)
THEOREM InProgressCorrect == Spec => []LookupInProgress
<1>1. Inv => LookupInProgress
  BY DEF Inv
<1>2. QED BY <1>1, Invariance, PTL

-----------------------------------------------------------------------------
(* A step after which no fault is counted changes the addresses of hosts   *)
(* as the name service may: PutByHost grants, deleting revokes.            *)
LEMMA StepIsNameService ==
    ASSUME Inv, [Next]_vars, faults' = 0
    PROVE  \/ ipOf' = ipOf
           \/ \E h \in Hosts, a \in IPs : /\ ipOf[h] = NoIP /\ \A g \in Hosts : ipOf[g] # a
                                          /\ ipOf' = [ipOf EXCEPT ![h] = a]
           \/ \E S \in SUBSET Hosts : ipOf' = [h \in Hosts |-> IF h \in S THEN NoIP ELSE ipOf[h]]
<1> DEFINE Granted == \E h \in Hosts, a \in IPs : /\ ipOf[h] = NoIP /\ \A g \in Hosts : ipOf[g] # a
                                                 /\ ipOf' = [ipOf EXCEPT ![h] = a]
           Revoked == \E S \in SUBSET Hosts :
                         ipOf' = [h \in Hosts |-> IF h \in S THEN NoIP ELSE ipOf[h]]
<1>0. faults = 0 /\ NoIP \notin IPs /\ TypeOK
  BY FaultsGrow, NetAssumption DEF Inv, IPs, NoIP
<1>1. ASSUME NEW p \in Pools, NEW ok \in BOOLEAN, DeletePair(p, ok) PROVE ipOf' = ipOf \/ Revoked
  <2>1. CASE ok
    <3>1. {victim[p]} \cap Hosts \in SUBSET Hosts
      OBVIOUS
    <3>2. ipOf' = [h \in Hosts |-> IF h \in {victim[p]} \cap Hosts THEN NoIP ELSE ipOf[h]]
      BY <1>1, <2>1 DEF DeletePair
    <3>3. QED BY <3>1, <3>2
  <2>2. QED BY <1>1, <2>1 DEF DeletePair
<1>2. ASSUME NEW p \in Pools, NEW ok \in BOOLEAN, PutByHost(p, ok) PROVE ipOf' = ipOf \/ Granted
  <2>1. pc[p] = "putHost" /\ ipOf' = IF ok THEN [ipOf EXCEPT ![req[p]] = slot[p]] ELSE ipOf
    BY <1>2 DEF PutByHost, Goto
  <2>2. req[p] \in Hosts /\ slot[p] \in IPs
    BY <1>0, <2>1 DEF TypeOK
  <2>3. ipOf[req[p]] = NoIP /\ hostOf[slot[p]] = req[p]
    BY <1>0, <2>1 DEF Inv, LookupInProgress
  <2>4. \A g \in Hosts : ipOf[g] # slot[p]
    BY <1>0, <2>2, <2>3 DEF Inv, LookBackUndoesLookup
  <2>5. QED BY <2>1, <2>2, <2>3, <2>4
<1>3. ASSUME EmptyBucket PROVE Revoked
  <2>1. Hosts \in SUBSET Hosts /\ ipOf' = [h \in Hosts |-> IF h \in Hosts THEN NoIP ELSE ipOf[h]]
    BY <1>3 DEF EmptyBucket
  <2>2. QED BY <2>1
<1>4. ASSUME NEW p \in Pools, LookupStep(p) PROVE ipOf' = ipOf \/ Granted \/ Revoked
  <2>1. CASE (\E h \in Hosts : Begin(p, h)) \/ Advance(p) \/ ReadVictim(p) \/ ReturnIP(p)
    BY <2>1 DEF Begin, Advance, ReadVictim, ReturnIP, bucket
  <2>2. CASE \E ok \in BOOLEAN : PutByIP(p, ok)
    BY <2>2 DEF PutByIP
  <2>3. QED BY <1>1, <1>2, <1>4, <2>1, <2>2 DEF LookupStep
<1>5. ASSUME NEW p \in Pools,
             \/ FlushStore(p) \/ FlushReset(p) \/ Retire(p)
             \/ \E ok \in BOOLEAN : StoreOffset(p, ok) \/ StoreCycle(p, ok)
      PROVE  ipOf' = ipOf \/ Revoked
  BY <1>3, <1>5 DEF FlushStore, FlushReset, StoreOffset, StoreCycle, Retire, bucket
<1>6. ASSUME NEW p \in Pools, NEW n \in Nets, NEW ok \in BOOLEAN, Open(p, n, ok)
      PROVE  ipOf' = ipOf \/ Revoked
  BY <1>3, <1>6 DEF Open, bucket
<1>7. QED BY <1>4, <1>5, <1>6 DEF Next, Publish, Crash, vars, bucket

(* The pool implements the abstract name service: initially nobody has an  *)
(* address, and every step grants a free address to a host without one,    *)
(* revokes some, or changes nothing.                                       *)
THEOREM Refinement == Spec => ImplementsNameService
<1>1. Init => NS!Init
  BY DEF Init, NS!Init, Leases
<1>2. Inv /\ [Next]_vars => [NS!Next]_Leases
  <2> SUFFICES ASSUME Inv, [Next]_vars PROVE NS!Next \/ Leases' = Leases
    OBVIOUS
  <2>1. CASE faults' = 0
    <3>1. Leases = ipOf /\ Leases' = ipOf'
      BY <2>1, FaultsGrow DEF Inv, Leases
    <3>2. {} \in SUBSET Hosts /\ NS!Revoked({}) = ipOf
      BY <3>1 DEF Inv, TypeOK, NS!Revoked
    <3>3. ASSUME NEW h \in Hosts, NEW a \in IPs, ipOf[h] = NoIP, \A g \in Hosts : ipOf[g] # a,
                 ipOf' = [ipOf EXCEPT ![h] = a]
          PROVE  NS!Next
      <4>1. NS!Grant(h, a, {})
        BY <3>1, <3>2, <3>3 DEF NS!Grant
      <4>2. QED BY <3>2, <4>1 DEF NS!Next
    <3>4. ASSUME NEW S \in SUBSET Hosts, ipOf' = [h \in Hosts |-> IF h \in S THEN NoIP ELSE ipOf[h]]
          PROVE  NS!Next
      <4>1. NS!Revoke(S)
        BY <3>1, <3>4 DEF NS!Revoke, NS!Revoked
      <4>2. QED BY <4>1 DEF NS!Next
    <3>5. QED BY <3>1, <3>3, <3>4, <2>1, StepIsNameService
  <2>2. CASE faults' # 0
    <3>1. Hosts \in SUBSET Hosts /\ Leases' = [h \in Hosts |-> IF h \in Hosts THEN NoIP ELSE Leases[h]]
      BY <2>2 DEF Leases
    <3>2. NS!Revoke(Hosts)
      BY <3>1 DEF NS!Revoke, NS!Revoked
    <3>3. QED BY <3>1, <3>2 DEF NS!Next
  <2>3. QED BY <2>1, <2>2
<1>3. QED BY <1>1, <1>2, Invariance, PTL DEF Spec, ImplementsNameService, NS!Spec

-----------------------------------------------------------------------------
(* An address get may stand on: the one before first, where a new pool     *)
(* does, up to the one before last.                                        *)
Allocatable(ip) == \E n \in Nets : ip \in (First[n] - 1) .. (Last[n] - 1)

(* Every offset, saved offset, slot and address of a host is one.          *)
AllAllocatable ==
    /\ \A p \in Pools : Allocatable(offset[p]) /\ (slot[p] # NoIP => Allocatable(slot[p]))
    /\ savedOffset # NoIP => Allocatable(savedOffset)
    /\ \A h \in Hosts : ipOf[h] # NoIP => Allocatable(ipOf[h])

(* get keeps to such addresses even in a pool that restoreState placed at  *)
(* the saved offset of another range: of two prefixes that overlap one     *)
(* holds the other, so the offset is past the gateway of the inner one, or *)
(* get wraps before the broadcast address of the outer one.                *)
LEMMA NextOffsetAllocatable ==
    ASSUME TypeOK, NEW p \in Pools, Allocatable(offset[p])
    PROVE  Allocatable(NextOffset(p))
<1> DEFINE n == net[p]
<1>1. n \in Nets /\ Contains(n, offset[p])
  BY DEF TypeOK
<1> HIDE DEF n
<1>2. First[n] \in Nat /\ Last[n] \in Nat /\ 4 < First[n] /\ First[n] < Last[n]
  BY <1>1, RangeFacts
<1>3. CASE Wraps(p)
  <2>1. NextOffset(p) = First[n] /\ First[n] \in (First[n] - 1) .. (Last[n] - 1)
    BY <1>2, <1>3 DEF NextOffset, n
  <2>2. QED BY <1>1, <2>1 DEF Allocatable
<1>4. CASE ~Wraps(p)
  <2>1. PICK m \in Nets : offset[p] \in (First[m] - 1) .. (Last[m] - 1)
    BY DEF Allocatable
  <2>2. First[m] \in Nat /\ Last[m] \in Nat /\ 4 < First[m] /\ First[m] < Last[m]
    BY RangeFacts
  <2>3. NextOffset(p) = offset[p] + 1 /\ offset[p] + 1 < Last[n]
    BY <1>4 DEF NextOffset, Wraps, n
  <2>4. offset[p] \in (First[n] - 4) .. Last[n]
    BY <1>1 DEF Contains
  <2>5. \/ offset[p] + 1 \in (First[m] - 1) .. (Last[m] - 1)
        \/ offset[p] + 1 \in (First[n] - 1) .. (Last[n] - 1)
    <3>1. /\ First[m] - 4 <= First[n] - 4 => Last[m] < First[n] - 4 \/ Last[n] <= Last[m] \/ First[m] = First[n]
          /\ First[n] - 4 <= First[m] - 4 => Last[n] < First[m] - 4 \/ Last[m] <= Last[n] \/ First[m] = First[n]
      BY <1>1, PrefixAssumption
    <3>2. QED BY <1>2, <2>1, <2>2, <2>3, <2>4, <3>1
  <2>6. QED BY <1>1, <2>3, <2>5 DEF Allocatable
<1>5. QED BY <1>3, <1>4

(* A new pool stands before first, which is such an address.               *)
LEMMA StartAllocatable ==
    ASSUME NEW n \in Nets
    PROVE  Allocatable(First[n] - 1)
BY RangeFacts DEF Allocatable

(* Every step of Lookup, FlushFakeIP, StoreState, restoreState and every   *)
(* crash leaves only such addresses behind.                                *)
LEMMA AllocatableInductive ==
    ASSUME TypeOK, AllAllocatable, [Next]_vars
    PROVE  AllAllocatable'
<1> USE DEF TypeOK, AllAllocatable, Goto, bucket, pools, lookup
<1>0. NoIP \notin IPs
  BY NetAssumption DEF IPs, NoIP
<1>1. ASSUME NEW p \in Pools, NEW h \in Hosts, Begin(p, h) PROVE AllAllocatable'
  BY <1>1 DEF Begin
<1>2. ASSUME NEW p \in Pools, Advance(p) PROVE AllAllocatable'
  BY <1>2, NextOffsetAllocatable DEF Advance
<1>3. ASSUME NEW p \in Pools, ReadVictim(p) PROVE AllAllocatable'
  BY <1>3 DEF ReadVictim
<1>4. ASSUME NEW p \in Pools, NEW ok \in BOOLEAN, DeletePair(p, ok) PROVE AllAllocatable'
  BY <1>4 DEF DeletePair
<1>5. ASSUME NEW p \in Pools, NEW ok \in BOOLEAN, PutByIP(p, ok) PROVE AllAllocatable'
  BY <1>5 DEF PutByIP
<1>6. ASSUME NEW p \in Pools, ReturnIP(p) PROVE AllAllocatable'
  BY <1>6 DEF ReturnIP
<1>7. ASSUME NEW p \in Pools, NEW ok \in BOOLEAN, PutByHost(p, ok) PROVE AllAllocatable'
  BY <1>0, <1>7 DEF PutByHost
<1>8. ASSUME NEW p \in Pools, FlushStore(p) PROVE AllAllocatable'
  BY <1>8 DEF FlushStore, EmptyBucket
<1>9. ASSUME NEW p \in Pools, FlushReset(p) PROVE AllAllocatable'
  BY <1>9, StartAllocatable DEF FlushReset
<1>10. ASSUME NEW p \in Pools, NEW ok \in BOOLEAN, StoreOffset(p, ok) PROVE AllAllocatable'
  BY <1>10 DEF StoreOffset
<1>11. ASSUME NEW p \in Pools, NEW ok \in BOOLEAN, StoreCycle(p, ok) PROVE AllAllocatable'
  BY <1>11 DEF StoreCycle
<1>12. ASSUME NEW p \in Pools, NEW n \in Nets, NEW ok \in BOOLEAN, Open(p, n, ok) PROVE AllAllocatable'
  <2>1. Allocatable(offset'[p]) /\ \A q \in Pools \ {p} : offset'[q] = offset[q]
    BY <1>12, StartAllocatable DEF Open
  <2>2. QED BY <1>12, <2>1 DEF Open, EmptyBucket
<1>13. ASSUME NEW p \in Pools, Retire(p) PROVE AllAllocatable'
  BY <1>13, StartAllocatable DEF Retire
<1>14. CASE Crash
  BY <1>14, StartAllocatable DEF Crash
<1>15. CASE UNCHANGED vars
  BY <1>15 DEF vars
<1>16. CASE Publish
  BY <1>16 DEF Publish
<1>17. QED
  BY <1>1, <1>2, <1>3, <1>4, <1>5, <1>6, <1>7, <1>8, <1>9, <1>10, <1>11,
     <1>12, <1>13, <1>14, <1>15, <1>16 DEF Next, LookupStep

(* No Lookup ever answers with a gateway, a broadcast address or one from  *)
(* outside the ranges, faults, overlapping pools and every change between  *)
(* overlapping ranges included.                                            *)
THEOREM AllocatableCorrect == Spec => []AnswersAllocatable
<1>1. Init /\ TypeOK => AllAllocatable
  <2> SUFFICES ASSUME Init, TypeOK PROVE AllAllocatable
    OBVIOUS
  <2>1. \A p \in Pools : net[p] \in Nets /\ offset[p] = First[net[p]] - 1 /\ slot[p] = NoIP
    BY DEF Init, TypeOK
  <2>2. QED BY <2>1, StartAllocatable DEF Init, AllAllocatable
<1>2. TypeOK /\ AllAllocatable /\ [Next]_vars => AllAllocatable'
  BY AllocatableInductive
<1>3. ASSUME NEW ip, Allocatable(ip) PROVE \E n \in Nets : IsFakeIP(n, ip)
  <2>1. PICK n \in Nets : ip \in (First[n] - 1) .. (Last[n] - 1)
    BY <1>3 DEF Allocatable
  <2>2. IsFakeIP(n, ip)
    BY <2>1, RangeFacts DEF IsFakeIP, Contains, Gateway
  <2>3. QED BY <2>2
<1>4. AllAllocatable => AnswersAllocatable
  BY <1>3 DEF AllAllocatable, AnswersAllocatable
<1>5. QED BY <1>1, <1>2, <1>4, TypeCorrect, PTL DEF Spec
=============================================================================
