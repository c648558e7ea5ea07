------------------------- MODULE DualStackDialProofs -------------------------
(***************************************************************************)
(* DualStackDial for every set of addresses: what the caller gets is open, *)
(* what it does not get is closed, and an error means that all failed.     *)
(***************************************************************************)
EXTENDS DualStackDial, TLAPS

(* A race and its result: as long as nobody has returned, a race that is   *)
(* over has failed or left the fallback.                                   *)
RaceFits(g) ==
    /\ got[g] # NoAddr => got[g] \in Members(g) /\ racer[g] \in {"ok", "gone"}
    /\ racer[g] = "ok" => attempt[got[g]] = "held"
    /\ racer[g] = "failed" => AllFailed(g)
    /\ racer[g] = "gone" => AllFailed(g) \/ fallback # NoAddr \/ call = "returned"
    /\ racer[g] = "none" => call = "start" \/ Members(g) = {}
    /\ racer[g] # "none" => call # "start" /\ Members(g) # {}
    /\ resultsClosed => racer[g] \in {"none", "gone"} /\ call # "start"

RacesFit == \A g \in Races : RaceFits(g)

(* A connection that was taken belongs to a race that is over. *)
Taken(a) == attempt[a] = "held" /\ \E g \in Races : a \in Members(g) /\ racer[g] = "gone"

TakenFit ==
    /\ conn # NoAddr => Taken(conn)
    /\ fallback # NoAddr => Taken(fallback) /\ Staged /\ fallback \notin Members(prefer) /\ prefer # "none"
    /\ call # "returned" => conn = NoAddr

(* A connection that is kept open is a result on its way, or was taken.    *)
HeldFits ==
    \A a \in Addrs : attempt[a] = "held" =>
        (\E g \in Races : racer[g] = "ok" /\ got[g] = a) \/ a \in {conn, fallback}

Inv == TypeOK /\ RacesFit /\ TakenFit /\ HeldFits /\ ErrorOnlyIfAllFailed /\ PrimaryIsAwaited
-----------------------------------------------------------------------------
(* Every address to dial is in one race, and the races never change.       *)
LEMMA MembersFacts ==
    ASSUME TypeOK
    PROVE  /\ \A g \in Races : Members(g) \subseteq ips
           /\ \A g, h \in Races : g # h => Members(g) \cap Members(h) = {}
           /\ \A a \in ips : \E g \in Races : a \in Members(g)
           /\ ~Staged => Members("v4") = {} /\ Members("v6") = {} /\ Members("all") = ips
           /\ Staged => Members("all") = {}
BY AddressAssumption DEF TypeOK, Members, Races, Addrs

(* No step changes what is dialled, so the races keep their members.       *)
LEMMA MembersConstant ==
    ASSUME UNCHANGED config
    PROVE  /\ UNCHANGED <<Staged, ips, prefer>>
           /\ Members(prefer)' = Members(prefer)
           /\ \A g \in Races : Members(g)' = Members(g)
BY DEF config, Staged, Members

(* Every step keeps the invariant: one case per action, one step per part. *)
LEMMA InvInductive ==
    ASSUME Inv, [Next]_vars
    PROVE  Inv'
<1> USE AddressAssumption DEF Addrs
<1>0. NoAddr \notin ips /\ \A g \in Races : NoAddr \notin Members(g)
  BY MembersFacts DEF Inv, TypeOK
<1>1. ASSUME NothingToDial PROVE Inv'
  <2>0. UNCHANGED config /\ TypeOK BY <1>1 DEF NothingToDial, Inv
  <2>1. TypeOK'
    BY <1>0, <1>1, <2>0, MembersFacts, MembersConstant DEF NothingToDial, Return, Inv, TypeOK, config
  <2>2. RacesFit'
    BY <1>0, <1>1, <2>0, MembersFacts, MembersConstant DEF NothingToDial, Return, Inv, RacesFit, RaceFits, AllFailed, TypeOK
  <2>3. TakenFit'
    BY <1>0, <1>1, <2>0, MembersFacts, MembersConstant DEF NothingToDial, Return, Inv, TakenFit, Taken, RacesFit, RaceFits, TypeOK
  <2>4. HeldFits'
    BY <1>0, <1>1, <2>0, MembersFacts, MembersConstant DEF NothingToDial, Return, Inv, HeldFits, RacesFit, RaceFits, TakenFit, Taken, TypeOK
  <2>5. ErrorOnlyIfAllFailed'
    BY <1>0, <1>1, <2>0, MembersFacts, MembersConstant DEF NothingToDial, Return, Inv, ErrorOnlyIfAllFailed, RacesFit, RaceFits, TakenFit, AllFailed, TypeOK
  <2>6. PrimaryIsAwaited'
    BY <1>0, <1>1, <2>0, MembersFacts, MembersConstant DEF NothingToDial, Return, Inv, PrimaryIsAwaited, RacesFit, RaceFits, TakenFit, TypeOK
  <2>7. QED BY <2>1, <2>2, <2>3, <2>4, <2>5, <2>6 DEF Inv
<1>2. ASSUME Start PROVE Inv'
  <2>0. UNCHANGED config /\ TypeOK BY <1>2 DEF Start, Inv
  <2>1. TypeOK'
    BY <1>0, <1>2, <2>0, MembersFacts, MembersConstant DEF Start, Inv, TypeOK, config
  <2>2. RacesFit'
    BY <1>0, <1>2, <2>0, MembersFacts, MembersConstant DEF Start, Inv, RacesFit, RaceFits, AllFailed, TypeOK
  <2>3. TakenFit'
    BY <1>0, <1>2, <2>0, MembersFacts, MembersConstant DEF Start, Inv, TakenFit, Taken, RacesFit, RaceFits, TypeOK
  <2>4. HeldFits'
    BY <1>0, <1>2, <2>0, MembersFacts, MembersConstant DEF Start, Inv, HeldFits, RacesFit, RaceFits, TakenFit, Taken, TypeOK
  <2>5. ErrorOnlyIfAllFailed'
    BY <1>0, <1>2, <2>0, MembersFacts, MembersConstant DEF Start, Inv, ErrorOnlyIfAllFailed, RacesFit, RaceFits, TakenFit, AllFailed, TypeOK
  <2>6. PrimaryIsAwaited'
    BY <1>0, <1>2, <2>0, MembersFacts, MembersConstant DEF Start, Inv, PrimaryIsAwaited, RacesFit, RaceFits, TakenFit, TypeOK
  <2>7. QED BY <2>1, <2>2, <2>3, <2>4, <2>5, <2>6 DEF Inv
<1>3. ASSUME NEW g \in Races, NEW a \in Addrs, DialNext(g, a) PROVE Inv'
  <2>0. UNCHANGED config /\ TypeOK BY <1>3 DEF DialNext, Inv
  <2>1. TypeOK'
    BY <1>0, <1>3, <2>0, MembersFacts, MembersConstant DEF DialNext, Inv, TypeOK, config
  <2>2. RacesFit'
    BY <1>0, <1>3, <2>0, MembersFacts, MembersConstant DEF DialNext, Inv, RacesFit, RaceFits, AllFailed, TypeOK
  <2>3. TakenFit'
    BY <1>0, <1>3, <2>0, MembersFacts, MembersConstant DEF DialNext, Inv, TakenFit, Taken, RacesFit, RaceFits, TypeOK
  <2>4. HeldFits'
    BY <1>0, <1>3, <2>0, MembersFacts, MembersConstant DEF DialNext, Inv, HeldFits, RacesFit, RaceFits, TakenFit, Taken, TypeOK
  <2>5. ErrorOnlyIfAllFailed'
    BY <1>0, <1>3, <2>0, MembersFacts, MembersConstant DEF DialNext, Inv, ErrorOnlyIfAllFailed, RacesFit, RaceFits, TakenFit, AllFailed, TypeOK
  <2>6. PrimaryIsAwaited'
    BY <1>3, <2>0, MembersConstant DEF DialNext, Inv, PrimaryIsAwaited
  <2>7. QED BY <2>1, <2>2, <2>3, <2>4, <2>5, <2>6 DEF Inv
<1>4. ASSUME NEW a \in Addrs, Connect(a) PROVE Inv'
  <2>0. UNCHANGED config /\ TypeOK BY <1>4 DEF Connect, Inv
  <2>1. TypeOK'
    BY <1>0, <1>4, <2>0, MembersFacts, MembersConstant DEF Connect, Inv, TypeOK, config
  <2>2. RacesFit'
    BY <1>0, <1>4, <2>0, MembersFacts, MembersConstant DEF Connect, Inv, RacesFit, RaceFits, AllFailed, TypeOK
  <2>3. TakenFit'
    BY <1>0, <1>4, <2>0, MembersFacts, MembersConstant DEF Connect, Inv, TakenFit, Taken, RacesFit, RaceFits, TypeOK
  <2>4. HeldFits'
    BY <1>0, <1>4, <2>0, MembersFacts, MembersConstant DEF Connect, Inv, HeldFits, RacesFit, RaceFits, TakenFit, Taken, TypeOK
  <2>5. ErrorOnlyIfAllFailed'
    BY <1>0, <1>4, <2>0, MembersFacts, MembersConstant DEF Connect, Inv, ErrorOnlyIfAllFailed, RacesFit, RaceFits, TakenFit, AllFailed, TypeOK
  <2>6. PrimaryIsAwaited'
    BY <1>4, <2>0, MembersConstant DEF Connect, Inv, PrimaryIsAwaited
  <2>7. QED BY <2>1, <2>2, <2>3, <2>4, <2>5, <2>6 DEF Inv
<1>5. ASSUME NEW a \in Addrs, Refuse(a) PROVE Inv'
  <2>0. UNCHANGED config /\ TypeOK BY <1>5 DEF Refuse, Inv
  <2>1. TypeOK'
    BY <1>0, <1>5, <2>0, MembersFacts, MembersConstant DEF Refuse, Inv, TypeOK, config
  <2>2. RacesFit'
    BY <1>0, <1>5, <2>0, MembersFacts, MembersConstant DEF Refuse, Inv, RacesFit, RaceFits, AllFailed, TypeOK
  <2>3. TakenFit'
    BY <1>0, <1>5, <2>0, MembersFacts, MembersConstant DEF Refuse, Inv, TakenFit, Taken, RacesFit, RaceFits, TypeOK
  <2>4. HeldFits'
    BY <1>0, <1>5, <2>0, MembersFacts, MembersConstant DEF Refuse, Inv, HeldFits, RacesFit, RaceFits, TakenFit, Taken, TypeOK
  <2>5. ErrorOnlyIfAllFailed'
    BY <1>0, <1>5, <2>0, MembersFacts, MembersConstant DEF Refuse, Inv, ErrorOnlyIfAllFailed, RacesFit, RaceFits, TakenFit, AllFailed, TypeOK
  <2>6. PrimaryIsAwaited'
    BY <1>5, <2>0, MembersConstant DEF Refuse, Inv, PrimaryIsAwaited
  <2>7. QED BY <2>1, <2>2, <2>3, <2>4, <2>5, <2>6 DEF Inv
<1>6. ASSUME NEW g \in Races, NEW a \in Addrs, FirstConnection(g, a) PROVE Inv'
  <2>0. UNCHANGED config /\ TypeOK BY <1>6 DEF FirstConnection, Inv
  <2>1. TypeOK'
    BY <1>0, <1>6, <2>0, MembersFacts, MembersConstant DEF FirstConnection, Inv, TypeOK, config
  <2>2. RacesFit'
    BY <1>0, <1>6, <2>0, MembersFacts, MembersConstant DEF FirstConnection, Inv, RacesFit, RaceFits, AllFailed, TypeOK
  <2>3. TakenFit'
    BY <1>0, <1>6, <2>0, MembersFacts, MembersConstant DEF FirstConnection, Inv, TakenFit, Taken, RacesFit, RaceFits, TypeOK
  <2>4. HeldFits'
    BY <1>0, <1>6, <2>0, MembersFacts, MembersConstant DEF FirstConnection, Inv, HeldFits, RacesFit, RaceFits, TakenFit, Taken, TypeOK
  <2>5. ErrorOnlyIfAllFailed'
    BY <1>0, <1>6, <2>0, MembersFacts, MembersConstant DEF FirstConnection, Inv, ErrorOnlyIfAllFailed, RacesFit, RaceFits, TakenFit, AllFailed, TypeOK
  <2>6. PrimaryIsAwaited'
    BY <1>6, <2>0, MembersConstant DEF FirstConnection, Inv, PrimaryIsAwaited
  <2>7. QED BY <2>1, <2>2, <2>3, <2>4, <2>5, <2>6 DEF Inv
<1>7. ASSUME NEW g \in Races, RaceFails(g) PROVE Inv'
  <2>0. UNCHANGED config /\ TypeOK BY <1>7 DEF RaceFails, Inv
  <2>1. TypeOK'
    BY <1>0, <1>7, <2>0, MembersFacts, MembersConstant DEF RaceFails, Inv, TypeOK, config
  <2>2. RacesFit'
    BY <1>0, <1>7, <2>0, MembersFacts, MembersConstant DEF RaceFails, Inv, RacesFit, RaceFits, AllFailed, TypeOK
  <2>3. TakenFit'
    BY <1>0, <1>7, <2>0, MembersFacts, MembersConstant DEF RaceFails, Inv, TakenFit, Taken, RacesFit, RaceFits, TypeOK
  <2>4. HeldFits'
    BY <1>0, <1>7, <2>0, MembersFacts, MembersConstant DEF RaceFails, Inv, HeldFits, RacesFit, RaceFits, TakenFit, Taken, TypeOK
  <2>5. ErrorOnlyIfAllFailed'
    BY <1>0, <1>7, <2>0, MembersFacts, MembersConstant DEF RaceFails, Inv, ErrorOnlyIfAllFailed, RacesFit, RaceFits, TakenFit, AllFailed, TypeOK
  <2>6. PrimaryIsAwaited'
    BY <1>7, <2>0, MembersConstant DEF RaceFails, Inv, PrimaryIsAwaited, TypeOK
  <2>7. QED BY <2>1, <2>2, <2>3, <2>4, <2>5, <2>6 DEF Inv
<1>8. ASSUME NEW g \in Races, NEW a \in Addrs, LateConnection(g, a) PROVE Inv'
  <2>0. UNCHANGED config /\ TypeOK BY <1>8 DEF LateConnection, Inv
  <2>1. TypeOK'
    BY <1>0, <1>8, <2>0, MembersFacts, MembersConstant DEF LateConnection, Discard, Inv, TypeOK, config
  <2>2. RacesFit'
    BY <1>0, <1>8, <2>0, MembersFacts, MembersConstant DEF LateConnection, Discard, Inv, RacesFit, RaceFits, AllFailed, TypeOK
  <2>3. TakenFit'
    BY <1>0, <1>8, <2>0, MembersFacts, MembersConstant DEF LateConnection, Discard, Inv, TakenFit, Taken, RacesFit, RaceFits, TypeOK
  <2>4. HeldFits'
    BY <1>0, <1>8, <2>0, MembersFacts, MembersConstant DEF LateConnection, Discard, Inv, HeldFits, RacesFit, RaceFits, TakenFit, Taken, TypeOK
  <2>5. ErrorOnlyIfAllFailed'
    BY <1>0, <1>8, <2>0, MembersFacts, MembersConstant DEF LateConnection, Discard, Inv, ErrorOnlyIfAllFailed, RacesFit, RaceFits, TakenFit, AllFailed, TypeOK
  <2>6. PrimaryIsAwaited'
    BY <1>8, <2>0, MembersConstant DEF LateConnection, Inv, PrimaryIsAwaited
  <2>7. QED BY <2>1, <2>2, <2>3, <2>4, <2>5, <2>6 DEF Inv
<1>9. ASSUME Finish PROVE Inv'
  <2>0. UNCHANGED config /\ TypeOK BY <1>9 DEF Finish, Inv
  <2>a. "all" \in Races /\ ~Staged /\ call = "racing" /\ racer["all"] \in {"ok", "failed"}
    BY <1>9, <2>0, MembersFacts DEF Finish, Inv, RacesFit, RaceFits, Races
  <2>b. /\ got["all"] \in Addrs \cup {NoAddr}
        /\ got["all"] # NoAddr => racer["all"] = "ok" /\ got["all"] \in ips
        /\ racer["all"] = "ok" => got["all"] # NoAddr
    BY <2>0, <2>a, MembersFacts DEF Inv, TypeOK, RacesFit, RaceFits
  <2>c. /\ call' = "returned" /\ conn' = got["all"] /\ racer' = [racer EXCEPT !["all"] = "gone"]
        /\ UNCHANGED <<config, attempt, got, fallback, resultsClosed>>
    BY <1>9 DEF Finish, Return
  <2>1. TypeOK'
    BY <1>0, <2>0, <2>a, <2>b, <2>c, MembersFacts, MembersConstant DEF Inv, TypeOK, config
  <2>2. RacesFit'
    BY <1>0, <2>0, <2>a, <2>b, <2>c, MembersFacts, MembersConstant DEF Inv, RacesFit, RaceFits, AllFailed, TypeOK
  <2>3. TakenFit'
    BY <1>0, <2>0, <2>a, <2>b, <2>c, MembersFacts, MembersConstant DEF Inv, TakenFit, Taken, RacesFit, RaceFits, TypeOK
  <2>4. HeldFits'
    BY <1>0, <2>0, <2>a, <2>b, <2>c, MembersFacts, MembersConstant DEF Inv, HeldFits, RacesFit, RaceFits, TakenFit, Taken, TypeOK
  <2>5. ErrorOnlyIfAllFailed'
    BY <1>0, <2>0, <2>a, <2>b, <2>c, MembersFacts, MembersConstant DEF Inv, ErrorOnlyIfAllFailed, RacesFit, RaceFits, TakenFit, AllFailed, TypeOK
  <2>6. PrimaryIsAwaited'
    BY <1>0, <2>0, <2>a, <2>b, <2>c, MembersFacts, MembersConstant DEF Inv, PrimaryIsAwaited, RacesFit, RaceFits, TakenFit, TypeOK
  <2>7. QED BY <2>1, <2>2, <2>3, <2>4, <2>5, <2>6 DEF Inv
<1>10. ASSUME NEW g \in Races, ReceivePrimary(g) PROVE Inv'
  <2>0. UNCHANGED config /\ TypeOK BY <1>10 DEF ReceivePrimary, Inv
  <2>1. TypeOK'
    BY <1>0, <1>10, <2>0, MembersFacts, MembersConstant DEF ReceivePrimary, Return, AfterSend, IsPrimary, Inv, TypeOK, config
  <2>2. RacesFit'
    BY <1>0, <1>10, <2>0, MembersFacts, MembersConstant DEF ReceivePrimary, Return, AfterSend, IsPrimary, Inv, RacesFit, RaceFits, AllFailed, TypeOK
  <2>3. TakenFit'
    BY <1>0, <1>10, <2>0, MembersFacts, MembersConstant DEF ReceivePrimary, Return, AfterSend, IsPrimary, Inv, TakenFit, Taken, RacesFit, RaceFits, TypeOK
  <2>4. HeldFits'
    BY <1>0, <1>10, <2>0, MembersFacts, MembersConstant DEF ReceivePrimary, Return, AfterSend, IsPrimary, Inv, HeldFits, RacesFit, RaceFits, TakenFit, Taken, TypeOK
  <2>5. ErrorOnlyIfAllFailed'
    BY <1>0, <1>10, <2>0, MembersFacts, MembersConstant DEF ReceivePrimary, Return, AfterSend, IsPrimary, Inv, ErrorOnlyIfAllFailed, RacesFit, RaceFits, TakenFit, AllFailed, TypeOK
  <2>6. PrimaryIsAwaited'
    BY <1>0, <1>10, <2>0, MembersFacts, MembersConstant DEF ReceivePrimary, Return, AfterSend, IsPrimary, Inv, PrimaryIsAwaited, RacesFit, RaceFits, TakenFit, TypeOK
  <2>7. QED BY <2>1, <2>2, <2>3, <2>4, <2>5, <2>6 DEF Inv
<1>11. ASSUME NEW g \in Races, ReceiveFallback(g) PROVE Inv'
  <2>0. UNCHANGED config /\ TypeOK BY <1>11 DEF ReceiveFallback, Inv
  <2>a. /\ prefer \in Races \ {g} /\ g # "all" /\ prefer # "all" /\ Staged
        /\ racer[g] = "ok" /\ got[g] \in Members(g) /\ got[g] \notin Members(prefer)
    BY <1>11, <2>0, MembersFacts DEF ReceiveFallback, IsPrimary, Inv, TypeOK, RacesFit, RaceFits, Races
  <2>b. fallback = NoAddr
    BY <2>0, <2>a, MembersFacts DEF Inv, TakenFit, Taken, Races
  <2>1. TypeOK'
    BY <1>0, <1>11, <2>0, <2>a, <2>b, MembersFacts, MembersConstant DEF ReceiveFallback, IsPrimary, Inv, TypeOK, config
  <2>2. RacesFit'
    BY <1>0, <1>11, <2>0, <2>a, <2>b, MembersFacts, MembersConstant DEF ReceiveFallback, IsPrimary, Inv, RacesFit, RaceFits, AllFailed, TypeOK
  <2>3. TakenFit'
    BY <1>0, <1>11, <2>0, <2>a, <2>b, MembersFacts, MembersConstant DEF ReceiveFallback, IsPrimary, Inv, TakenFit, Taken, RacesFit, RaceFits, TypeOK
  <2>4. HeldFits'
    BY <1>0, <1>11, <2>0, <2>a, <2>b, MembersFacts, MembersConstant DEF ReceiveFallback, IsPrimary, Inv, HeldFits, RacesFit, RaceFits, TakenFit, Taken, TypeOK
  <2>5. ErrorOnlyIfAllFailed'
    BY <1>0, <1>11, <2>0, <2>a, <2>b, MembersFacts, MembersConstant DEF ReceiveFallback, IsPrimary, Inv, ErrorOnlyIfAllFailed, RacesFit, RaceFits, TakenFit, AllFailed, TypeOK
  <2>6. PrimaryIsAwaited'
    BY <1>0, <1>11, <2>0, <2>a, <2>b, MembersFacts, MembersConstant DEF ReceiveFallback, IsPrimary, Inv, PrimaryIsAwaited, RacesFit, RaceFits, TakenFit, TypeOK
  <2>7. QED BY <2>1, <2>2, <2>3, <2>4, <2>5, <2>6 DEF Inv
<1>12. ASSUME NEW g \in Races, ReceiveError(g) PROVE Inv'
  <2>0. UNCHANGED config /\ TypeOK BY <1>12 DEF ReceiveError, Inv
  <2>1. TypeOK'
    BY <1>0, <1>12, <2>0, MembersFacts, MembersConstant DEF ReceiveError, Inv, TypeOK, config
  <2>2. RacesFit'
    BY <1>0, <1>12, <2>0, MembersFacts, MembersConstant DEF ReceiveError, Inv, RacesFit, RaceFits, AllFailed, TypeOK
  <2>3. TakenFit'
    BY <1>0, <1>12, <2>0, MembersFacts, MembersConstant DEF ReceiveError, Inv, TakenFit, Taken, RacesFit, RaceFits, TypeOK
  <2>4. HeldFits'
    BY <1>0, <1>12, <2>0, MembersFacts, MembersConstant DEF ReceiveError, Inv, HeldFits, RacesFit, RaceFits, TakenFit, Taken, TypeOK
  <2>5. ErrorOnlyIfAllFailed'
    BY <1>0, <1>12, <2>0, MembersFacts, MembersConstant DEF ReceiveError, Inv, ErrorOnlyIfAllFailed, RacesFit, RaceFits, TakenFit, AllFailed, TypeOK
  <2>6. PrimaryIsAwaited'
    BY <1>0, <1>12, <2>0, MembersFacts, MembersConstant DEF ReceiveError, Inv, PrimaryIsAwaited, RacesFit, RaceFits, TakenFit, TypeOK
  <2>7. QED BY <2>1, <2>2, <2>3, <2>4, <2>5, <2>6 DEF Inv
<1>13. ASSUME FallbackTick PROVE Inv'
  <2>0. UNCHANGED config /\ TypeOK BY <1>13 DEF FallbackTick, Inv
  <2>1. TypeOK'
    BY <1>0, <1>13, <2>0, MembersFacts, MembersConstant DEF FallbackTick, Return, Inv, TypeOK, config
  <2>2. RacesFit'
    BY <1>0, <1>13, <2>0, MembersFacts, MembersConstant DEF FallbackTick, Return, Inv, RacesFit, RaceFits, AllFailed, TypeOK
  <2>3. TakenFit'
    BY <1>0, <1>13, <2>0, MembersFacts, MembersConstant DEF FallbackTick, Return, Inv, TakenFit, Taken, RacesFit, RaceFits, TypeOK
  <2>4. HeldFits'
    BY <1>0, <1>13, <2>0, MembersFacts, MembersConstant DEF FallbackTick, Return, Inv, HeldFits, RacesFit, RaceFits, TakenFit, Taken, TypeOK
  <2>5. ErrorOnlyIfAllFailed'
    BY <1>0, <1>13, <2>0, MembersFacts, MembersConstant DEF FallbackTick, Return, Inv, ErrorOnlyIfAllFailed, RacesFit, RaceFits, TakenFit, AllFailed, TypeOK
  <2>6. PrimaryIsAwaited'
    BY <1>0, <1>13, <2>0, MembersFacts, MembersConstant DEF FallbackTick, Return, Inv, PrimaryIsAwaited, RacesFit, RaceFits, TakenFit, TypeOK
  <2>7. QED BY <2>1, <2>2, <2>3, <2>4, <2>5, <2>6 DEF Inv
<1>14. ASSUME CloseResults PROVE Inv'
  <2>0. UNCHANGED config /\ TypeOK BY <1>14 DEF CloseResults, Inv
  <2>1. TypeOK'
    BY <1>0, <1>14, <2>0, MembersFacts, MembersConstant DEF CloseResults, Inv, TypeOK, config
  <2>2. RacesFit'
    BY <1>0, <1>14, <2>0, MembersFacts, MembersConstant DEF CloseResults, Inv, RacesFit, RaceFits, AllFailed, TypeOK
  <2>3. TakenFit'
    BY <1>0, <1>14, <2>0, MembersFacts, MembersConstant DEF CloseResults, Inv, TakenFit, Taken, RacesFit, RaceFits, TypeOK
  <2>4. HeldFits'
    BY <1>0, <1>14, <2>0, MembersFacts, MembersConstant DEF CloseResults, Inv, HeldFits, RacesFit, RaceFits, TakenFit, Taken, TypeOK
  <2>5. ErrorOnlyIfAllFailed'
    BY <1>0, <1>14, <2>0, MembersFacts, MembersConstant DEF CloseResults, Inv, ErrorOnlyIfAllFailed, RacesFit, RaceFits, TakenFit, AllFailed, TypeOK
  <2>6. PrimaryIsAwaited'
    BY <1>0, <1>14, <2>0, MembersFacts, MembersConstant DEF CloseResults, Inv, PrimaryIsAwaited, RacesFit, RaceFits, TakenFit, TypeOK
  <2>7. QED BY <2>1, <2>2, <2>3, <2>4, <2>5, <2>6 DEF Inv
<1>15. ASSUME AllResultsIn PROVE Inv'
  <2>0. UNCHANGED config /\ TypeOK BY <1>15 DEF AllResultsIn, Inv
  <2>1. TypeOK'
    BY <1>0, <1>15, <2>0, MembersFacts, MembersConstant DEF AllResultsIn, Return, Inv, TypeOK, config
  <2>2. RacesFit'
    BY <1>0, <1>15, <2>0, MembersFacts, MembersConstant DEF AllResultsIn, Return, Inv, RacesFit, RaceFits, AllFailed, TypeOK
  <2>3. TakenFit'
    BY <1>0, <1>15, <2>0, MembersFacts, MembersConstant DEF AllResultsIn, Return, Inv, TakenFit, Taken, RacesFit, RaceFits, TypeOK
  <2>4. HeldFits'
    BY <1>0, <1>15, <2>0, MembersFacts, MembersConstant DEF AllResultsIn, Return, Inv, HeldFits, RacesFit, RaceFits, TakenFit, Taken, TypeOK
  <2>5. ErrorOnlyIfAllFailed'
    BY <1>0, <1>15, <2>0, MembersFacts, MembersConstant DEF AllResultsIn, Return, Inv, ErrorOnlyIfAllFailed, RacesFit, RaceFits, TakenFit, AllFailed, TypeOK
  <2>6. PrimaryIsAwaited'
    BY <1>0, <1>15, <2>0, MembersFacts, MembersConstant DEF AllResultsIn, Return, Inv, PrimaryIsAwaited, RacesFit, RaceFits, TakenFit, TypeOK
  <2>7. QED BY <2>1, <2>2, <2>3, <2>4, <2>5, <2>6 DEF Inv
<1>16. ASSUME NEW g \in Races, LateRace(g) PROVE Inv'
  <2>0. UNCHANGED config /\ TypeOK BY <1>16 DEF LateRace, Inv
  <2>1. TypeOK'
    BY <1>0, <1>16, <2>0, MembersFacts, MembersConstant DEF LateRace, Discard, Returned, Inv, TypeOK, config
  <2>2. RacesFit'
    BY <1>0, <1>16, <2>0, MembersFacts, MembersConstant DEF LateRace, Discard, Returned, Inv, RacesFit, RaceFits, AllFailed, TypeOK
  <2>3. TakenFit'
    BY <1>0, <1>16, <2>0, MembersFacts, MembersConstant DEF LateRace, Discard, Returned, Inv, TakenFit, Taken, RacesFit, RaceFits, TypeOK
  <2>4. HeldFits'
    BY <1>0, <1>16, <2>0, MembersFacts, MembersConstant DEF LateRace, Discard, Returned, Inv, HeldFits, RacesFit, RaceFits, TakenFit, Taken, TypeOK
  <2>5. ErrorOnlyIfAllFailed'
    BY <1>0, <1>16, <2>0, MembersFacts, MembersConstant DEF LateRace, Discard, Returned, Inv, ErrorOnlyIfAllFailed, RacesFit, RaceFits, TakenFit, AllFailed, TypeOK
  <2>6. PrimaryIsAwaited'
    BY <1>0, <1>16, <2>0, MembersFacts, MembersConstant DEF LateRace, Discard, Returned, Inv, PrimaryIsAwaited, RacesFit, RaceFits, TakenFit, TypeOK
  <2>7. QED BY <2>1, <2>2, <2>3, <2>4, <2>5, <2>6 DEF Inv
<1>17. ASSUME UNCHANGED vars PROVE Inv'
  <2>1. UNCHANGED <<Staged, ips, prefer>> /\ Members(prefer)' = Members(prefer)
        /\ \A g \in Races : Members(g)' = Members(g)
    BY <1>17, MembersConstant DEF vars
  <2>2. UNCHANGED <<config, attempt, racer, got, fallback, resultsClosed, call, conn>>
    BY <1>17 DEF vars
  <2>3. QED BY <2>1, <2>2 DEF config, Inv, TypeOK, RacesFit, RaceFits, TakenFit, Taken, HeldFits,
          ErrorOnlyIfAllFailed, PrimaryIsAwaited, AllFailed
<1>18. QED
  BY <1>1, <1>2, <1>3, <1>4, <1>5, <1>6, <1>7, <1>8, <1>9, <1>10, <1>11, <1>12, <1>13, <1>14, <1>15, <1>16, <1>17
  DEF Next, CallerStep, RaceStep

-----------------------------------------------------------------------------
(* The invariant of every dial. *)
LEMMA Invariance == Spec => []Inv
<1>1. Init => Inv
  <2> SUFFICES ASSUME Init PROVE Inv
    OBVIOUS
  <2>1. TypeOK
    BY DEF Init, TypeOK
  <2>2. /\ \A g \in Races : racer[g] = "none" /\ got[g] = NoAddr
        /\ \A a \in Addrs : attempt[a] = "none"
        /\ call = "start" /\ conn = NoAddr /\ fallback = NoAddr /\ resultsClosed = FALSE
    BY DEF Init
  <2>3. RacesFit
    BY <2>2 DEF RacesFit, RaceFits
  <2>4. TakenFit
    BY <2>2 DEF TakenFit
  <2>5. HeldFits
    BY <2>2 DEF HeldFits
  <2>6. ErrorOnlyIfAllFailed /\ PrimaryIsAwaited
    BY <2>2 DEF ErrorOnlyIfAllFailed, PrimaryIsAwaited
  <2>7. QED
    BY <2>1, <2>3, <2>4, <2>5, <2>6 DEF Inv
<1>2. Inv /\ [Next]_vars => Inv'
  BY InvInductive
<1>3. QED BY <1>1, <1>2, PTL DEF Spec

(* Every field keeps its type: a race that succeeded has a connection.     *)
THEOREM TypeCorrect == Spec => []TypeOK
<1>1. Inv => TypeOK BY DEF Inv
<1>2. QED BY <1>1, Invariance, PTL

(* DialContext returns no connection that a late racer closes.             *)
THEOREM ResultIsOpenCorrect == Spec => []ResultIsOpen
<1>1. Inv => ResultIsOpen BY DEF Inv, TakenFit, Taken, ResultIsOpen, IsOpen
<1>2. QED BY <1>1, Invariance, PTL

(* When all goroutines have ended, no connection is open that is neither   *)
(* the caller's nor the fallback that was set aside.                       *)
THEOREM LosersClosedCorrect == Spec => []LosersClosed
<1>1. ASSUME Inv, Quiet, NEW a \in Addrs, IsOpen(a) PROVE a \in {conn, fallback}
  BY <1>1 DEF Inv, HeldFits, Quiet, IsOpen
<1>2. Inv => LosersClosed BY <1>1 DEF LosersClosed
<1>3. QED BY <1>2, Invariance, PTL

(* An error means that every address was dialled and failed.               *)
THEOREM ErrorCorrect == Spec => []ErrorOnlyIfAllFailed
<1>1. Inv => ErrorOnlyIfAllFailed BY DEF Inv
<1>2. QED BY <1>1, Invariance, PTL

(* The family that is not preferred is returned only as the fallback.      *)
THEOREM PrimaryCorrect == Spec => []PrimaryIsAwaited
<1>1. Inv => PrimaryIsAwaited BY DEF Inv
<1>2. QED BY <1>1, Invariance, PTL
=============================================================================
