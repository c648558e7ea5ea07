-------------------------- MODULE AnyTLSPoolProofs --------------------------
(***************************************************************************)
(* AnyTLSPool for every set of calls and every number of sessions: a       *)
(* session is used by one stream at a time, none that is open is lost, a   *)
(* closed one has no streams, and a closed client keeps none.              *)
(***************************************************************************)
EXTENDS AnyTLSPool, FiniteSetTheorems, WellFoundedInduction, TLAPS

(* Where a call stands, and what it has by then. *)
CallFits(c) ==
    /\ at[c] \in {"start", "pick", "dial"} => stream[c] = "none"
    /\ at[c] \in Opening \cup {"returned"} => sess[c] \in 1 .. counter
    /\ stream[c] # "none" => sess[c] \in 1 .. counter /\ at[c] \in {"hook", "returned", "done"}
    /\ c \in hooked \/ stream[c] \in {"return", "insert"} => at[c] \in {"returned", "done"}

CallsFit == \A c \in Calls : CallFits(c)

(* No session is used twice; what is used is neither in the pool nor, while*)
(* the client lives, about to be closed; and no session is both of these.  *)
Alone == \A c, d \in Calls : c # d /\ Using(c) /\ Using(d) => sess[c] # sess[d]
NobodysInPool == \A c \in Calls : Using(c) => sess[c] \notin idle /\ (Died \/ sess[c] \notin doomed)
DoomedLeftPool == Died \/ doomed \cap idle = {}
Exclusive == Alone /\ NobodysInPool /\ DoomedLeftPool

-----------------------------------------------------------------------------
(* The types, and the order of a call's steps, are kept by every step of   *)
(* CreateStream, of a stream, of a session and of the client.              *)
LEMMA TypesInductive ==
    ASSUME TypeOK, CallsFit, [Next]_vars
    PROVE  TypeOK' /\ CallsFit'
<1> USE BoundAssumption DEF TypeOK, CallsFit, CallFits, Goto, StreamGoto, CloseGoto, Close, TakeFromPool, Opening, Sessions, NoSession, call, session, pool, client
<1>1. ASSUME NEW c \in Calls, CreateStream(c) PROVE TypeOK' /\ CallsFit'
  <2>1. TypeOK' BY <1>1 DEF CreateStream
  <2>2. CallsFit' BY <1>1 DEF CreateStream
  <2>3. QED BY <2>1, <2>2
<1>2. ASSUME NEW c \in Calls, GetIdleSession(c) PROVE TypeOK' /\ CallsFit'
  <2>1. TypeOK' BY <1>2 DEF GetIdleSession
  <2>2. CallsFit' BY <1>2 DEF GetIdleSession
  <2>3. QED BY <2>1, <2>2
<1>3. ASSUME NEW c \in Calls, NoIdleSession(c) PROVE TypeOK' /\ CallsFit'
  BY <1>3 DEF NoIdleSession
<1>4. ASSUME NEW c \in Calls, DialFails(c) PROVE TypeOK' /\ CallsFit'
  BY <1>4 DEF DialFails
<1>5. ASSUME NEW c \in Calls, Dial(c) PROVE TypeOK' /\ CallsFit'
  <2>1. TypeOK' BY <1>5 DEF Dial
  <2>2. CallsFit' BY <1>5 DEF Dial
  <2>3. QED BY <2>1, <2>2
<1>6. ASSUME NEW c \in Calls, Register(c) PROVE TypeOK' /\ CallsFit'
  <2>1. TypeOK' BY <1>6 DEF Register
  <2>2. CallsFit' BY <1>6 DEF Register
  <2>3. QED BY <2>1, <2>2
<1>7. ASSUME NEW c \in Calls, CheckOpen(c) PROVE TypeOK' /\ CallsFit'
  <2>1. TypeOK' BY <1>7 DEF CheckOpen
  <2>2. CallsFit' BY <1>7 DEF CheckOpen
  <2>3. QED BY <2>1, <2>2
<1>8. ASSUME NEW c \in Calls, WriteSYN(c) PROVE TypeOK' /\ CallsFit'
  BY <1>8 DEF WriteSYN
<1>9. ASSUME NEW c \in Calls, WriteSYNFails(c) PROVE TypeOK' /\ CallsFit'
  <2>1. CASE IsClosed(sess[c]) BY <1>9, <2>1 DEF WriteSYNFails
  <2>2. CASE ~IsClosed(sess[c]) BY <1>9, <2>2 DEF WriteSYNFails
  <2>3. QED BY <2>1, <2>2
<1>10. ASSUME NEW c \in Calls, AddStream(c) PROVE TypeOK' /\ CallsFit'
  <2> sess[c] \in Sessions /\ sess[c] \in 1 .. counter BY <1>10 DEF AddStream
  <2>1. CASE Refused(c) BY <1>10, <2>1 DEF AddStream
  <2>2. CASE ~Refused(c)
    <3>1. streams' = [streams EXCEPT ![sess[c]] = @ \cup {c}]
      BY <1>10, <2>2 DEF AddStream
    <3>2. streams' \in [Sessions -> SUBSET Calls]
      BY <3>1
    <3>3. TypeOK' BY <1>10, <2>2, <3>2 DEF AddStream
    <3>4. CallsFit' BY <1>10, <2>2 DEF AddStream
    <3>5. QED BY <3>3, <3>4
  <2>3. QED BY <2>1, <2>2
<1>11. ASSUME NEW c \in Calls, Abort(c) PROVE TypeOK' /\ CallsFit'
  BY <1>11 DEF Abort
<1>12. ASSUME NEW c \in Calls, SetDieHook(c) PROVE TypeOK' /\ CallsFit'
  BY <1>12 DEF SetDieHook
<1>13. ASSUME NEW c \in Calls, WriteAddress(c) PROVE TypeOK' /\ CallsFit'
  <2>1. sess[c] \in Sessions BY <1>13 DEF WriteAddress
  <2>2. TypeOK' BY <1>13, <2>1 DEF WriteAddress
  <2>3. CallsFit' BY <1>13 DEF WriteAddress
  <2>4. QED BY <2>2, <2>3
<1>14. ASSUME NEW c \in Calls, CloseStream(c) PROVE TypeOK' /\ CallsFit'
  <2>1. TypeOK' BY <1>14 DEF CloseStream
  <2>2. CallsFit' BY <1>14 DEF CloseStream
  <2>3. QED BY <2>1, <2>2
<1>15. ASSUME NEW c \in Calls, WriteFIN(c) PROVE TypeOK' /\ CallsFit'
  <2>1. TypeOK' BY <1>15 DEF WriteFIN
  <2>2. CallsFit' BY <1>15 DEF WriteFIN
  <2>3. QED BY <2>1, <2>2
<1>16. ASSUME NEW c \in Calls, WriteFINFails(c) PROVE TypeOK' /\ CallsFit'
  <2>1. TypeOK' BY <1>16 DEF WriteFINFails
  <2>2. CallsFit' BY <1>16 DEF WriteFINFails
  <2>3. QED BY <2>1, <2>2
<1>17. ASSUME NEW c \in Calls, Forget(c) PROVE TypeOK' /\ CallsFit'
  <2>1. TypeOK' BY <1>17 DEF Forget
  <2>2. CallsFit' BY <1>17 DEF Forget
  <2>3. QED BY <2>1, <2>2
<1>18. ASSUME NEW c \in Calls, ReceiveFIN(c) PROVE TypeOK' /\ CallsFit'
  <2>1. TypeOK' BY <1>18 DEF ReceiveFIN, NextAfterFIN, Known
  <2>2. CallsFit' BY <1>18 DEF ReceiveFIN, NextAfterFIN, Known
  <2>3. QED BY <2>1, <2>2
<1>19. ASSUME NEW c \in Calls, ReceiveError(c) PROVE TypeOK' /\ CallsFit'
  <2>1. TypeOK' BY <1>19 DEF ReceiveError, Known
  <2>2. CallsFit' BY <1>19 DEF ReceiveError, Known
  <2>3. QED BY <2>1, <2>2
<1>20. ASSUME NEW c \in Calls, RunHook(c) PROVE TypeOK' /\ CallsFit'
  <2>1. TypeOK' BY <1>20 DEF RunHook, IsClosed
  <2>2. CallsFit' BY <1>20 DEF RunHook, IsClosed
  <2>3. QED BY <2>1, <2>2
<1>21. ASSUME NEW c \in Calls, AskClient(c) PROVE TypeOK' /\ CallsFit'
  <2>1. TypeOK' BY <1>21 DEF AskClient, ClientClosed
  <2>2. CallsFit' BY <1>21 DEF AskClient, ClientClosed
  <2>3. QED BY <2>1, <2>2
<1>22. ASSUME NEW c \in Calls, ReturnSession(c) PROVE TypeOK' /\ CallsFit'
  <2>1. TypeOK' BY <1>22 DEF ReturnSession
  <2>2. CallsFit' BY <1>22 DEF ReturnSession
  <2>3. QED BY <2>1, <2>2
<1>23. ASSUME NEW s \in Sessions, SessionFails(s) PROVE TypeOK' /\ CallsFit'
  BY <1>23 DEF SessionFails
<1>24. ASSUME NEW s \in Sessions, LeavePool(s) PROVE TypeOK' /\ CallsFit'
  BY <1>24 DEF LeavePool
<1>25. ASSUME NEW s \in Sessions, LeaveMap(s) PROVE TypeOK' /\ CallsFit'
  BY <1>25 DEF LeaveMap
<1>26. ASSUME NEW s \in Sessions, EndStreams(s) PROVE TypeOK' /\ CallsFit'
  BY <1>26 DEF EndStreams
<1>27. ASSUME NEW s \in Sessions, Age(s) PROVE TypeOK' /\ CallsFit'
  BY <1>27 DEF Age
<1>28. ASSUME NEW s \in Sessions, CloseDoomed(s) PROVE TypeOK' /\ CallsFit'
  BY <1>28 DEF CloseDoomed
<1>29. ASSUME Cleanup PROVE TypeOK' /\ CallsFit'
  BY <1>29 DEF Cleanup, Surplus
<1>30. ASSUME ClientDies PROVE TypeOK' /\ CallsFit'
  BY <1>30 DEF ClientDies
<1>31. ASSUME ClientTakesAll PROVE TypeOK' /\ CallsFit'
  BY <1>31 DEF ClientTakesAll
<1>32. ASSUME UNCHANGED vars PROVE TypeOK' /\ CallsFit'
  BY <1>32 DEF vars
<1>33. QED
  BY <1>1, <1>2, <1>3, <1>4, <1>5, <1>6, <1>7, <1>8, <1>9, <1>10, <1>11, <1>12, <1>13, <1>14, <1>15, <1>16, <1>17, <1>18, <1>19, <1>20, <1>21, <1>22, <1>23, <1>24, <1>25, <1>26, <1>27, <1>28, <1>29, <1>30, <1>31, <1>32
  DEF Next, CallStep, StreamStep, SessionStep

-----------------------------------------------------------------------------
(* A step that gives nobody a session and returns none to the pool.        *)
LEMMA KeepsExclusive ==
    ASSUME Exclusive, UNCHANGED sess, \A c \in Calls : Using(c)' => Using(c),
           idle' \subseteq idle, doomed' \subseteq doomed \/ Died', Died => Died'
    PROVE  Exclusive'
BY DEF Exclusive, Alone, NobodysInPool, DoomedLeftPool

(* The other four take a session from the pool or dial one, return one, or *)
(* take those to close.                                                    *)
LEMMA ExclusiveInductive ==
    ASSUME TypeOK, CallsFit, Exclusive, [Next]_vars
    PROVE  Exclusive'
<1> USE DEF Goto, StreamGoto, TakeFromPool, Using, Opening, StreamLives, Died, call, session, pool, client
<1>1. ASSUME NEW c \in Calls, CreateStream(c) PROVE Exclusive'
  BY <1>1, KeepsExclusive DEF CreateStream, TypeOK
<1>2. ASSUME NEW c \in Calls, GetIdleSession(c) PROVE Exclusive'
  <2>1. PICK s \in idle : sess' = [sess EXCEPT ![c] = s] /\ idle' = idle \ {s}
    BY <1>2 DEF GetIdleSession
  <2>2. stream[c] \notin StreamLives /\ ~Using(c) /\ UNCHANGED <<stream, doomed, ending>>
    BY <1>2 DEF GetIdleSession, CallsFit, CallFits
  <2>3. \A d \in Calls \ {c} : sess'[d] = sess[d] /\ (Using(d)' <=> Using(d))
    BY <1>2, <2>1 DEF GetIdleSession, TypeOK
  <2>4. sess'[c] = s
    BY <2>1 DEF TypeOK
  <2>5. QED BY <2>1, <2>2, <2>3, <2>4 DEF Exclusive, Alone, NobodysInPool, DoomedLeftPool
<1>3. ASSUME NEW c \in Calls, NoIdleSession(c) PROVE Exclusive'
  BY <1>3, KeepsExclusive DEF NoIdleSession, TypeOK
<1>4. ASSUME NEW c \in Calls, DialFails(c) PROVE Exclusive'
  BY <1>4, KeepsExclusive DEF DialFails, TypeOK
<1>5. ASSUME NEW c \in Calls, Dial(c) PROVE Exclusive'
  <2>1. sess' = [sess EXCEPT ![c] = counter + 1] /\ UNCHANGED <<stream, idle, doomed, ending>>
    BY <1>5 DEF Dial
  <2>2. \A d \in Calls \ {c} : sess'[d] = sess[d] /\ (Using(d)' <=> Using(d))
    BY <1>5, <2>1 DEF Dial, TypeOK
  <2>3. sess'[c] = counter + 1
    BY <2>1 DEF TypeOK
  <2>4. counter \in Nat /\ \A d \in Calls : Using(d) => sess[d] \in 1 .. counter
    BY BoundAssumption DEF TypeOK, CallsFit, CallFits
  <2>5. counter + 1 \notin 1 .. counter
    BY <2>4
  <2>6. counter + 1 \notin idle \cup doomed
    BY <2>5 DEF TypeOK
  <2>7. QED BY <2>1, <2>2, <2>3, <2>4, <2>5, <2>6 DEF Exclusive, Alone, NobodysInPool, DoomedLeftPool
<1>6. ASSUME NEW c \in Calls, Register(c) PROVE Exclusive'
  BY <1>6, KeepsExclusive DEF Register, TypeOK
<1>7. ASSUME NEW c \in Calls, CheckOpen(c) PROVE Exclusive'
  BY <1>7, KeepsExclusive DEF CheckOpen, TypeOK
<1>8. ASSUME NEW c \in Calls, WriteSYN(c) PROVE Exclusive'
  BY <1>8, KeepsExclusive DEF WriteSYN, TypeOK
<1>9. ASSUME NEW c \in Calls, WriteSYNFails(c) PROVE Exclusive'
  BY <1>9, KeepsExclusive DEF WriteSYNFails, TypeOK
<1>10. ASSUME NEW c \in Calls, AddStream(c) PROVE Exclusive'
  BY <1>10, KeepsExclusive DEF AddStream, TypeOK
<1>11. ASSUME NEW c \in Calls, Abort(c) PROVE Exclusive'
  BY <1>11, KeepsExclusive DEF Abort, TypeOK
<1>12. ASSUME NEW c \in Calls, SetDieHook(c) PROVE Exclusive'
  BY <1>12, KeepsExclusive DEF SetDieHook, TypeOK
<1>13. ASSUME NEW c \in Calls, WriteAddress(c) PROVE Exclusive'
  BY <1>13, KeepsExclusive DEF WriteAddress, TypeOK
<1>14. ASSUME NEW c \in Calls, CloseStream(c) PROVE Exclusive'
  BY <1>14, KeepsExclusive DEF CloseStream, TypeOK
<1>15. ASSUME NEW c \in Calls, WriteFIN(c) PROVE Exclusive'
  BY <1>15, KeepsExclusive DEF WriteFIN, TypeOK
<1>16. ASSUME NEW c \in Calls, WriteFINFails(c) PROVE Exclusive'
  BY <1>16, KeepsExclusive DEF WriteFINFails, TypeOK
<1>17. ASSUME NEW c \in Calls, Forget(c) PROVE Exclusive'
  BY <1>17, KeepsExclusive DEF Forget, TypeOK
<1>18. ASSUME NEW c \in Calls, ReceiveFIN(c) PROVE Exclusive'
  BY <1>18, KeepsExclusive DEF ReceiveFIN, NextAfterFIN, TypeOK
<1>19. ASSUME NEW c \in Calls, ReceiveError(c) PROVE Exclusive'
  BY <1>19, KeepsExclusive DEF ReceiveError, TypeOK
<1>20. ASSUME NEW c \in Calls, RunHook(c) PROVE Exclusive'
  BY <1>20, KeepsExclusive DEF RunHook, TypeOK
<1>21. ASSUME NEW c \in Calls, AskClient(c) PROVE Exclusive'
  BY <1>21, KeepsExclusive DEF AskClient, TypeOK
<1>22. ASSUME NEW c \in Calls, ReturnSession(c) PROVE Exclusive'
  <2>1. idle' = idle \cup {sess[c]} /\ UNCHANGED <<at, sess, doomed, ending>>
    BY <1>22 DEF ReturnSession
  <2>2. Using(c) /\ ~Using(c)' /\ \A d \in Calls \ {c} : Using(d)' <=> Using(d)
    BY <1>22 DEF ReturnSession, TypeOK, CallsFit, CallFits
  <2>3. \A d \in Calls \ {c} : Using(d) => sess[d] # sess[c]
    BY <2>2 DEF Exclusive, Alone
  <2>4. QED BY <2>1, <2>2, <2>3 DEF Exclusive, Alone, NobodysInPool, DoomedLeftPool
<1>23. ASSUME NEW s \in Sessions, SessionFails(s) PROVE Exclusive'
  BY <1>23, KeepsExclusive DEF SessionFails, TypeOK
<1>24. ASSUME NEW s \in Sessions, LeavePool(s) PROVE Exclusive'
  BY <1>24, KeepsExclusive DEF LeavePool, TypeOK
<1>25. ASSUME NEW s \in Sessions, LeaveMap(s) PROVE Exclusive'
  BY <1>25, KeepsExclusive DEF LeaveMap, TypeOK
<1>26. ASSUME NEW s \in Sessions, EndStreams(s) PROVE Exclusive'
  BY <1>26, KeepsExclusive DEF EndStreams, TypeOK
<1>27. ASSUME NEW s \in Sessions, Age(s) PROVE Exclusive'
  BY <1>27, KeepsExclusive DEF Age, TypeOK
<1>28. ASSUME NEW s \in Sessions, CloseDoomed(s) PROVE Exclusive'
  BY <1>28, KeepsExclusive DEF CloseDoomed, TypeOK
<1>29. ASSUME Cleanup PROVE Exclusive'
  <2> DEFINE expired == {s \in aged : Surplus(s)}
  <2>1. /\ idle' = idle \ expired /\ doomed' = doomed \cup expired
        /\ UNCHANGED <<at, stream, sess, ending>>
    BY <1>29 DEF Cleanup
  <2>2. expired \subseteq idle
    BY DEF TypeOK
  <2> HIDE DEF expired
  <2>3. QED BY <2>1, <2>2 DEF Exclusive, Alone, NobodysInPool, DoomedLeftPool
<1>30. ASSUME ClientDies PROVE Exclusive'
  BY <1>30, KeepsExclusive DEF ClientDies, TypeOK
<1>31. ASSUME ClientTakesAll PROVE Exclusive'
  BY <1>31, KeepsExclusive DEF ClientTakesAll, TypeOK
<1>32. ASSUME UNCHANGED vars PROVE Exclusive'
  BY <1>32, KeepsExclusive DEF vars
<1>33. QED
  BY <1>1, <1>2, <1>3, <1>4, <1>5, <1>6, <1>7, <1>8, <1>9, <1>10, <1>11, <1>12, <1>13, <1>14, <1>15, <1>16, <1>17, <1>18, <1>19, <1>20, <1>21, <1>22, <1>23, <1>24, <1>25, <1>26, <1>27, <1>28, <1>29, <1>30, <1>31, <1>32
  DEF Next, CallStep, StreamStep, SessionStep

-----------------------------------------------------------------------------
(* Which streams a session knows: only its own, every one that is open, and*)
(* none once it is closed.                                                 *)
StreamsOwned == \A s \in Sessions : \A c \in streams[s] : sess[c] = s /\ stream[c] # "none"
OpenEntered == \A c \in Calls : stream[c] = "open" => c \in streams[sess[c]]
ClosedEmpty == \A s \in Sessions : closing[s] = "closed" => streams[s] = {}
Entered == StreamsOwned /\ OpenEntered /\ ClosedEmpty

(* A step that enters and forgets no stream, opens none and ends no Close. *)
LEMMA KeepsEntered ==
    ASSUME Entered, UNCHANGED <<sess, streams>>,
           \A c \in Calls : stream'[c] = "open" => stream[c] = "open",
           \A c \in Calls : stream[c] # "none" => stream'[c] # "none",
           \A s \in Sessions : closing'[s] = "closed" => closing[s] = "closed",
           TypeOK
    PROVE  Entered'
BY DEF Entered, StreamsOwned, OpenEntered, ClosedEmpty, TypeOK

(* A call that opens a stream, or has one, has a session. *)
LEMMA HasSession ==
    ASSUME TypeOK, CallsFit, NEW c \in Calls, at[c] \in Opening \cup {"returned"} \/ stream[c] # "none"
    PROVE  sess[c] \in Sessions /\ sess[c] \in 1 .. counter
BY BoundAssumption DEF TypeOK, CallsFit, CallFits, Sessions

(* No step of a call, a stream, a session or the client lets a session     *)
(* know a stream of another, miss one that opens, or keep one when closed. *)
LEMMA EnteredInductive ==
    ASSUME TypeOK, CallsFit, Entered, [Next]_vars
    PROVE  Entered'
<1> USE DEF Goto, StreamGoto, CloseGoto, Close, IsClosed, TakeFromPool, call, session, pool, client
<1>1. ASSUME NEW c \in Calls, CreateStream(c) PROVE Entered'
  BY <1>1, KeepsEntered DEF CreateStream, TypeOK
<1>2. ASSUME NEW c \in Calls, GetIdleSession(c) PROVE Entered'
  <2>1. stream[c] = "none" BY <1>2 DEF GetIdleSession, CallsFit, CallFits
  <2>2. UNCHANGED <<streams, stream, closing>> BY <1>2 DEF GetIdleSession
  <2>3. \A d \in Calls \ {c} : sess'[d] = sess[d] BY <1>2 DEF GetIdleSession, TypeOK
  <2>4. \A s \in Sessions : c \notin streams[s] BY <2>1 DEF Entered, StreamsOwned
  <2>5. \A s \in Sessions : streams[s] \subseteq Calls BY DEF TypeOK
  <2>6. StreamsOwned' BY <2>2, <2>3, <2>4, <2>5 DEF Entered, StreamsOwned
  <2>7. OpenEntered' BY <2>1, <2>2, <2>3 DEF Entered, OpenEntered
  <2>8. ClosedEmpty' BY <2>2 DEF Entered, ClosedEmpty
  <2>9. QED BY <2>6, <2>7, <2>8 DEF Entered
<1>3. ASSUME NEW c \in Calls, NoIdleSession(c) PROVE Entered'
  BY <1>3, KeepsEntered DEF NoIdleSession, TypeOK
<1>4. ASSUME NEW c \in Calls, DialFails(c) PROVE Entered'
  BY <1>4, KeepsEntered DEF DialFails, TypeOK
<1>5. ASSUME NEW c \in Calls, Dial(c) PROVE Entered'
  <2>1. stream[c] = "none" BY <1>5 DEF Dial, CallsFit, CallFits
  <2>2. UNCHANGED <<streams, stream, closing>> BY <1>5 DEF Dial
  <2>3. \A d \in Calls \ {c} : sess'[d] = sess[d] BY <1>5 DEF Dial, TypeOK
  <2>4. \A s \in Sessions : c \notin streams[s] BY <2>1 DEF Entered, StreamsOwned
  <2>5. \A s \in Sessions : streams[s] \subseteq Calls BY DEF TypeOK
  <2>6. StreamsOwned' BY <2>2, <2>3, <2>4, <2>5 DEF Entered, StreamsOwned
  <2>7. OpenEntered' BY <2>1, <2>2, <2>3 DEF Entered, OpenEntered
  <2>8. ClosedEmpty' BY <2>2 DEF Entered, ClosedEmpty
  <2>9. QED BY <2>6, <2>7, <2>8 DEF Entered
<1>6. ASSUME NEW c \in Calls, Register(c) PROVE Entered'
  BY <1>6, KeepsEntered DEF Register, TypeOK
<1>7. ASSUME NEW c \in Calls, CheckOpen(c) PROVE Entered'
  BY <1>7, KeepsEntered DEF CheckOpen, TypeOK
<1>8. ASSUME NEW c \in Calls, WriteSYN(c) PROVE Entered'
  BY <1>8, KeepsEntered DEF WriteSYN, TypeOK
<1>9. ASSUME NEW c \in Calls, WriteSYNFails(c) PROVE Entered'
  BY <1>9, KeepsEntered DEF WriteSYNFails, TypeOK
<1>10. ASSUME NEW c \in Calls, AddStream(c) PROVE Entered'
  <2>1. CASE Refused(c)
    BY <1>10, <2>1, KeepsEntered DEF AddStream
  <2>2. CASE ~Refused(c)
    <3>1. /\ streams' = [streams EXCEPT ![sess[c]] = @ \cup {c}]
          /\ stream' = [stream EXCEPT ![c] = "open"] /\ UNCHANGED <<sess, closing>>
      BY <1>10, <2>2 DEF AddStream
    <3>2. sess[c] \in Sessions /\ closing[sess[c]] = "no"
      BY <1>10, <2>2, HasSession DEF AddStream, Refused, TypeOK, Opening
    <3>3. QED BY <3>1, <3>2 DEF Entered, StreamsOwned, OpenEntered, ClosedEmpty, TypeOK
  <2>3. QED BY <2>1, <2>2
<1>11. ASSUME NEW c \in Calls, Abort(c) PROVE Entered'
  BY <1>11, KeepsEntered DEF Abort, TypeOK
<1>12. ASSUME NEW c \in Calls, SetDieHook(c) PROVE Entered'
  BY <1>12, KeepsEntered DEF SetDieHook, TypeOK
<1>13. ASSUME NEW c \in Calls, WriteAddress(c) PROVE Entered'
  BY <1>13, KeepsEntered DEF WriteAddress, TypeOK
<1>14. ASSUME NEW c \in Calls, CloseStream(c) PROVE Entered'
  BY <1>14, KeepsEntered DEF CloseStream, TypeOK
<1>15. ASSUME NEW c \in Calls, WriteFIN(c) PROVE Entered'
  BY <1>15, KeepsEntered DEF WriteFIN, TypeOK
<1>16. ASSUME NEW c \in Calls, WriteFINFails(c) PROVE Entered'
  BY <1>16, KeepsEntered DEF WriteFINFails, TypeOK
<1>17. ASSUME NEW c \in Calls, Forget(c) PROVE Entered'
  <2>1. streams' = [streams EXCEPT ![sess[c]] = @ \ {c}] /\ UNCHANGED <<sess, closing>>
    BY <1>17 DEF Forget
  <2>2. /\ stream'[c] \notin {"none", "open"}
        /\ \A d \in Calls \ {c} : stream'[d] = stream[d]
    BY <1>17 DEF Forget, TypeOK, Entered, StreamsOwned, Sessions
  <2>3. sess[c] \in Sessions
    BY <1>17, HasSession DEF Forget
  <2>4. QED BY <2>1, <2>2, <2>3 DEF Entered, StreamsOwned, OpenEntered, ClosedEmpty, TypeOK
<1>18. ASSUME NEW c \in Calls, ReceiveFIN(c) PROVE Entered'
  <2>1. streams' = [streams EXCEPT ![sess[c]] = @ \ {c}] /\ UNCHANGED <<sess, closing>>
    BY <1>18 DEF ReceiveFIN
  <2>2. \A d \in Calls : stream'[d] = stream[d] \/ (d = c /\ stream'[d] = "hook")
    BY <1>18 DEF ReceiveFIN, NextAfterFIN, TypeOK
  <2>3. stream'[c] # "open"
    BY <1>18 DEF ReceiveFIN, NextAfterFIN, TypeOK
  <2>4. QED BY <2>1, <2>2, <2>3 DEF Entered, StreamsOwned, OpenEntered, ClosedEmpty, TypeOK
<1>19. ASSUME NEW c \in Calls, ReceiveError(c) PROVE Entered'
  BY <1>19, KeepsEntered DEF ReceiveError, Known, TypeOK
<1>20. ASSUME NEW c \in Calls, RunHook(c) PROVE Entered'
  BY <1>20, KeepsEntered DEF RunHook, TypeOK
<1>21. ASSUME NEW c \in Calls, AskClient(c) PROVE Entered'
  BY <1>21, KeepsEntered DEF AskClient, ClientClosed, TypeOK
<1>22. ASSUME NEW c \in Calls, ReturnSession(c) PROVE Entered'
  BY <1>22, KeepsEntered DEF ReturnSession, TypeOK
<1>23. ASSUME NEW s \in Sessions, SessionFails(s) PROVE Entered'
  BY <1>23, KeepsEntered DEF SessionFails, TypeOK
<1>24. ASSUME NEW s \in Sessions, LeavePool(s) PROVE Entered'
  BY <1>24, KeepsEntered DEF LeavePool, TypeOK
<1>25. ASSUME NEW s \in Sessions, LeaveMap(s) PROVE Entered'
  BY <1>25, KeepsEntered DEF LeaveMap, TypeOK
<1>26. ASSUME NEW s \in Sessions, EndStreams(s) PROVE Entered'
  <2>1. /\ streams' = [streams EXCEPT ![s] = {}] /\ UNCHANGED sess
        /\ closing' = [closing EXCEPT ![s] = "closed"]
        /\ stream' = [c \in Calls |-> IF c \in streams[s] /\ stream[c] = "open" THEN "over" ELSE stream[c]]
    BY <1>26 DEF EndStreams
  <2>2. StreamsOwned' BY <2>1 DEF Entered, StreamsOwned, TypeOK
  <2>3. OpenEntered' BY <2>1 DEF Entered, StreamsOwned, OpenEntered, TypeOK
  <2>4. ClosedEmpty' BY <2>1 DEF Entered, ClosedEmpty, TypeOK
  <2>5. QED BY <2>2, <2>3, <2>4 DEF Entered
<1>27. ASSUME NEW s \in Sessions, Age(s) PROVE Entered'
  BY <1>27, KeepsEntered DEF Age, TypeOK
<1>28. ASSUME NEW s \in Sessions, CloseDoomed(s) PROVE Entered'
  BY <1>28, KeepsEntered DEF CloseDoomed, TypeOK
<1>29. ASSUME Cleanup PROVE Entered'
  BY <1>29, KeepsEntered DEF Cleanup, TypeOK
<1>30. ASSUME ClientDies PROVE Entered'
  BY <1>30, KeepsEntered DEF ClientDies, TypeOK
<1>31. ASSUME ClientTakesAll PROVE Entered'
  BY <1>31, KeepsEntered DEF ClientTakesAll, TypeOK
<1>32. ASSUME UNCHANGED vars PROVE Entered'
  BY <1>32, KeepsEntered DEF vars, TypeOK
<1>33. QED
  BY <1>1, <1>2, <1>3, <1>4, <1>5, <1>6, <1>7, <1>8, <1>9, <1>10, <1>11, <1>12, <1>13, <1>14, <1>15, <1>16, <1>17, <1>18, <1>19, <1>20, <1>21, <1>22, <1>23, <1>24, <1>25, <1>26, <1>27, <1>28, <1>29, <1>30, <1>31, <1>32
  DEF Next, CallStep, StreamStep, SessionStep

-----------------------------------------------------------------------------
(* An open session is in the pool, about to be closed, in use, or one that *)
(* was given up too early; and a stream that is over before CreateStream   *)
(* came to set its dieHook has left its session closed, or given it up.    *)
Kept(s) == s \in hurried \cup idle \cup doomed \/ \E c \in Calls : Holds(c, s)
Accounted == \A s \in 1 .. counter : IsClosed(s) \/ Kept(s)
HookFits(c) == at[c] = "hook" => stream[c] # "none" /\ (stream[c] = "over" => IsClosed(sess[c]) \/ sess[c] \in hurried)
HooksFit == \A c \in Calls : HookFits(c)

(* A step after which what was kept still is, or is closed: a session that *)
(* is let go of is closed, in the pool, or given up.                       *)
LEMMA KeepsAccounted ==
    ASSUME Accounted, UNCHANGED <<counter, sess>>,
           \A s \in Sessions : IsClosed(s) => IsClosed(s)', 1 .. counter \subseteq Sessions,
           \A s \in Sessions : s \in hurried \cup idle \cup doomed =>
                s \in (hurried \cup idle \cup doomed)' \/ IsClosed(s)',
           \A c \in Calls : Using(c) => Using(c)' \/ IsClosed(sess[c])' \/ sess[c] \in (hurried \cup idle)'
    PROVE  Accounted'
BY DEF Accounted, Kept, Holds

(* A session is never closed less than it was. *)
LEMMA ClosedStays ==
    ASSUME TypeOK, [Next]_vars, NEW s \in Sessions, IsClosed(s)
    PROVE  IsClosed(s)'
BY DEF TypeOK, IsClosed, Next, CallStep, StreamStep, SessionStep, vars, call, session, pool, client, Close, CloseGoto,
   CreateStream, GetIdleSession, NoIdleSession, DialFails, Dial, Register, CheckOpen, WriteSYN, WriteSYNFails,
   AddStream, Abort, SetDieHook, WriteAddress, CloseStream, WriteFIN, WriteFINFails, Forget, ReceiveFIN,
   ReceiveError, RunHook, AskClient, ReturnSession, SessionFails, LeavePool, LeaveMap, EndStreams, Age,
   CloseDoomed, Cleanup, ClientDies, ClientTakesAll

(* No step lets go of a session that is open and not given up. *)
LEMMA AccountedInductive ==
    ASSUME TypeOK, CallsFit, Entered, Accounted, HooksFit, [Next]_vars
    PROVE  Accounted' /\ HooksFit'
<1> USE DEF Goto, StreamGoto, CloseGoto, Close, IsClosed, TakeFromPool, Using, Opening, StreamLives, call, session, pool, client
<1> 1 .. counter \subseteq Sessions
  BY BoundAssumption DEF TypeOK, Sessions
<1> DEFINE Mono == \A s \in Sessions : closing[s] # "no" => closing'[s] # "no"
<1>0. Mono
  BY ClosedStays
<1>1. ASSUME NEW c \in Calls, CreateStream(c) PROVE Accounted' /\ HooksFit'
  <2>1. Accounted' BY <1>1, <1>0, KeepsAccounted DEF CreateStream, TypeOK
  <2>2. HooksFit' BY <1>1, <1>0, HasSession DEF CreateStream, TypeOK, HooksFit, HookFits
  <2>3. QED BY <2>1, <2>2
<1>2. ASSUME NEW c \in Calls, GetIdleSession(c) PROVE Accounted' /\ HooksFit'
  <2>1. PICK s \in idle : sess' = [sess EXCEPT ![c] = s] /\ idle' = idle \ {s}
    BY <1>2 DEF GetIdleSession
  <2>2. ~Using(c) /\ Using(c)' /\ UNCHANGED <<counter, closing, doomed, hurried>>
    BY <1>2 DEF GetIdleSession, TypeOK, CallsFit, CallFits
  <2>3. \A d \in Calls : Using(d) => Using(d)' /\ sess'[d] = sess[d]
    BY <1>2, <2>1, <2>2 DEF GetIdleSession, TypeOK
  <2>4. sess'[c] = s BY <2>1 DEF TypeOK
  <2>5. Accounted' BY <2>1, <2>2, <2>3, <2>4 DEF Accounted, Kept, Holds
  <2>6. HooksFit' BY <1>2, <1>0, HasSession DEF GetIdleSession, TypeOK, HooksFit, HookFits
  <2>7. QED BY <2>5, <2>6
<1>3. ASSUME NEW c \in Calls, NoIdleSession(c) PROVE Accounted' /\ HooksFit'
  <2>1. Accounted' BY <1>3, <1>0, KeepsAccounted DEF NoIdleSession, TypeOK
  <2>2. HooksFit' BY <1>3, <1>0, HasSession DEF NoIdleSession, TypeOK, HooksFit, HookFits
  <2>3. QED BY <2>1, <2>2
<1>4. ASSUME NEW c \in Calls, DialFails(c) PROVE Accounted' /\ HooksFit'
  <2>1. Accounted' BY <1>4, <1>0, KeepsAccounted DEF DialFails, TypeOK
  <2>2. HooksFit' BY <1>4, <1>0, HasSession DEF DialFails, TypeOK, HooksFit, HookFits
  <2>3. QED BY <2>1, <2>2
<1>5. ASSUME NEW c \in Calls, Dial(c) PROVE Accounted' /\ HooksFit'
  <2>1. ~Using(c) /\ Using(c)' /\ UNCHANGED <<idle, closing, doomed, hurried>>
    BY <1>5 DEF Dial, TypeOK, CallsFit, CallFits
  <2>2. \A d \in Calls : Using(d) => Using(d)' /\ sess'[d] = sess[d]
    BY <1>5, <2>1 DEF Dial, TypeOK
  <2>3. sess'[c] = counter + 1 /\ counter' = counter + 1 BY <1>5 DEF Dial, TypeOK
  <2>4. counter \in Nat /\ \A s \in 1 .. counter' : s \in 1 .. counter \/ s = counter + 1
    BY <2>3, BoundAssumption DEF TypeOK
  <2>5. Accounted' BY <2>1, <2>2, <2>3, <2>4 DEF Accounted, Kept, Holds
  <2>6. HooksFit' BY <1>5, <1>0, HasSession DEF Dial, TypeOK, HooksFit, HookFits
  <2>7. QED BY <2>5, <2>6
<1>6. ASSUME NEW c \in Calls, Register(c) PROVE Accounted' /\ HooksFit'
  <2>1. Accounted' BY <1>6, <1>0, KeepsAccounted DEF Register, TypeOK
  <2>2. HooksFit' BY <1>6, <1>0, HasSession DEF Register, TypeOK, HooksFit, HookFits
  <2>3. QED BY <2>1, <2>2
<1>7. ASSUME NEW c \in Calls, CheckOpen(c) PROVE Accounted' /\ HooksFit'
  <2>1. Accounted' BY <1>7, <1>0, KeepsAccounted DEF CheckOpen, TypeOK
  <2>2. HooksFit' BY <1>7, <1>0, HasSession DEF CheckOpen, TypeOK, HooksFit, HookFits
  <2>3. QED BY <2>1, <2>2
<1>8. ASSUME NEW c \in Calls, WriteSYN(c) PROVE Accounted' /\ HooksFit'
  <2>1. Accounted' BY <1>8, <1>0, KeepsAccounted DEF WriteSYN, TypeOK
  <2>2. HooksFit' BY <1>8, <1>0, HasSession DEF WriteSYN, TypeOK, HooksFit, HookFits
  <2>3. QED BY <2>1, <2>2
<1>9. ASSUME NEW c \in Calls, WriteSYNFails(c) PROVE Accounted' /\ HooksFit'
  <2>1. Accounted' BY <1>9, <1>0, KeepsAccounted DEF WriteSYNFails, TypeOK
  <2>2. HooksFit' BY <1>9, <1>0, HasSession DEF WriteSYNFails, TypeOK, HooksFit, HookFits
  <2>3. QED BY <2>1, <2>2
<1>10. ASSUME NEW c \in Calls, AddStream(c) PROVE Accounted' /\ HooksFit'
  <2>1. Accounted' BY <1>10, <1>0, KeepsAccounted DEF AddStream, Refused, TypeOK
  <2>2. HooksFit' BY <1>10, <1>0, HasSession DEF AddStream, Refused, TypeOK, HooksFit, HookFits
  <2>3. QED BY <2>1, <2>2
<1>11. ASSUME NEW c \in Calls, Abort(c) PROVE Accounted' /\ HooksFit'
  <2>1. UNCHANGED <<counter, sess>>
    BY <1>11 DEF Abort
  <2>2. \A s \in Sessions : s \in hurried \cup idle \cup doomed => s \in (hurried \cup idle \cup doomed)'
    BY <1>11 DEF Abort
  <2>3. \A d \in Calls \ {c} : Using(d) => Using(d)'
    BY <1>11 DEF Abort, TypeOK
  <2>4. Using(c) => Using(c)' \/ IsClosed(sess[c])' \/ sess[c] \in (hurried \cup idle)'
    BY <1>11, HasSession DEF Abort, TypeOK, HooksFit, HookFits
  <2>5. Accounted' BY <1>0, <2>1, <2>2, <2>3, <2>4, KeepsAccounted
  <2>6. HooksFit' BY <1>11, <1>0, HasSession DEF Abort, TypeOK, HooksFit, HookFits
  <2>7. QED BY <2>5, <2>6
<1>12. ASSUME NEW c \in Calls, SetDieHook(c) PROVE Accounted' /\ HooksFit'
  <2>1. UNCHANGED <<counter, sess>>
    BY <1>12 DEF SetDieHook
  <2>2. \A s \in Sessions : s \in hurried \cup idle \cup doomed => s \in (hurried \cup idle \cup doomed)'
    BY <1>12 DEF SetDieHook
  <2>3. \A d \in Calls \ {c} : Using(d) => Using(d)'
    BY <1>12 DEF SetDieHook, TypeOK
  <2>4. Using(c) => Using(c)' \/ IsClosed(sess[c])' \/ sess[c] \in (hurried \cup idle)'
    BY <1>12, HasSession DEF SetDieHook, TypeOK, HooksFit, HookFits
  <2>5. Accounted' BY <1>0, <2>1, <2>2, <2>3, <2>4, KeepsAccounted
  <2>6. HooksFit' BY <1>12, <1>0, HasSession DEF SetDieHook, TypeOK, HooksFit, HookFits
  <2>7. QED BY <2>5, <2>6
<1>13. ASSUME NEW c \in Calls, WriteAddress(c) PROVE Accounted' /\ HooksFit'
  <2>1. Accounted' BY <1>13, <1>0, KeepsAccounted DEF WriteAddress, TypeOK
  <2>2. HooksFit' BY <1>13, <1>0, HasSession DEF WriteAddress, TypeOK, HooksFit, HookFits
  <2>3. QED BY <2>1, <2>2
<1>14. ASSUME NEW c \in Calls, CloseStream(c) PROVE Accounted' /\ HooksFit'
  <2>1. Accounted' BY <1>14, <1>0, KeepsAccounted DEF CloseStream, TypeOK
  <2>2. HooksFit' BY <1>14, <1>0, HasSession DEF CloseStream, TypeOK, HooksFit, HookFits
  <2>3. QED BY <2>1, <2>2
<1>15. ASSUME NEW c \in Calls, WriteFIN(c) PROVE Accounted' /\ HooksFit'
  <2>1. Accounted' BY <1>15, <1>0, KeepsAccounted DEF WriteFIN, TypeOK
  <2>2. HooksFit' BY <1>15, <1>0, HasSession DEF WriteFIN, TypeOK, HooksFit, HookFits
  <2>3. QED BY <2>1, <2>2
<1>16. ASSUME NEW c \in Calls, WriteFINFails(c) PROVE Accounted' /\ HooksFit'
  <2>1. Accounted' BY <1>16, <1>0, KeepsAccounted DEF WriteFINFails, TypeOK
  <2>2. HooksFit' BY <1>16, <1>0, HasSession DEF WriteFINFails, TypeOK, HooksFit, HookFits
  <2>3. QED BY <2>1, <2>2
<1>17. ASSUME NEW c \in Calls, Forget(c) PROVE Accounted' /\ HooksFit'
  <2>1. Accounted' BY <1>17, <1>0, KeepsAccounted DEF Forget, TypeOK
  <2>2. HooksFit' BY <1>17, <1>0, HasSession DEF Forget, TypeOK, HooksFit, HookFits
  <2>3. QED BY <2>1, <2>2
<1>18. ASSUME NEW c \in Calls, ReceiveFIN(c) PROVE Accounted' /\ HooksFit'
  <2>1. Accounted' BY <1>18, <1>0, KeepsAccounted DEF ReceiveFIN, NextAfterFIN, Known, TypeOK
  <2>2. HooksFit' BY <1>18, <1>0, HasSession DEF ReceiveFIN, NextAfterFIN, Known, TypeOK, HooksFit, HookFits
  <2>3. QED BY <2>1, <2>2
<1>19. ASSUME NEW c \in Calls, ReceiveError(c) PROVE Accounted' /\ HooksFit'
  <2>1. Accounted' BY <1>19, <1>0, KeepsAccounted DEF ReceiveError, Known, TypeOK
  <2>2. HooksFit' BY <1>19, <1>0, HasSession DEF ReceiveError, Known, TypeOK, HooksFit, HookFits
  <2>3. QED BY <2>1, <2>2
<1>20. ASSUME NEW c \in Calls, RunHook(c) PROVE Accounted' /\ HooksFit'
  <2>1. UNCHANGED <<counter, sess>>
    BY <1>20 DEF RunHook
  <2>2. \A s \in Sessions : s \in hurried \cup idle \cup doomed => s \in (hurried \cup idle \cup doomed)'
    BY <1>20 DEF RunHook
  <2>3. \A d \in Calls \ {c} : Using(d) => Using(d)'
    BY <1>20 DEF RunHook, TypeOK
  <2>4. Using(c) => Using(c)' \/ IsClosed(sess[c])' \/ sess[c] \in (hurried \cup idle)'
    BY <1>20, HasSession DEF RunHook, TypeOK, HooksFit, HookFits
  <2>5. Accounted' BY <1>0, <2>1, <2>2, <2>3, <2>4, KeepsAccounted
  <2>6. HooksFit' BY <1>20, <1>0, HasSession DEF RunHook, TypeOK, HooksFit, HookFits
  <2>7. QED BY <2>5, <2>6
<1>21. ASSUME NEW c \in Calls, AskClient(c) PROVE Accounted' /\ HooksFit'
  <2>1. UNCHANGED <<counter, sess>>
    BY <1>21 DEF AskClient, ClientClosed
  <2>2. \A s \in Sessions : s \in hurried \cup idle \cup doomed => s \in (hurried \cup idle \cup doomed)'
    BY <1>21 DEF AskClient, ClientClosed
  <2>3. \A d \in Calls \ {c} : Using(d) => Using(d)'
    BY <1>21 DEF AskClient, ClientClosed, TypeOK
  <2>4. Using(c) => Using(c)' \/ IsClosed(sess[c])' \/ sess[c] \in (hurried \cup idle)'
    BY <1>21, HasSession DEF AskClient, ClientClosed, TypeOK, HooksFit, HookFits
  <2>5. Accounted' BY <1>0, <2>1, <2>2, <2>3, <2>4, KeepsAccounted
  <2>6. HooksFit' BY <1>21, <1>0, HasSession DEF AskClient, ClientClosed, TypeOK, HooksFit, HookFits
  <2>7. QED BY <2>5, <2>6
<1>22. ASSUME NEW c \in Calls, ReturnSession(c) PROVE Accounted' /\ HooksFit'
  <2>1. Accounted' BY <1>22, <1>0, KeepsAccounted DEF ReturnSession, TypeOK
  <2>2. at[c] # "hook" /\ UNCHANGED <<at, sess, closing, hurried>>
    BY <1>22 DEF ReturnSession, CallsFit, CallFits
  <2>3. \A d \in Calls \ {c} : stream'[d] = stream[d]
    BY <1>22 DEF ReturnSession, TypeOK
  <2>4. HooksFit' BY <2>2, <2>3 DEF HooksFit, HookFits
  <2>5. QED BY <2>1, <2>4
<1>23. ASSUME NEW s \in Sessions, SessionFails(s) PROVE Accounted' /\ HooksFit'
  <2>1. Accounted' BY <1>23, <1>0, KeepsAccounted DEF SessionFails, TypeOK
  <2>2. HooksFit' BY <1>23, <1>0, HasSession DEF SessionFails, TypeOK, HooksFit, HookFits
  <2>3. QED BY <2>1, <2>2
<1>24. ASSUME NEW s \in Sessions, LeavePool(s) PROVE Accounted' /\ HooksFit'
  <2>1. Accounted' BY <1>24, <1>0, KeepsAccounted DEF LeavePool, TypeOK
  <2>2. HooksFit' BY <1>24, <1>0, HasSession DEF LeavePool, TypeOK, HooksFit, HookFits
  <2>3. QED BY <2>1, <2>2
<1>25. ASSUME NEW s \in Sessions, LeaveMap(s) PROVE Accounted' /\ HooksFit'
  <2>1. Accounted' BY <1>25, <1>0, KeepsAccounted DEF LeaveMap, TypeOK
  <2>2. HooksFit' BY <1>25, <1>0, HasSession DEF LeaveMap, TypeOK, HooksFit, HookFits
  <2>3. QED BY <2>1, <2>2
<1>26. ASSUME NEW s \in Sessions, EndStreams(s) PROVE Accounted' /\ HooksFit'
  <2>1. closing'[s] = "closed" /\ UNCHANGED <<at, counter, sess, hurried, idle, doomed>>
    BY <1>26 DEF EndStreams, TypeOK
  <2>2. \A c \in Calls : stream'[c] = stream[c] \/ (sess[c] = s /\ stream'[c] = "over")
    BY <1>26 DEF EndStreams, TypeOK, Entered, StreamsOwned
  <2>3. Accounted' BY <1>0, <2>1, <2>2, KeepsAccounted
  <2>4. HooksFit' BY <1>0, <2>1, <2>2, HasSession DEF HooksFit, HookFits
  <2>5. QED BY <2>3, <2>4
<1>27. ASSUME NEW s \in Sessions, Age(s) PROVE Accounted' /\ HooksFit'
  <2>1. Accounted' BY <1>27, <1>0, KeepsAccounted DEF Age, TypeOK
  <2>2. HooksFit' BY <1>27, <1>0, HasSession DEF Age, TypeOK, HooksFit, HookFits
  <2>3. QED BY <2>1, <2>2
<1>28. ASSUME NEW s \in Sessions, CloseDoomed(s) PROVE Accounted' /\ HooksFit'
  <2>1. Accounted' BY <1>28, <1>0, KeepsAccounted DEF CloseDoomed, TypeOK
  <2>2. HooksFit' BY <1>28, <1>0, HasSession DEF CloseDoomed, TypeOK, HooksFit, HookFits
  <2>3. QED BY <2>1, <2>2
<1>29. ASSUME Cleanup PROVE Accounted' /\ HooksFit'
  <2>1. Accounted' BY <1>29, <1>0, KeepsAccounted DEF Cleanup, TypeOK
  <2>2. HooksFit' BY <1>29, <1>0, HasSession DEF Cleanup, TypeOK, HooksFit, HookFits
  <2>3. QED BY <2>1, <2>2
<1>30. ASSUME ClientDies PROVE Accounted' /\ HooksFit'
  <2>1. Accounted' BY <1>30, <1>0, KeepsAccounted DEF ClientDies, TypeOK
  <2>2. HooksFit' BY <1>30, <1>0, HasSession DEF ClientDies, TypeOK, HooksFit, HookFits
  <2>3. QED BY <2>1, <2>2
<1>31. ASSUME ClientTakesAll PROVE Accounted' /\ HooksFit'
  <2>1. Accounted' BY <1>31, <1>0, KeepsAccounted DEF ClientTakesAll, TypeOK
  <2>2. HooksFit' BY <1>31, <1>0, HasSession DEF ClientTakesAll, TypeOK, HooksFit, HookFits
  <2>3. QED BY <2>1, <2>2
<1>32. ASSUME UNCHANGED vars PROVE Accounted' /\ HooksFit'
  <2>1. Accounted' BY <1>32, <1>0, KeepsAccounted DEF vars, TypeOK
  <2>2. HooksFit' BY <1>32, <1>0, HasSession DEF vars, TypeOK, HooksFit, HookFits
  <2>3. QED BY <2>1, <2>2
<1>33. QED
  BY <1>1, <1>2, <1>3, <1>4, <1>5, <1>6, <1>7, <1>8, <1>9, <1>10, <1>11, <1>12, <1>13, <1>14, <1>15, <1>16, <1>17, <1>18, <1>19, <1>20, <1>21, <1>22, <1>23, <1>24, <1>25, <1>26, <1>27, <1>28, <1>29, <1>30, <1>31, <1>32
  DEF Next, CallStep, StreamStep, SessionStep

-----------------------------------------------------------------------------
(* Until Client.Close takes the map, an open session is in it or about to  *)
(* enter it; once it has, an open session in the pool, or on its way back, *)
(* is one of those that were taken to be closed.                           *)
Entering(s) == \E c \in Calls : at[c] = "register" /\ sess[c] = s
Returning(s) == \E c \in Calls : stream[c] = "insert" /\ sess[c] = s
InMap == ending # "taken" => \A s \in 1 .. counter : IsClosed(s) \/ s \in sessions \/ Entering(s)
AllTaken ==
    ending = "taken" => \A s \in 1 .. counter : s \in idle \/ Returning(s) => IsClosed(s) \/ s \in doomed

(* No step puts an open session beside the map, or back into the pool of a *)
(* client whose Close has been through it.                                 *)
LEMMA TakenInductive ==
    ASSUME TypeOK, CallsFit, Exclusive, InMap, AllTaken, [Next]_vars
    PROVE  InMap' /\ AllTaken'
<1> USE DEF Goto, StreamGoto, CloseGoto, Close, IsClosed, Died, TakeFromPool, call, session, pool, client
<1> 1 .. counter \subseteq Sessions
  BY BoundAssumption DEF TypeOK, Sessions
<1>0. \A s \in Sessions : closing[s] # "no" => closing'[s] # "no"
  BY ClosedStays
<1>1. ASSUME NEW c \in Calls, CreateStream(c) PROVE InMap' /\ AllTaken'
  <2>1. InMap' BY <1>1, <1>0, HasSession DEF CreateStream, TypeOK, InMap, Entering, Opening
  <2>2. AllTaken' BY <1>1, <1>0, HasSession DEF CreateStream, TypeOK, AllTaken, Returning
  <2>3. QED BY <2>1, <2>2
<1>2. ASSUME NEW c \in Calls, GetIdleSession(c) PROVE InMap' /\ AllTaken'
  <2>1. InMap' BY <1>2, <1>0, HasSession DEF GetIdleSession, TypeOK, InMap, Entering, Opening
  <2>2. AllTaken' BY <1>2, <1>0, HasSession DEF GetIdleSession, TypeOK, AllTaken, Returning
  <2>3. QED BY <2>1, <2>2
<1>3. ASSUME NEW c \in Calls, NoIdleSession(c) PROVE InMap' /\ AllTaken'
  <2>1. InMap' BY <1>3, <1>0, HasSession DEF NoIdleSession, TypeOK, InMap, Entering, Opening
  <2>2. AllTaken' BY <1>3, <1>0, HasSession DEF NoIdleSession, TypeOK, AllTaken, Returning
  <2>3. QED BY <2>1, <2>2
<1>4. ASSUME NEW c \in Calls, DialFails(c) PROVE InMap' /\ AllTaken'
  <2>1. InMap' BY <1>4, <1>0, HasSession DEF DialFails, TypeOK, InMap, Entering, Opening
  <2>2. AllTaken' BY <1>4, <1>0, HasSession DEF DialFails, TypeOK, AllTaken, Returning
  <2>3. QED BY <2>1, <2>2
<1>5. ASSUME NEW c \in Calls, Dial(c) PROVE InMap' /\ AllTaken'
  <2>1. InMap' BY <1>5, <1>0, HasSession DEF Dial, TypeOK, InMap, Entering, Opening
  <2>2. /\ sess' = [sess EXCEPT ![c] = counter + 1] /\ counter' = counter + 1 /\ stream[c] = "none"
        /\ UNCHANGED <<stream, closing, idle, doomed, ending>>
    BY <1>5 DEF Dial, CallsFit, CallFits
  <2>3. \A s \in 1 .. counter' : s \in idle \/ Returning(s)' => s \in 1 .. counter /\ (s \in idle \/ Returning(s))
    <3>1. \A d \in Calls : stream'[d] = "insert" => sess'[d] = sess[d] /\ sess[d] \in 1 .. counter
      BY <2>2, HasSession DEF TypeOK
    <3>2. QED BY <2>2, <3>1 DEF Returning, TypeOK
  <2>4. AllTaken' BY <2>2, <2>3 DEF AllTaken
  <2>5. QED BY <2>1, <2>4
<1>6. ASSUME NEW c \in Calls, Register(c) PROVE InMap' /\ AllTaken'
  <2>1. InMap' BY <1>6, <1>0, HasSession DEF Register, TypeOK, InMap, Entering, Opening
  <2>2. AllTaken' BY <1>6, <1>0, HasSession DEF Register, TypeOK, AllTaken, Returning
  <2>3. QED BY <2>1, <2>2
<1>7. ASSUME NEW c \in Calls, CheckOpen(c) PROVE InMap' /\ AllTaken'
  <2>1. InMap' BY <1>7, <1>0, HasSession DEF CheckOpen, TypeOK, InMap, Entering, Opening
  <2>2. AllTaken' BY <1>7, <1>0, HasSession DEF CheckOpen, TypeOK, AllTaken, Returning
  <2>3. QED BY <2>1, <2>2
<1>8. ASSUME NEW c \in Calls, WriteSYN(c) PROVE InMap' /\ AllTaken'
  <2>1. InMap' BY <1>8, <1>0, HasSession DEF WriteSYN, TypeOK, InMap, Entering, Opening
  <2>2. AllTaken' BY <1>8, <1>0, HasSession DEF WriteSYN, TypeOK, AllTaken, Returning
  <2>3. QED BY <2>1, <2>2
<1>9. ASSUME NEW c \in Calls, WriteSYNFails(c) PROVE InMap' /\ AllTaken'
  <2>1. InMap' BY <1>9, <1>0, HasSession DEF WriteSYNFails, TypeOK, InMap, Entering, Opening
  <2>2. AllTaken' BY <1>9, <1>0, HasSession DEF WriteSYNFails, TypeOK, AllTaken, Returning
  <2>3. QED BY <2>1, <2>2
<1>10. ASSUME NEW c \in Calls, AddStream(c) PROVE InMap' /\ AllTaken'
  <2>1. InMap' BY <1>10, <1>0, HasSession DEF AddStream, Refused, TypeOK, InMap, Entering, Opening
  <2>2. AllTaken' BY <1>10, <1>0, HasSession DEF AddStream, Refused, TypeOK, AllTaken, Returning
  <2>3. QED BY <2>1, <2>2
<1>11. ASSUME NEW c \in Calls, Abort(c) PROVE InMap' /\ AllTaken'
  <2>1. InMap' BY <1>11, <1>0, HasSession DEF Abort, TypeOK, InMap, Entering, Opening
  <2>2. AllTaken' BY <1>11, <1>0, HasSession DEF Abort, TypeOK, AllTaken, Returning
  <2>3. QED BY <2>1, <2>2
<1>12. ASSUME NEW c \in Calls, SetDieHook(c) PROVE InMap' /\ AllTaken'
  <2>1. InMap' BY <1>12, <1>0, HasSession DEF SetDieHook, TypeOK, InMap, Entering, Opening
  <2>2. AllTaken' BY <1>12, <1>0, HasSession DEF SetDieHook, TypeOK, AllTaken, Returning
  <2>3. QED BY <2>1, <2>2
<1>13. ASSUME NEW c \in Calls, WriteAddress(c) PROVE InMap' /\ AllTaken'
  <2>1. InMap' BY <1>13, <1>0, HasSession DEF WriteAddress, TypeOK, InMap, Entering, Opening
  <2>2. AllTaken' BY <1>13, <1>0, HasSession DEF WriteAddress, TypeOK, AllTaken, Returning
  <2>3. QED BY <2>1, <2>2
<1>14. ASSUME NEW c \in Calls, CloseStream(c) PROVE InMap' /\ AllTaken'
  <2>1. InMap' BY <1>14, <1>0, HasSession DEF CloseStream, TypeOK, InMap, Entering, Opening
  <2>2. AllTaken' BY <1>14, <1>0, HasSession DEF CloseStream, TypeOK, AllTaken, Returning
  <2>3. QED BY <2>1, <2>2
<1>15. ASSUME NEW c \in Calls, WriteFIN(c) PROVE InMap' /\ AllTaken'
  <2>1. InMap' BY <1>15, <1>0, HasSession DEF WriteFIN, TypeOK, InMap, Entering, Opening
  <2>2. AllTaken' BY <1>15, <1>0, HasSession DEF WriteFIN, TypeOK, AllTaken, Returning
  <2>3. QED BY <2>1, <2>2
<1>16. ASSUME NEW c \in Calls, WriteFINFails(c) PROVE InMap' /\ AllTaken'
  <2>1. InMap' BY <1>16, <1>0, HasSession DEF WriteFINFails, TypeOK, InMap, Entering, Opening
  <2>2. AllTaken' BY <1>16, <1>0, HasSession DEF WriteFINFails, TypeOK, AllTaken, Returning
  <2>3. QED BY <2>1, <2>2
<1>17. ASSUME NEW c \in Calls, Forget(c) PROVE InMap' /\ AllTaken'
  <2>1. InMap' BY <1>17, <1>0, HasSession DEF Forget, TypeOK, InMap, Entering, Opening
  <2>2. AllTaken' BY <1>17, <1>0, HasSession DEF Forget, TypeOK, AllTaken, Returning
  <2>3. QED BY <2>1, <2>2
<1>18. ASSUME NEW c \in Calls, ReceiveFIN(c) PROVE InMap' /\ AllTaken'
  <2>1. InMap' BY <1>18, <1>0, HasSession DEF ReceiveFIN, NextAfterFIN, Known, TypeOK, InMap, Entering, Opening
  <2>2. AllTaken' BY <1>18, <1>0, HasSession DEF ReceiveFIN, NextAfterFIN, Known, TypeOK, AllTaken, Returning
  <2>3. QED BY <2>1, <2>2
<1>19. ASSUME NEW c \in Calls, ReceiveError(c) PROVE InMap' /\ AllTaken'
  <2>1. InMap' BY <1>19, <1>0, HasSession DEF ReceiveError, Known, TypeOK, InMap, Entering, Opening
  <2>2. AllTaken' BY <1>19, <1>0, HasSession DEF ReceiveError, Known, TypeOK, AllTaken, Returning
  <2>3. QED BY <2>1, <2>2
<1>20. ASSUME NEW c \in Calls, RunHook(c) PROVE InMap' /\ AllTaken'
  <2>1. InMap' BY <1>20, <1>0, HasSession DEF RunHook, TypeOK, InMap, Entering, Opening
  <2>2. AllTaken' BY <1>20, <1>0, HasSession DEF RunHook, TypeOK, AllTaken, Returning
  <2>3. QED BY <2>1, <2>2
<1>21. ASSUME NEW c \in Calls, AskClient(c) PROVE InMap' /\ AllTaken'
  <2>1. InMap' BY <1>21, <1>0, HasSession DEF AskClient, ClientClosed, TypeOK, InMap, Entering, Opening
  <2>2. AllTaken' BY <1>21, <1>0, HasSession DEF AskClient, ClientClosed, TypeOK, AllTaken, Returning
  <2>3. QED BY <2>1, <2>2
<1>22. ASSUME NEW c \in Calls, ReturnSession(c) PROVE InMap' /\ AllTaken'
  <2>1. InMap' BY <1>22, <1>0, HasSession DEF ReturnSession, TypeOK, InMap, Entering, Opening
  <2>2. AllTaken' BY <1>22, <1>0, HasSession DEF ReturnSession, TypeOK, AllTaken, Returning
  <2>3. QED BY <2>1, <2>2
<1>23. ASSUME NEW s \in Sessions, SessionFails(s) PROVE InMap' /\ AllTaken'
  <2>1. InMap' BY <1>23, <1>0, HasSession DEF SessionFails, TypeOK, InMap, Entering, Opening
  <2>2. AllTaken' BY <1>23, <1>0, HasSession DEF SessionFails, TypeOK, AllTaken, Returning
  <2>3. QED BY <2>1, <2>2
<1>24. ASSUME NEW s \in Sessions, LeavePool(s) PROVE InMap' /\ AllTaken'
  <2>1. InMap' BY <1>24, <1>0, HasSession DEF LeavePool, TypeOK, InMap, Entering, Opening
  <2>2. AllTaken' BY <1>24, <1>0, HasSession DEF LeavePool, TypeOK, AllTaken, Returning
  <2>3. QED BY <2>1, <2>2
<1>25. ASSUME NEW s \in Sessions, LeaveMap(s) PROVE InMap' /\ AllTaken'
  <2>1. InMap' BY <1>25, <1>0, HasSession DEF LeaveMap, TypeOK, InMap, Entering, Opening
  <2>2. AllTaken' BY <1>25, <1>0, HasSession DEF LeaveMap, TypeOK, AllTaken, Returning
  <2>3. QED BY <2>1, <2>2
<1>26. ASSUME NEW s \in Sessions, EndStreams(s) PROVE InMap' /\ AllTaken'
  <2>1. InMap' BY <1>26, <1>0, HasSession DEF EndStreams, TypeOK, InMap, Entering, Opening
  <2>2. AllTaken' BY <1>26, <1>0, HasSession DEF EndStreams, TypeOK, AllTaken, Returning
  <2>3. QED BY <2>1, <2>2
<1>27. ASSUME NEW s \in Sessions, Age(s) PROVE InMap' /\ AllTaken'
  <2>1. InMap' BY <1>27, <1>0, HasSession DEF Age, TypeOK, InMap, Entering, Opening
  <2>2. AllTaken' BY <1>27, <1>0, HasSession DEF Age, TypeOK, AllTaken, Returning
  <2>3. QED BY <2>1, <2>2
<1>28. ASSUME NEW s \in Sessions, CloseDoomed(s) PROVE InMap' /\ AllTaken'
  <2>1. InMap' BY <1>28, <1>0, HasSession DEF CloseDoomed, TypeOK, InMap, Entering, Opening
  <2>2. AllTaken' BY <1>28, <1>0, HasSession DEF CloseDoomed, TypeOK, AllTaken, Returning
  <2>3. QED BY <2>1, <2>2
<1>29. ASSUME Cleanup PROVE InMap' /\ AllTaken'
  <2>1. InMap' BY <1>29, <1>0, HasSession DEF Cleanup, TypeOK, InMap, Entering, Opening
  <2>2. AllTaken' BY <1>29, <1>0, HasSession DEF Cleanup, TypeOK, AllTaken, Returning
  <2>3. QED BY <2>1, <2>2
<1>30. ASSUME ClientDies PROVE InMap' /\ AllTaken'
  <2>1. InMap' BY <1>30, <1>0, HasSession DEF ClientDies, TypeOK, InMap, Entering, Opening
  <2>2. AllTaken' BY <1>30, <1>0, HasSession DEF ClientDies, TypeOK, AllTaken, Returning
  <2>3. QED BY <2>1, <2>2
<1>31. ASSUME ClientTakesAll PROVE InMap' /\ AllTaken'
  <2>1. /\ ending = "cancelled" /\ ending' = "taken" /\ doomed' = doomed \cup sessions
        /\ UNCHANGED <<at, sess, stream, counter, closing, idle>>
    BY <1>31 DEF ClientTakesAll
  <2>2. InMap' BY <2>1 DEF InMap
  <2>3. ASSUME NEW s \in 1 .. counter, s \in idle \/ Returning(s) PROVE ~Entering(s)
    <3>1. SUFFICES ASSUME NEW c \in Calls, at[c] = "register", sess[c] = s PROVE FALSE
      BY DEF Entering
    <3>2. Using(c) /\ stream[c] = "none"
      BY <3>1 DEF Using, Opening, CallsFit, CallFits
    <3>3. s \notin idle
      BY <3>1, <3>2 DEF Exclusive, NobodysInPool
    <3>4. PICK d \in Calls : stream[d] = "insert" /\ sess[d] = s
      BY <2>3, <3>3 DEF Returning
    <3>5. Using(d) /\ d # c
      BY <3>2, <3>4 DEF Using, StreamLives
    <3>6. QED BY <3>1, <3>2, <3>4, <3>5 DEF Exclusive, Alone
  <2>4. AllTaken' BY <2>1, <2>3 DEF AllTaken, InMap, Returning
  <2>5. QED BY <2>2, <2>4
<1>32. ASSUME UNCHANGED vars PROVE InMap' /\ AllTaken'
  <2>1. InMap' BY <1>32, <1>0, HasSession DEF vars, TypeOK, InMap, Entering, Opening
  <2>2. AllTaken' BY <1>32, <1>0, HasSession DEF vars, TypeOK, AllTaken, Returning
  <2>3. QED BY <2>1, <2>2
<1>33. QED
  BY <1>1, <1>2, <1>3, <1>4, <1>5, <1>6, <1>7, <1>8, <1>9, <1>10, <1>11, <1>12, <1>13, <1>14, <1>15, <1>16, <1>17, <1>18, <1>19, <1>20, <1>21, <1>22, <1>23, <1>24, <1>25, <1>26, <1>27, <1>28, <1>29, <1>30, <1>31, <1>32
  DEF Next, CallStep, StreamStep, SessionStep

-----------------------------------------------------------------------------
(* The invariant that carries the theorems. *)
PoolInvariant == TypeOK /\ CallsFit /\ Exclusive /\ Entered /\ Accounted /\ HooksFit /\ InMap /\ AllTaken

(* It holds when nothing has been dialled, and no step of the program ends *)
(* it: all parts lean on the types, the last ones on exclusive use too.    *)
LEMMA Invariance == Spec => []PoolInvariant
<1>1. Init => PoolInvariant
  BY BoundAssumption DEF Init, PoolInvariant, TypeOK, CallsFit, CallFits, Exclusive, Alone, NobodysInPool, DoomedLeftPool,
     Using, Opening, StreamLives, Died, Sessions, NoSession, Entered, StreamsOwned, OpenEntered, ClosedEmpty,
     Accounted, HooksFit, HookFits, InMap, AllTaken
<1>2. PoolInvariant /\ [Next]_vars => PoolInvariant'
  BY TypesInductive, ExclusiveInductive, EnteredInductive, AccountedInductive, TakenInductive DEF PoolInvariant
<1>3. QED BY <1>1, <1>2, PTL DEF Spec

(* Every field of the pool keeps its type: sessions are numbered once, and *)
(* the pool, the map and the list to close hold only numbered ones.        *)
THEOREM TypeCorrect == Spec => []TypeOK
<1>1. PoolInvariant => TypeOK
  BY DEF PoolInvariant
<1>2. QED BY <1>1, Invariance, PTL

(* At most one call of CreateStream, or its stream, has a session, and one *)
(* in the pool or taken by idleCleanup is nobody's, whatever the streams,  *)
(* the connections and Client.Close do in between.                         *)
THEOREM ExclusiveCorrect == Spec => []SessionsExclusive
<1>1. ASSUME TypeOK, Exclusive PROVE SessionsExclusive
  <2> SUFFICES ASSUME NEW s \in 1 .. counter
               PROVE  /\ Cardinality(Holders(s)) <= 1
                      /\ s \in idle => Holders(s) = {}
                      /\ s \in doomed /\ ~Died => Holders(s) = {}
    BY DEF SessionsExclusive
  <2>1. \A c, d \in Holders(s) : c = d
    BY <1>1 DEF Holders, Holds, Exclusive, Alone
  <2>2. CASE Holders(s) = {}
    BY <2>2, FS_EmptySet
  <2>3. CASE Holders(s) # {}
    <3>1. PICK c \in Calls : c \in Holders(s)
      BY <2>3 DEF Holders
    <3>2. Holders(s) = {c}
      BY <3>1, <2>1
    <3>3. Cardinality(Holders(s)) = 1
      BY <3>2, FS_Singleton
    <3>4. s \notin idle /\ (Died \/ s \notin doomed)
      BY <3>1, <1>1 DEF Holders, Holds, Exclusive, NobodysInPool
    <3>5. QED BY <3>3, <3>4
  <2>4. QED BY <2>2, <2>3
<1>2. PoolInvariant => SessionsExclusive
  BY <1>1 DEF PoolInvariant
<1>3. QED BY <1>2, Invariance, PTL

(* A session whose Close has run to its end knows no stream, and no stream *)
(* on it is still open, though OpenStream may run beside Close.            *)
THEOREM ClosedSessionsCorrect == Spec => []ClosedSessionHasNoStreams
<1>1. PoolInvariant => ClosedSessionHasNoStreams
  BY DEF PoolInvariant, Entered, OpenEntered, ClosedEmpty, ClosedSessionHasNoStreams
<1>2. QED BY <1>1, Invariance, PTL

(* CreateStream, the dieHook, idleCleanup and Close between them lose no   *)
(* open session but one whose stream was over before its dieHook was set.  *)
THEOREM AccountedCorrect == Spec => []SessionsAccountedFor
<1>1. PoolInvariant => SessionsAccountedFor
  BY DEF PoolInvariant, Accounted, Kept, SessionsAccountedFor, Holders
<1>2. QED BY <1>1, Invariance, PTL

(* When Client.Close is through and nothing is under way, every session is *)
(* closed, or has an open stream, or was given up before: a dial, a return *)
(* to the pool or a clean-up beside Client.Close leaves none behind.       *)
THEOREM LetsGoCorrect == Spec => []ClosedClientLetsGo
<1>1. ASSUME PoolInvariant, Died, AtRest, NEW s \in 1 .. counter
      PROVE  IsClosed(s) \/ Holders(s) # {} \/ s \in hurried
  <2>1. ending = "taken" /\ doomed = {}
    BY <1>1 DEF PoolInvariant, TypeOK, Died, AtRest
  <2>2. CASE s \in idle
    BY <2>1, <2>2, <1>1 DEF PoolInvariant, AllTaken
  <2>3. CASE s \notin idle
    BY <2>1, <2>3, <1>1 DEF PoolInvariant, Accounted, Kept, Holders
  <2>4. QED BY <2>2, <2>3
<1>2. PoolInvariant => ClosedClientLetsGo
  BY <1>1 DEF ClosedClientLetsGo
<1>3. QED BY <1>2, Invariance, PTL

-----------------------------------------------------------------------------
(* Some session of a non-empty set was dialled last. *)
LEMMA NewestExists ==
    ASSUME NEW S, S \subseteq Sessions, S # {}
    PROVE  \E s \in S : \A t \in S : t <= s
<1> DEFINE age == {MaxSessions - s : s \in S}
<1> USE BoundAssumption DEF Sessions
<1>1. PICK s \in S : TRUE
  OBVIOUS
<1>2. age \subseteq Nat /\ age # {}
  BY <1>1
<1>3. IsWellFoundedOn(OpToRel(<, Nat), Nat)
  BY NatLessThanWellFounded
<1>4. PICK x \in age : \A y \in age : <<y, x>> \notin OpToRel(<, Nat)
  BY <1>2, <1>3, WFMin
<1>5. \A y \in age : ~(y < x)
  BY <1>2, <1>4 DEF OpToRel
<1>6. PICK n \in S : x = MaxSessions - n
  OBVIOUS
<1>7. ASSUME NEW t \in S PROVE t <= n
  <2>1. MaxSessions - t \in age
    OBVIOUS
  <2>2. ~(MaxSessions - t < MaxSessions - n)
    BY <2>1, <1>5, <1>6
  <2>3. QED BY <2>2
<1>8. QED BY <1>7

(* What idleCleanup leaves in the pool: above the newest session it takes  *)
(* there are minIdleSession others, and it takes none of those.            *)
LEMMA CleanupLeaves ==
    ASSUME TypeOK, Cleanup, (doomed' \ doomed) # {}
    PROVE  Cardinality(idle') >= MinIdle
<1> DEFINE expired == {s \in aged : Surplus(s)}
<1>1. idle' = idle \ expired /\ doomed' = doomed \cup expired
  BY DEF Cleanup
<1>2. expired # {} /\ expired \subseteq idle
  BY <1>1 DEF TypeOK
<1>3. idle \subseteq Sessions
  BY BoundAssumption DEF TypeOK, Sessions
<1>4. PICK s \in expired : \A t \in expired : t <= s
  BY <1>2, <1>3, NewestExists
<1> HIDE DEF expired
<1> DEFINE above == {t \in idle : t > s}
<1>5. s \in Nat /\ \A t \in idle : t \in Nat
  BY <1>2, <1>3, <1>4, BoundAssumption DEF Sessions
<1>6. above \subseteq idle'
  BY <1>1, <1>4, <1>5
<1>7. IsFiniteSet(idle')
  <2>1. IsFiniteSet(Sessions)
    BY FS_Interval, BoundAssumption DEF Sessions
  <2>2. idle' \subseteq Sessions
    BY <1>1, <1>3
  <2>3. QED BY <2>1, <2>2, FS_Subset
<1>8. Cardinality(above) <= Cardinality(idle') /\ IsFiniteSet(above)
  BY <1>6, <1>7, FS_Subset
<1>9. Cardinality(above) >= MinIdle
  BY <1>4 DEF Surplus, expired
<1>10. Cardinality(above) \in Nat /\ Cardinality(idle') \in Nat
  BY <1>7, <1>8, FS_CardinalityType
<1> HIDE DEF above
<1>11. QED BY <1>8, <1>9, <1>10, BoundAssumption

(* Only idleCleanup takes sessions out of the pool to close them while the *)
(* client lives.                                                           *)
LEMMA OnlyCleanupTakes ==
    ASSUME TypeOK, [Next]_vars, ~Died, (doomed' \ doomed) # {}
    PROVE  Cleanup
BY DEF TypeOK, Died, Next, CallStep, StreamStep, SessionStep, vars, client,
   CreateStream, GetIdleSession, NoIdleSession, DialFails, Dial, Register, CheckOpen, WriteSYN, WriteSYNFails,
   AddStream, Abort, SetDieHook, WriteAddress, CloseStream, WriteFIN, WriteFINFails, Forget, ReceiveFIN,
   ReceiveError, RunHook, AskClient, ReturnSession, SessionFails, LeavePool, LeaveMap, EndStreams, Age,
   CloseDoomed, ClientDies, ClientTakesAll

(* idleCleanup leaves at least minIdleSession sessions in the pool when it *)
(* takes one: the count it keeps while it walks the list, newest first.    *)
THEOREM CleanupCorrect == Spec => CleanupKeepsMinimum
<1>1. TypeOK /\ [Next]_vars => [(doomed' \ doomed) \cap idle # {} /\ ~Died => Cardinality(idle') >= MinIdle]_vars
  <2> SUFFICES ASSUME TypeOK, [Next]_vars, (doomed' \ doomed) \cap idle # {}, ~Died
               PROVE  Cardinality(idle') >= MinIdle
    OBVIOUS
  <2>1. (doomed' \ doomed) # {}
    OBVIOUS
  <2>2. Cleanup
    BY <2>1, OnlyCleanupTakes
  <2>3. QED BY <2>1, <2>2, CleanupLeaves
<1>2. QED BY <1>1, TypeCorrect, PTL DEF Spec, CleanupKeepsMinimum
=============================================================================
