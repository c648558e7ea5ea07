----------------------------- MODULE AnyTLSPool -----------------------------
(***************************************************************************)
(* The session pool of the AnyTLS outbound: transport/anytls/session,      *)
(* client.go with what it needs of session.go and stream.go.               *)
(*                                                                         *)
(* A stream is named after the call of CreateStream that opens it.  What   *)
(* runs under one lock, or is one channel operation, is one step.  A       *)
(* session closes in a goroutine of its own, whoever asked for it: sync    *)
(* Once lets one through, and no caller relies on the others having waited.*)
(***************************************************************************)
EXTENDS Naturals, FiniteSets

CONSTANTS
    Calls,           \* calls of CreateStream
    MaxSessions,     \* bound: sessions dialled
    MinIdle          \* minIdleSession

ASSUME BoundAssumption == MaxSessions \in Nat \ {0} /\ MinIdle \in Nat

(* Sessions are numbered by seq; the pool is ordered by it, newest first.  *)
Sessions == 1 .. MaxSessions
NoSession == 0

VARIABLES
    reuse,      \* ~disableReuse
    at,         \* per call: what CreateStream does next
    sess,       \* per call: the session it has
    stream,     \* per call: its stream, and who is closing it how far
    hooked,     \* calls whose stream.dieHook is set
    counter,    \* sessionCounter
    wired,      \* sessions that no longer buffer: what they write goes out
    streams,    \* per session: s.streams
    closing,    \* per session: how far Close has come, "no" if s.die is open
    idle, aged, \* idleSession, and its members whose time is up
    sessions,   \* c.sessions
    ending,     \* how far Client.Close has come: "no", "cancelled", "taken"
    doomed,     \* sessions that Client.Close or idleCleanup took to close
    hurried     \* sessions whose stream was over before CreateStream had set its dieHook

call == <<at, sess, stream, hooked>>
session == <<counter, wired, streams, closing>>
pool == <<idle, aged>>
client == <<sessions, ending, doomed>>
vars == <<reuse, call, session, pool, client, hurried>>

(* Every field has its type, and only what is in the pool grows old there. *)
TypeOK ==
    /\ reuse \in BOOLEAN
    /\ at \in [Calls -> {"start", "pick", "dial", "register", "check", "syn", "add", "hook", "returned", "abort", "done"}]
    /\ sess \in [Calls -> Sessions \cup {NoSession}]
    /\ stream \in [Calls -> {"none", "open", "fin", "forget", "hook", "return", "insert", "over"}]
    /\ hooked \subseteq Calls
    /\ counter \in 0 .. MaxSessions /\ wired \subseteq Sessions
    /\ streams \in [Sessions -> SUBSET Calls]
    /\ closing \in [Sessions -> {"no", "pool", "map", "streams", "conn", "closed"}]
    /\ aged \subseteq idle /\ idle \subseteq 1 .. counter
    /\ sessions \subseteq 1 .. counter /\ ending \in {"no", "cancelled", "taken"}
    /\ doomed \subseteq 1 .. counter /\ hurried \subseteq 1 .. counter

Init ==
    /\ reuse \in BOOLEAN
    /\ at = [c \in Calls |-> "start"] /\ sess = [c \in Calls |-> NoSession]
    /\ stream = [c \in Calls |-> "none"] /\ hooked = {}
    /\ counter = 0 /\ wired = {}
    /\ streams = [s \in Sessions |-> {}] /\ closing = [s \in Sessions |-> "no"]
    /\ idle = {} /\ aged = {}
    /\ sessions = {} /\ ending = "no" /\ doomed = {} /\ hurried = {}

-----------------------------------------------------------------------------
IsClosed(s) == closing[s] # "no"

(* c.die is closed. *)
Died == ending # "no"

(* Session.Close: dieOnce lets the first one close s.die. *)
Close(s) == IF IsClosed(s) THEN UNCHANGED closing ELSE closing' = [closing EXCEPT ![s] = "pool"]

Goto(c, from, to) == at[c] = from /\ at' = [at EXCEPT ![c] = to]

CreateStream(c) ==
    /\ Goto(c, "start", IF Died THEN "done" ELSE IF reuse THEN "pick" ELSE "dial")
    /\ UNCHANGED <<reuse, sess, stream, hooked, session, pool, client, hurried>>

(* Slip: the session stays in the list while it is used. *)
KeepInPool(s) == UNCHANGED pool

(* getIdleSession: the newest one, taken out of the list. *)
TakeFromPool(s) == idle' = idle \ {s} /\ aged' = aged \ {s}

GetIdleSession(c) ==
    /\ Goto(c, "pick", "check")
    /\ \E s \in idle :
        /\ \A t \in idle : t <= s
        /\ sess' = [sess EXCEPT ![c] = s]
        /\ TakeFromPool(s)
    /\ UNCHANGED <<reuse, stream, hooked, session, client, hurried>>

NoIdleSession(c) ==
    /\ idle = {} /\ Goto(c, "pick", "dial")
    /\ UNCHANGED <<reuse, sess, stream, hooked, session, pool, client, hurried>>

(* createSession: dial, enter the session in c.sessions, and run it. *)
DialFails(c) ==
    /\ Goto(c, "dial", "done")
    /\ UNCHANGED <<reuse, sess, stream, hooked, session, pool, client, hurried>>

Dial(c) ==
    /\ Goto(c, "dial", "register") /\ counter < MaxSessions
    /\ counter' = counter + 1
    /\ sess' = [sess EXCEPT ![c] = counter + 1]
    /\ UNCHANGED <<reuse, stream, hooked, wired, streams, closing, pool, client, hurried>>

Register(c) ==
    /\ Goto(c, "register", "check")
    /\ sessions' = sessions \cup {sess[c]}
    /\ UNCHANGED <<reuse, sess, stream, hooked, session, pool, ending, doomed, hurried>>

(* OpenStream: give up on a closed session, write SYN (which a new session *)
(* buffers until its first stream writes), and enter the stream unless the *)
(* session has been closed by then.                                        *)
CheckOpen(c) ==
    /\ Goto(c, "check", IF IsClosed(sess[c]) THEN "abort" ELSE "syn")
    /\ UNCHANGED <<reuse, sess, stream, hooked, session, pool, client, hurried>>

WriteSYN(c) ==
    /\ Goto(c, "syn", "add")
    /\ UNCHANGED <<reuse, sess, stream, hooked, session, pool, client, hurried>>

WriteSYNFails(c) ==
    /\ Goto(c, "syn", "abort")
    /\ sess[c] \in wired \/ IsClosed(sess[c])
    /\ Close(sess[c])
    /\ UNCHANGED <<reuse, sess, stream, hooked, counter, wired, streams, pool, client, hurried>>

(* Slip: the first check is thought to be enough. *)
NeverRefused(c) == FALSE

Refused(c) == IsClosed(sess[c])

AddStream(c) ==
    /\ Goto(c, "add", IF Refused(c) THEN "abort" ELSE "hook")
    /\ IF Refused(c)
         THEN UNCHANGED <<streams, stream>>
         ELSE /\ streams' = [streams EXCEPT ![sess[c]] = @ \cup {c}]
              /\ stream' = [stream EXCEPT ![c] = "open"]
    /\ UNCHANGED <<reuse, sess, hooked, counter, wired, closing, pool, client, hurried>>

Abort(c) ==
    /\ Goto(c, "abort", "done") /\ Close(sess[c])
    /\ UNCHANGED <<reuse, sess, stream, hooked, counter, wired, streams, pool, client, hurried>>

(* Back in CreateStream: the dieHook.  The caller writes the address next, *)
(* which flushes what a new session has buffered.                          *)
SetDieHook(c) ==
    /\ Goto(c, "hook", "returned")
    /\ hooked' = hooked \cup {c}
    /\ UNCHANGED <<reuse, sess, stream, session, pool, client, hurried>>

WriteAddress(c) ==
    /\ Goto(c, "returned", "done")
    /\ wired' = wired \cup {sess[c]}
    /\ UNCHANGED <<reuse, sess, stream, hooked, counter, streams, closing, pool, client, hurried>>

-----------------------------------------------------------------------------
StreamGoto(c, from, to) == stream[c] = from /\ stream' = [stream EXCEPT ![c] = to]

(* Later its user closes the stream: dieOnce, and streamClosed, which writes   *)
(* FIN and forgets the stream unless the session is closed.                *)
CloseStream(c) ==
    /\ at[c] = "done" /\ StreamGoto(c, "open", "fin")
    /\ UNCHANGED <<reuse, at, sess, hooked, session, pool, client, hurried>>

WriteFIN(c) ==
    /\ StreamGoto(c, "fin", IF IsClosed(sess[c]) THEN "hook" ELSE "forget")
    /\ UNCHANGED <<reuse, at, sess, hooked, session, pool, client, hurried>>

WriteFINFails(c) ==
    /\ StreamGoto(c, "fin", "forget") /\ Close(sess[c])
    /\ UNCHANGED <<reuse, at, sess, hooked, counter, wired, streams, pool, client, hurried>>

Forget(c) ==
    /\ StreamGoto(c, "forget", "hook")
    /\ streams' = [streams EXCEPT ![sess[c]] = @ \ {c}]
    /\ UNCHANGED <<reuse, at, sess, hooked, counter, wired, closing, pool, client, hurried>>

(* recvLoop: FIN from the server, which knows the stream once SYN is out;  *)
(* a stream that is not entered ignores it.  A SYNACK with an error closes *)
(* the stream the way its caller would.  The loop asks IsClosed before it  *)
(* blocks in its read, so a frame may still reach a stream that Close has  *)
(* not come to.                                                            *)
Known(c) == sess[c] \in wired /\ c \in streams[sess[c]]

(* Slip: only the caller's Close returns the session. *)
OverByFIN == "over"

NextAfterFIN == "hook"

ReceiveFIN(c) ==
    /\ Known(c)
    /\ streams' = [streams EXCEPT ![sess[c]] = @ \ {c}]
    /\ stream' = [stream EXCEPT ![c] = IF @ = "open" THEN NextAfterFIN ELSE @]
    /\ UNCHANGED <<reuse, at, sess, hooked, counter, wired, closing, pool, client, hurried>>

ReceiveError(c) ==
    /\ Known(c) /\ StreamGoto(c, "open", "fin")
    /\ UNCHANGED <<reuse, at, sess, hooked, session, pool, client, hurried>>

(* dieHook of the stream, if CreateStream has come to set it: the session  *)
(* goes back to the pool unless it or the client is closed.                *)
RunHook(c) ==
    /\ stream[c] = "hook"
    /\ stream' = [stream EXCEPT ![c] =
            IF c \in hooked /\ ~IsClosed(sess[c]) /\ reuse THEN "return" ELSE "over"]
    /\ IF c \in hooked /\ ~reuse THEN Close(sess[c]) ELSE UNCHANGED closing
    /\ hurried' = IF c \in hooked THEN hurried ELSE hurried \cup {sess[c]}
    /\ UNCHANGED <<reuse, at, sess, hooked, counter, wired, streams, pool, client>>

(* Slip: the client is not asked. *)
AssumeClientAlive == FALSE

ClientClosed == Died

AskClient(c) ==
    /\ StreamGoto(c, "return", IF ClientClosed THEN "over" ELSE "insert")
    /\ IF ClientClosed THEN Close(sess[c]) ELSE UNCHANGED closing
    /\ UNCHANGED <<reuse, at, sess, hooked, counter, wired, streams, pool, client, hurried>>

ReturnSession(c) ==
    /\ StreamGoto(c, "insert", "over")
    /\ idle' = idle \cup {sess[c]} /\ aged' = aged \ {sess[c]}
    /\ UNCHANGED <<reuse, at, sess, hooked, session, client, hurried>>

-----------------------------------------------------------------------------
(* recvLoop ends on any error of the connection, and the watcher of a SYN  *)
(* closes a session whose server does not answer.                          *)
SessionFails(s) ==
    /\ s <= counter /\ ~IsClosed(s) /\ Close(s)
    /\ \A c \in Calls : sess[c] = s => at[c] # "register"
    /\ UNCHANGED <<reuse, call, counter, wired, streams, pool, client, hurried>>

CloseGoto(s, from, to) == closing[s] = from /\ closing' = [closing EXCEPT ![s] = to]

(* Session.Close: out of the pool, out of the map, and its streams end.    *)
LeavePool(s) ==
    /\ CloseGoto(s, "pool", "map") /\ TakeFromPool(s)
    /\ UNCHANGED <<reuse, call, counter, wired, streams, client, hurried>>

LeaveMap(s) ==
    /\ CloseGoto(s, "map", "streams") /\ sessions' = sessions \ {s}
    /\ UNCHANGED <<reuse, call, counter, wired, streams, pool, ending, doomed, hurried>>

EndStreams(s) ==
    /\ CloseGoto(s, "streams", "closed")
    /\ streams' = [streams EXCEPT ![s] = {}]
    /\ stream' = [c \in Calls |-> IF c \in streams[s] /\ stream[c] = "open" THEN "over" ELSE stream[c]]
    /\ UNCHANGED <<reuse, at, sess, hooked, counter, wired, pool, client, hurried>>

-----------------------------------------------------------------------------
Age(s) ==
    /\ s \in idle \ aged /\ aged' = aged \cup {s}
    /\ UNCHANGED <<reuse, call, session, idle, client, hurried>>

(* Slip: the session itself is counted among those that stay.              *)
SurplusOrLast(s) == Cardinality({t \in idle : t >= s}) >= MinIdle

(* idleCleanup, newest first: what has aged beyond the first minIdleSession*)
(* is taken out of the pool and closed after the lock, the rest is renewed.*)
Surplus(s) == Cardinality({t \in idle : t > s}) >= MinIdle

Cleanup ==
    /\ reuse /\ ~Died /\ aged # {}
    /\ LET expired == {s \in aged : Surplus(s)}
       IN  idle' = idle \ expired /\ doomed' = doomed \cup expired
    /\ aged' = {}
    /\ UNCHANGED <<reuse, call, session, sessions, ending, hurried>>

(* Client.Close: cancel, take all sessions of the map, close them.         *)
ClientDies ==
    /\ ending = "no" /\ ending' = "cancelled"
    /\ UNCHANGED <<reuse, call, session, pool, sessions, doomed, hurried>>

ClientTakesAll ==
    /\ ending = "cancelled" /\ ending' = "taken"
    /\ doomed' = doomed \cup sessions /\ sessions' = {}
    /\ UNCHANGED <<reuse, call, session, pool, hurried>>

CloseDoomed(s) ==
    /\ s \in doomed /\ doomed' = doomed \ {s}
    /\ Close(s)
    /\ UNCHANGED <<reuse, call, counter, wired, streams, pool, sessions, ending, hurried>>

CallStep(c) ==
    \/ CreateStream(c)
    \/ GetIdleSession(c)
    \/ NoIdleSession(c)
    \/ DialFails(c)
    \/ Dial(c)
    \/ Register(c)
    \/ CheckOpen(c)
    \/ WriteSYN(c)
    \/ WriteSYNFails(c)
    \/ AddStream(c)
    \/ Abort(c)
    \/ SetDieHook(c)
    \/ WriteAddress(c)

StreamStep(c) ==
    \/ CloseStream(c)
    \/ WriteFIN(c)
    \/ WriteFINFails(c)
    \/ Forget(c)
    \/ ReceiveFIN(c)
    \/ ReceiveError(c)
    \/ RunHook(c)
    \/ AskClient(c)
    \/ ReturnSession(c)

SessionStep(s) == SessionFails(s) \/ LeavePool(s) \/ LeaveMap(s) \/ EndStreams(s)

Next ==
    \/ \E c \in Calls : CallStep(c) \/ StreamStep(c)
    \/ \E s \in Sessions : SessionStep(s) \/ Age(s) \/ CloseDoomed(s)
    \/ Cleanup
    \/ ClientDies
    \/ ClientTakesAll

Spec == Init /\ [][Next]_vars

-----------------------------------------------------------------------------
Opening == {"register", "check", "syn", "add", "hook", "abort"}
StreamLives == {"open", "fin", "forget", "hook", "return", "insert"}

(* Call c has its session: it is opening a stream on it, or its stream is  *)
(* not over.                                                               *)
Using(c) == at[c] \in Opening \/ stream[c] \in StreamLives

Holds(c, s) == sess[c] = s /\ Using(c)

Holders(s) == {c \in Calls : Holds(c, s)}

(* One stream at a time: a session in the pool or about to be closed by    *)
(* the clean-up is nobody's, and nobody shares one.                        *)
SessionsExclusive ==
    \A s \in 1 .. counter :
        /\ Cardinality(Holders(s)) <= 1
        /\ s \in idle => Holders(s) = {}
        /\ s \in doomed /\ ~Died => Holders(s) = {}

(* No session is lost: one that is open is in the pool, somebody's, or     *)
(* about to be closed, unless its stream was over before CreateStream had  *)
(* set the dieHook that returns it.                                        *)
SessionsAccountedFor ==
    \A s \in 1 .. counter :
        ~IsClosed(s) /\ s \notin hurried => s \in idle \/ Holders(s) # {} \/ s \in doomed

AtRest ==
    /\ \A c \in Calls : at[c] \in {"start", "done"} /\ stream[c] \in {"none", "open", "over"}
    /\ \A s \in Sessions : closing[s] \in {"no", "closed"}
    /\ doomed = {} /\ ending # "cancelled"

(* The streams of a closed session have all been told: OpenStream enters   *)
(* no stream that Close, on its way through the map, would miss.           *)
ClosedSessionHasNoStreams ==
    \A s \in Sessions : closing[s] = "closed" =>
        streams[s] = {} /\ \A c \in Calls : sess[c] = s => stream[c] # "open"

(* A closed client keeps no connection open, but one whose stream still is *)
(* and one whose stream was over before it had its dieHook: the sessions   *)
(* it takes from the map, those on their way back to the pool and those    *)
(* dialled meanwhile.  Close comes at any time here; in the program it is  *)
(* called by the finalizer of an adapter that nobody can reach, when only  *)
(* streams that are already open are left.                                 *)
ClosedClientLetsGo ==
    Died /\ AtRest =>
        \A s \in 1 .. counter : IsClosed(s) \/ Holders(s) # {} \/ s \in hurried

(* idleCleanup leaves minIdleSession sessions in the pool if it had them.  *)
CleanupKeepsMinimum ==
    [][(doomed' \ doomed) \cap idle # {} /\ ~Died => Cardinality(idle') >= MinIdle]_vars
=============================================================================
