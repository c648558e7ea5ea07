---------------------------- MODULE UrlTestGroup ----------------------------
(***************************************************************************)
(* A url-test group at work: adapter/outboundgroup/urltest.go with the     *)
(* failure count of groupbase.go, the health check of                      *)
(* adapter/provider/healthcheck.go, the state a proxy keeps of its tests   *)
(* (adapter/adapter.go), and the single flights of common/singledo.        *)
(*                                                                         *)
(* Connections ask for a node and dial through it, the API asks and sets;  *)
(* the choice is made by one of them at a time and is good for a while.    *)
(* Dials that fail are counted and start a health check, whose results the *)
(* next choice looks at.  A provider update replaces every proxy by a new  *)
(* object, so a node is a name and the generation of its list; the group   *)
(* may go on with the old object.                                          *)
(*                                                                         *)
(* A proxy keeps a flag and a history for the URL its provider tests and   *)
(* others for every other URL.  fast asks the first for a selected node    *)
(* and those of the group's own URL for all else: the module has one of    *)
(* each, as a group whose URL is its provider's, with one URL tested.      *)
(***************************************************************************)
EXTENDS Integers, Sequences, SequencesExt, FiniteSetsExt

CONSTANTS
    Names,         \* of proxies
    Lists,         \* the lists of names a provider may have
    Delays,        \* per name: what a successful test may measure, 0 below a millisecond
    Top,           \* the greatest delay, 0xffff
    Tolerance,
    MaxFailed,     \* maxFailedTimes
    MaxEvents,     \* bound: updates, changes of server, events, calls of the API, late failures
    MaxUpdates,    \* bound: provider updates among them
    MaxPending     \* bound: failures on their way to the counter

ASSUME DelayAssumption ==
    /\ Top \in Nat /\ Delays \in [Names -> SUBSET (0 .. (Top - 1))] /\ Tolerance \in 0 .. Top
    /\ MaxFailed \in Nat /\ MaxFailed > 1

ASSUME ListAssumption == Lists \subseteq Seq(Names) /\ << >> \notin Lists

Nodes == Names \X (0 .. MaxUpdates)
None == <<"none", 0>>
NoName == "none"
NameOf(o) == o[1]
NodesOf(l, gen) == [i \in DOMAIN l |-> <<l[i], gen>>]

Callers == {"conn", "api"}        \* a connection, a call of the API
Checkers == {"count", "refused"}  \* who runs healthCheck of the group

VARIABLES
    list, updates,          \* the provider's proxies
    server,                 \* per name: "up", "silent" or "refuses"
    events,                 \* what the bound counts
    alive, last,            \* per node: its flag and its last delay, 0 if it has none
    selected, fastNode,     \* of the group
    result, recent,         \* fastSingle: its result, and whether it is still good
    flight,                 \* the running choice, or NoFlight
    cat, snap, choice,      \* per caller: its step, the list it got, the node it was given
    failures,               \* onDialFailed's goroutines before the mutex
    failedTimes, failedTesting,
    hat,                    \* per checker: its step in healthCheck
    todo, checking,         \* the provider's check: nodes yet to be tested, whether it runs
    checkRecent,            \* it was run a moment ago
    calm                    \* nothing the running choice looks at has changed

provider == <<list, updates>>
states == <<alive, last, todo, checking, checkRecent>>
choosing == <<selected, fastNode, result, recent, flight, calm>>
callers == <<cat, snap, choice>>
failing == <<failures, failedTimes, failedTesting, hat>>
vars == <<list, updates, server, events, alive, last, todo, checking, checkRecent,
          selected, fastNode, result, recent, flight, calm, cat, snap, choice,
          failures, failedTimes, failedTesting, hat>>

NoFlight == [by |-> "none", i |-> 0, fast |-> None, min |-> 0, notExist |-> FALSE]

Server(o) == server[NameOf(o)]

(* LastDelayForTestUrl. *)
Delay(o) == IF alive[o] /\ last[o] # 0 THEN last[o] ELSE Top

Init ==
    /\ \E l \in Lists : list = NodesOf(l, 0)
    /\ updates = 0 /\ server = [n \in Names |-> "up"] /\ events = 0
    /\ alive = [o \in Nodes |-> TRUE] /\ last = [o \in Nodes |-> 0]
    /\ todo = {} /\ checking = FALSE /\ checkRecent = FALSE
    /\ selected = NoName /\ fastNode = None /\ result = None /\ recent = FALSE
    /\ flight = NoFlight /\ calm = FALSE
    /\ cat = [c \in Callers |-> "idle"] /\ snap = [c \in Callers |-> << >>]
    /\ choice = [c \in Callers |-> None]
    /\ failures = 0 /\ failedTimes = 0 /\ failedTesting = FALSE
    /\ hat = [k \in Checkers |-> "idle"]

-----------------------------------------------------------------------------
(* The world: the provider's list and the servers change.  Such events,   *)
(* calls of the API and failures that come late are rare: they are counted.*)
Event == events < MaxEvents /\ events' = events + 1

Update(l) ==
    /\ Event /\ updates < MaxUpdates /\ updates' = updates + 1
    /\ list' = NodesOf(l, updates + 1)
    /\ UNCHANGED <<server, states, choosing, callers, failing>>

Change(n, state) ==
    /\ Event /\ server[n] # state
    /\ server' = [server EXCEPT ![n] = state]
    /\ UNCHANGED <<provider, states, choosing, callers, failing>>

-----------------------------------------------------------------------------
(* fast: the list, then the selected node, then the common choice.         *)
Step(c, from, to) == cat[c] = from /\ cat' = [cat EXCEPT ![c] = to]

Call(c) ==
    /\ Step(c, "idle", "select")
    /\ IF c = "api" THEN Event ELSE UNCHANGED events
    /\ snap' = [snap EXCEPT ![c] = list]
    /\ UNCHANGED <<provider, server, states, choosing, choice, failing>>

(* Set of the API, which then asks; ForceSet with no name. *)
Set(n) ==
    /\ Event
    /\ \E o \in ToSet(list) : NameOf(o) = n
    /\ Step("api", "idle", "select")
    /\ selected' = n /\ snap' = [snap EXCEPT !["api"] = list]
    /\ UNCHANGED <<provider, server, states, fastNode, result, recent, flight, calm, choice, failing>>

Unset ==
    /\ Event /\ selected # NoName /\ selected' = NoName
    /\ UNCHANGED <<provider, server, states, fastNode, result, recent, flight, calm, callers, failing>>

(* What the caller is given: it dials, or is answered. *)
Given(c, o) ==
    /\ Step(c, cat[c], IF c = "conn" THEN "dial" ELSE "idle")
    /\ choice' = [choice EXCEPT ![c] = IF c = "conn" THEN o ELSE None]
    /\ snap' = [snap EXCEPT ![c] = << >>]

Chosen(c) == {o \in ToSet(snap[c]) : NameOf(o) = selected /\ alive[o]}

TakeSelected(c) ==
    /\ cat[c] = "select"
    /\ \E o \in Chosen(c) : fastNode' = o /\ Given(c, o) /\ calm' = (calm /\ fastNode = o)
    /\ UNCHANGED <<provider, server, events, states, selected, result, recent, flight, failing>>

TakeRecent(c) ==
    /\ cat[c] = "select" /\ Chosen(c) = {} /\ recent
    /\ Given(c, result)
    /\ UNCHANGED <<provider, server, events, states, choosing, failing>>

Wait(c) ==
    /\ Chosen(c) = {} /\ ~recent /\ flight # NoFlight
    /\ Step(c, "select", "wait")
    /\ UNCHANGED <<provider, server, events, states, choosing, snap, choice, failing>>

StartChoice(c) ==
    /\ Chosen(c) = {} /\ ~recent /\ flight = NoFlight
    /\ Step(c, "select", "scan")
    /\ flight' = [by |-> c, i |-> 2, fast |-> snap[c][1], min |-> Delay(snap[c][1]), notExist |-> TRUE]
    /\ calm' = TRUE
    /\ UNCHANGED <<provider, server, events, states, selected, fastNode, result, recent, snap, choice, failing>>

(* One round of the loop, which leaves out the first proxy. *)
Scan(c) ==
    /\ flight.by = c /\ flight.i <= Len(snap[c])
    /\ LET o == snap[c][flight.i]
           better == alive[o] /\ Delay(o) < flight.min
       IN  flight' = [flight EXCEPT
               !.i = @ + 1, !.fast = IF better THEN o ELSE @, !.min = IF better THEN Delay(o) ELSE @,
               !.notExist = @ /\ (fastNode = None \/ NameOf(o) # NameOf(fastNode))]
    /\ UNCHANGED <<provider, server, events, states, selected, fastNode, result, recent, calm, callers, failing>>

(* Slip: the tolerance protects the current node from everything. *)
NeverSlower(o, fast) == FALSE

Slower(o, fast) == Delay(o) > (Delay(fast) + Tolerance) % (Top + 1)

Decision ==
    IF fastNode = None \/ flight.notExist \/ ~alive[fastNode] \/ Slower(fastNode, flight.fast)
    THEN flight.fast ELSE fastNode

(* The choice is made; those who waited for it have it too. *)
Decide(c) ==
    LET has == {a \in Callers : a = c \/ cat[a] = "wait"}
    IN  /\ flight.by = c /\ flight.i > Len(snap[c])
        /\ fastNode' = Decision /\ result' = Decision /\ recent' = TRUE
        /\ flight' = NoFlight /\ calm' = FALSE
        /\ cat' = [a \in Callers |-> IF a \notin has THEN cat[a] ELSE IF a = "conn" THEN "dial" ELSE "idle"]
        /\ choice' = [a \in Callers |-> IF a \in has /\ a = "conn" THEN Decision ELSE choice[a]]
        /\ snap' = [a \in Callers |-> IF a \in has THEN << >> ELSE snap[a]]
        /\ UNCHANGED <<provider, server, events, states, selected, failing>>

(* Ten seconds after a choice was started. *)
Expire ==
    /\ recent /\ recent' = FALSE /\ result' = None
    /\ UNCHANGED <<provider, server, events, states, selected, fastNode, flight, calm, callers, failing>>

-----------------------------------------------------------------------------
(* The connection dials through its node.                                  *)
Dialled ==
    /\ Step("conn", "dial", "idle")
    /\ choice' = [choice EXCEPT !["conn"] = None]
    /\ UNCHANGED <<provider, server, events, states, choosing, snap>>

(* onDialSuccess, called for connections that shake hands first. *)
DialSucceeds(handshake) ==
    /\ Dialled /\ Server(choice["conn"]) = "up"
    /\ failedTimes' = IF handshake /\ ~failedTesting THEN 0 ELSE failedTimes
    /\ UNCHANGED <<failures, failedTesting, hat>>

(* onDialFailed: a refused connection checks at once.  Bound: one such     *)
(* check at a time.                                                        *)
DialRefused ==
    /\ Dialled /\ Server(choice["conn"]) = "refuses" /\ hat["refused"] = "idle"
    /\ hat' = [hat EXCEPT !["refused"] = "load"]
    /\ UNCHANGED <<failures, failedTimes, failedTesting>>

DialFails ==
    /\ Dialled /\ Server(choice["conn"]) = "silent" /\ failures < MaxPending
    /\ failures' = failures + 1
    /\ UNCHANGED <<failedTimes, failedTesting, hat>>

(* The goroutine of onDialFailed, which holds the mutex to the end of the  *)
(* health check.  Above MaxFailed the count tells nothing apart.           *)
CountFailure(tooLate) ==
    LET times == Min({failedTimes + 1, MaxFailed})
    IN  /\ failures > 0 /\ hat["count"] = "idle"
        /\ failures' = failures - 1
        /\ IF tooLate THEN times > 1 /\ Event ELSE UNCHANGED events
        /\ failedTimes' = IF tooLate THEN 0 ELSE times
        /\ hat' = [hat EXCEPT !["count"] = IF ~tooLate /\ times >= MaxFailed THEN "load" ELSE "idle"]
        /\ UNCHANGED <<provider, server, states, choosing, callers, failedTesting>>

-----------------------------------------------------------------------------
(* healthCheck of the group, and check of its provider.                    *)
Check(k, from, to) == hat[k] = from /\ hat' = [hat EXCEPT ![k] = to]

LoadTesting(k) ==
    /\ Check(k, "load", IF failedTesting THEN "idle" ELSE "store")
    /\ UNCHANGED <<provider, server, events, states, choosing, callers, failures, failedTimes, failedTesting>>

(* A check of a second ago will do, or the one that is running. *)
StartCheck ==
    /\ ~checking /\ ~checkRecent
    /\ checking' = TRUE /\ todo' = ToSet(list)

StoreTesting(k) ==
    /\ Check(k, "store", IF checkRecent THEN "finish" ELSE "wait")
    /\ failedTesting' = TRUE
    /\ IF checkRecent \/ checking THEN UNCHANGED <<checking, todo>> ELSE StartCheck
    /\ UNCHANGED <<provider, server, events, alive, last, checkRecent, choosing, callers,
                   failures, failedTimes>>

(* The loop's ticker, an update of the provider, or the API. *)
Tick ==
    /\ StartCheck
    /\ UNCHANGED <<provider, server, events, alive, last, checkRecent, choosing, callers, failing>>

(* URLTest of one node.  Its flag and its history are two stores; a node   *)
(* between them has no delay, like one that is dead, so they are one step. *)
(* A success of 0 ms leaves the node alive and without a delay.            *)
TestNode(o, d) ==
    /\ o \in todo /\ todo' = todo \ {o}
    /\ IF Server(o) = "up" THEN d \in Delays[NameOf(o)] ELSE d = 0
    /\ alive' = [alive EXCEPT ![o] = Server(o) = "up"] /\ last' = [last EXCEPT ![o] = d]
    /\ calm' = FALSE
    /\ UNCHANGED <<provider, server, events, checking, checkRecent, selected, fastNode, result,
                   recent, flight, callers, failing>>

EndCheck ==
    /\ checking /\ todo = {}
    /\ checking' = FALSE /\ checkRecent' = TRUE
    /\ hat' = [k \in Checkers |-> IF hat[k] = "wait" THEN "finish" ELSE hat[k]]
    /\ UNCHANGED <<provider, server, events, alive, last, todo, choosing, callers,
                   failures, failedTimes, failedTesting>>

ExpireCheck ==
    /\ checkRecent /\ checkRecent' = FALSE
    /\ UNCHANGED <<provider, server, events, alive, last, todo, checking, choosing, callers, failing>>

(* Slip: the flag stays up when the check is over. *)
LeaveTesting(k) ==
    /\ Check(k, "finish", "idle")
    /\ failedTimes' = 0
    /\ UNCHANGED <<provider, server, events, states, choosing, callers, failures, failedTesting>>

Finish(k) ==
    /\ Check(k, "finish", "idle")
    /\ failedTesting' = FALSE /\ failedTimes' = 0
    /\ UNCHANGED <<provider, server, events, states, choosing, callers, failures>>

-----------------------------------------------------------------------------
Ask(c) ==
    TakeSelected(c) \/ TakeRecent(c) \/ Wait(c) \/ StartChoice(c) \/ Scan(c) \/ Decide(c)

Dial ==
    \/ \E handshake \in BOOLEAN : DialSucceeds(handshake)
    \/ DialRefused
    \/ DialFails

HealthCheck(k) == LoadTesting(k) \/ StoreTesting(k) \/ Finish(k)

Test == \E o \in Nodes : \E d \in Delays[NameOf(o)] \cup {0} : TestNode(o, d)

Next ==
    \/ \E l \in Lists : Update(l)
    \/ \E n \in Names, state \in {"up", "silent", "refuses"} : Change(n, state)
    \/ \E c \in Callers : Call(c) \/ Ask(c)
    \/ \E n \in Names : Set(n)
    \/ Unset \/ Expire
    \/ Dial
    \/ \E tooLate \in BOOLEAN : CountFailure(tooLate)
    \/ \E k \in Checkers : HealthCheck(k)
    \/ Tick \/ Test \/ EndCheck \/ ExpireCheck

(* Connections keep coming, goroutines run and tests end; time passes.  No *)
(* check is due by itself: the ticker may never tick.                      *)
Fairness ==
    /\ WF_vars(Call("conn")) /\ WF_vars(Dial)
    /\ \A c \in Callers : WF_vars(Ask(c))
    /\ WF_vars(\E tooLate \in BOOLEAN : CountFailure(tooLate))
    /\ \A k \in Checkers : WF_vars(HealthCheck(k))
    /\ WF_vars(Test) /\ WF_vars(EndCheck)
    /\ WF_vars(Expire) /\ WF_vars(ExpireCheck)

Spec == Init /\ [][Next]_vars /\ Fairness

-----------------------------------------------------------------------------
Measured(l) == {o \in ToSet(l) : alive[o] /\ last[o] # 0}
Best(l) == Min({last[o] : o \in Measured(l)})

(* A choice that nothing disturbed while it was made: if any proxy of the  *)
(* list has been measured, the node chosen is alive and slower than the    *)
(* fastest by the tolerance at most; and a listed node that is alive and   *)
(* not the first of its list is given up only for one that is faster by    *)
(* more than the tolerance.                                                *)
SoundChoice ==
    [][\A c \in Callers : flight.by = c /\ flight' = NoFlight /\ calm =>
         /\ Measured(snap[c]) # {} =>
                alive[fastNode'] /\ Delay(fastNode') <= Best(snap[c]) + Tolerance
         /\ fastNode # fastNode' /\ fastNode \in ToSet(Tail(snap[c])) /\ alive[fastNode] =>
                Measured(snap[c]) = {} \/ Best(snap[c]) + Tolerance < Delay(fastNode)]_vars

(* A node the choice falls back on when it has no delay, or finds by one.  *)
Eligible(o) == o = list[1] \/ 0 \notin Delays[NameOf(o)]

(* A group in use does not stay with a node of its list that is down while *)
(* another one answers - the first of the list, or one that is not so fast *)
(* that its tests measure 0 ms, which fast takes for no delay at all:      *)
(* failing dials alone get the node tested and left, also when they meet   *)
(* running checks, selections and choices still good.  From some time on   *)
(* no failure may come more than five seconds after the first it is        *)
(* counted with: one user who dials slowly, one dial after the other, gets *)
(* nothing tested.                                                         *)
DeadNodeLeft ==
    <>[](fastNode \in ToSet(list) /\ (\E o \in ToSet(list) : Server(o) = "up" /\ Eligible(o)) =>
             Server(fastNode) = "up")
=============================================================================
