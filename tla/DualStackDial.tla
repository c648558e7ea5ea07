---------------------------- MODULE DualStackDial ----------------------------
(***************************************************************************)
(* One call of component/dialer's DialContext once the name is resolved:   *)
(* the addresses of a family are tried one after the other or at once      *)
(* (tcp-concurrent), and the families race when both may be used.          *)
(*                                                                         *)
(* The channels are unbuffered: a result is handed over when the loop that *)
(* collects takes it, and the deferred close(returned) of that loop frees  *)
(* whoever still holds one.                                                *)
(***************************************************************************)
EXTENDS FiniteSets

CONSTANTS
    IPv4s, IPv6s,   \* the addresses a name may resolve to
    NoAddr

ASSUME AddressAssumption == IPv4s \cap IPv6s = {} /\ NoAddr \notin IPv4s \cup IPv6s

Addrs == IPv4s \cup IPv6s

(* Races: one per family, or one of all addresses when no family is waited *)
(* for.                                                                    *)
Races == {"v4", "v6", "all"}

VARIABLES
    ips,           \* what parseAddr returned
    concurrent,    \* tcpConcurrent
    dual,          \* network is "tcp" or "udp": either family may be used
    prefer,        \* opt.prefer, the family to wait for, or "none"
    attempt,       \* per address: how its dialContext goes
    racer,         \* per race: "none" if it is not run
    got,           \* per race: the connection of its result
    fallback,      \* the connection that waits for the primary
    resultsClosed, \* the channel of the races is closed
    call,          \* "start", "racing", "returned"
    conn           \* what DialContext returned, NoAddr for an error

config == <<ips, concurrent, dual, prefer>>
vars == <<config, attempt, racer, got, fallback, resultsClosed, call, conn>>

(* Only dualStackDialContext races the families: with tcp-concurrent and   *)
(* no preference all addresses are dialled at once.                        *)
Staged == dual /\ (concurrent => prefer # "none")

Members(g) == CASE g = "v4" -> IF Staged THEN ips \cap IPv4s ELSE {}
                [] g = "v6" -> IF Staged THEN ips \cap IPv6s ELSE {}
                [] g = "all" -> IF Staged THEN {} ELSE ips

IsOpen(a) == attempt[a] \in {"open", "held"}

(* Every field has its type, and a race that succeeded has a connection.   *)
TypeOK ==
    /\ ips \subseteq Addrs /\ concurrent \in BOOLEAN /\ dual \in BOOLEAN
    /\ prefer \in {"v4", "v6", "none"}
    /\ attempt \in [Addrs -> {"none", "dialling", "open", "held", "failed", "closed"}]
    /\ racer \in [Races -> {"none", "dialling", "ok", "failed", "gone"}]
    /\ got \in [Races -> Addrs \cup {NoAddr}]
    /\ \A g \in Races : racer[g] = "ok" => got[g] # NoAddr
    /\ fallback \in Addrs \cup {NoAddr} /\ conn \in Addrs \cup {NoAddr}
    /\ resultsClosed \in BOOLEAN /\ call \in {"start", "racing", "returned"}

Init ==
    /\ concurrent \in BOOLEAN /\ dual \in BOOLEAN /\ prefer \in {"v4", "v6", "none"}
    /\ ips \in SUBSET Addrs /\ (dual \/ ips \subseteq IPv4s \/ ips \subseteq IPv6s)
    /\ attempt = [a \in Addrs |-> "none"]
    /\ racer = [g \in Races |-> "none"] /\ got = [g \in Races |-> NoAddr]
    /\ fallback = NoAddr /\ resultsClosed = FALSE
    /\ call = "start" /\ conn = NoAddr

-----------------------------------------------------------------------------
Return(c) == call' = "returned" /\ conn' = c

(* ErrorNoIpAddress *)
NothingToDial ==
    /\ call = "start" /\ ips = {} /\ Return(NoAddr)
    /\ UNCHANGED <<config, attempt, racer, got, fallback, resultsClosed>>

Start ==
    /\ call = "start" /\ ips # {} /\ call' = "racing"
    /\ racer' = [g \in Races |-> IF Members(g) # {} THEN "dialling" ELSE "none"]
    /\ attempt' = [a \in Addrs |-> IF concurrent /\ a \in ips THEN "dialling" ELSE "none"]
    /\ UNCHANGED <<config, got, fallback, resultsClosed, conn>>

(* serialDialContext tries the next address when the one before failed.    *)
DialNext(g, a) ==
    /\ ~concurrent /\ racer[g] = "dialling"
    /\ a \in Members(g) /\ attempt[a] = "none"
    /\ \A b \in Members(g) : attempt[b] \in {"none", "failed"}
    /\ attempt' = [attempt EXCEPT ![a] = "dialling"]
    /\ UNCHANGED <<config, racer, got, fallback, resultsClosed, call, conn>>

(* dialContext of one address: the network, or the caller's context.       *)
Connect(a) ==
    /\ attempt[a] = "dialling" /\ attempt' = [attempt EXCEPT ![a] = "open"]
    /\ UNCHANGED <<config, racer, got, fallback, resultsClosed, call, conn>>

Refuse(a) ==
    /\ attempt[a] = "dialling" /\ attempt' = [attempt EXCEPT ![a] = "failed"]
    /\ UNCHANGED <<config, racer, got, fallback, resultsClosed, call, conn>>

(* The first connection of a race is its result.                           *)
FirstConnection(g, a) ==
    /\ racer[g] = "dialling" /\ a \in Members(g) /\ attempt[a] = "open"
    /\ attempt' = [attempt EXCEPT ![a] = "held"]
    /\ racer' = [racer EXCEPT ![g] = "ok"]
    /\ got' = [got EXCEPT ![g] = a]
    /\ UNCHANGED <<config, fallback, resultsClosed, call, conn>>

(* Slip: the first error is taken for the result. *)
OneFailed(g) == \E a \in Members(g) : attempt[a] = "failed"

AllFailed(g) == \A a \in Members(g) : attempt[a] = "failed"

RaceFails(g) ==
    /\ racer[g] = "dialling" /\ AllFailed(g)
    /\ racer' = [racer EXCEPT ![g] = "failed"]
    /\ UNCHANGED <<config, attempt, got, fallback, resultsClosed, call, conn>>

(* Slip: what is not wanted is let go of, but not closed. *)
Drop(a) == attempt' = [attempt EXCEPT ![a] = "held"]

Discard(a) == attempt' = [attempt EXCEPT ![a] = "closed"]

(* parallelDialContext has returned: a racer that comes late closes its    *)
(* connection.                                                             *)
LateConnection(g, a) ==
    /\ racer[g] # "dialling" /\ a \in Members(g) /\ attempt[a] = "open"
    /\ Discard(a)
    /\ UNCHANGED <<config, racer, got, fallback, resultsClosed, call, conn>>

-----------------------------------------------------------------------------
(* Without a second race its result is what DialContext returns.           *)
Finish ==
    /\ call = "racing" /\ racer["all"] \in {"ok", "failed"}
    /\ Return(got["all"])
    /\ racer' = [racer EXCEPT !["all"] = "gone"]
    /\ UNCHANGED <<config, attempt, got, fallback, resultsClosed>>

(* Slip: whoever is first wins. *)
AnyIsPrimary(g) == TRUE

IsPrimary(g) == prefer \in {g, "none"}

(* Slip: a racer whose result was taken runs the other case as well. *)
StillHolds == "ok"

AfterSend == "gone"

(* The loop of dualStackDialContext takes a result.                        *)
ReceivePrimary(g) ==
    /\ Staged /\ call = "racing" /\ racer[g] = "ok" /\ IsPrimary(g)
    /\ racer' = [racer EXCEPT ![g] = AfterSend]
    /\ Return(got[g])
    /\ UNCHANGED <<config, attempt, got, fallback, resultsClosed>>

ReceiveFallback(g) ==
    /\ Staged /\ call = "racing" /\ racer[g] = "ok" /\ ~IsPrimary(g)
    /\ racer' = [racer EXCEPT ![g] = "gone"]
    /\ fallback' = got[g]
    /\ UNCHANGED <<config, attempt, got, resultsClosed, call, conn>>

ReceiveError(g) ==
    /\ Staged /\ call = "racing" /\ racer[g] = "failed"
    /\ racer' = [racer EXCEPT ![g] = "gone"]
    /\ UNCHANGED <<config, attempt, got, fallback, resultsClosed, call, conn>>

FallbackTick ==
    /\ call = "racing" /\ fallback # NoAddr /\ Return(fallback)
    /\ UNCHANGED <<config, attempt, racer, got, fallback, resultsClosed>>

(* wg.Wait, close(results) *)
CloseResults ==
    /\ Staged /\ call # "start" /\ ips # {} /\ ~resultsClosed
    /\ \A g \in Races : racer[g] \in {"none", "gone"}
    /\ resultsClosed' = TRUE
    /\ UNCHANGED <<config, attempt, racer, got, fallback, call, conn>>

AllResultsIn ==
    /\ call = "racing" /\ resultsClosed /\ Return(fallback)
    /\ UNCHANGED <<config, attempt, racer, got, fallback, resultsClosed>>

(* Slip: nobody closes the channel returned. *)
NobodyTold == FALSE

Returned == call = "returned"

(* dualStackDialContext has returned: a race that comes late closes its    *)
(* connection.                                                             *)
LateRace(g) ==
    /\ Staged /\ Returned /\ racer[g] \in {"ok", "failed"}
    /\ racer' = [racer EXCEPT ![g] = "gone"]
    /\ IF racer[g] = "ok" THEN Discard(got[g]) ELSE UNCHANGED attempt
    /\ UNCHANGED <<config, got, fallback, resultsClosed, call, conn>>

RaceStep(g) ==
    \/ \E a \in Addrs : DialNext(g, a) \/ FirstConnection(g, a) \/ LateConnection(g, a)
    \/ RaceFails(g)
    \/ LateRace(g)

CallerStep ==
    \/ NothingToDial
    \/ Start
    \/ Finish
    \/ \E g \in Races : ReceivePrimary(g) \/ ReceiveFallback(g) \/ ReceiveError(g)
    \/ AllResultsIn

Next ==
    \/ CallerStep
    \/ FallbackTick
    \/ CloseResults
    \/ \E g \in Races : RaceStep(g)
    \/ \E a \in Addrs : Connect(a) \/ Refuse(a)

Spec == Init /\ [][Next]_vars

(* The goroutines run, and a dial ends, by the deadline of its context at  *)
(* the latest.                                                             *)
FairSpec ==
    /\ Spec
    /\ WF_vars(CallerStep) /\ WF_vars(CloseResults)
    /\ \A g \in Races : WF_vars(RaceStep(g))
    /\ \A a \in Addrs : WF_vars(Connect(a) \/ Refuse(a))

-----------------------------------------------------------------------------
Quiet ==
    /\ call = "returned"
    /\ \A g \in Races : racer[g] \in {"none", "gone"}
    /\ \A a \in Addrs : attempt[a] \notin {"dialling", "open"}

(* When all have ended a connection that was opened is the caller's or has *)
(* been closed, but one: a fallback that waited for the primary and was    *)
(* overtaken by it, which dualStackDialContext forgets.                    *)
LosersClosed == Quiet => \A a \in Addrs : IsOpen(a) => a \in {conn, fallback}

(* What the caller got is open: no late racer closes it.                   *)
ResultIsOpen == conn # NoAddr => IsOpen(conn)

(* An error is returned only when every address has failed.                *)
ErrorOnlyIfAllFailed == call = "returned" /\ conn = NoAddr => \A a \in ips : attempt[a] = "failed"

(* A connection of the family that is not preferred is returned only after *)
(* it had to wait as the fallback, or when the preferred one has failed.   *)
PrimaryIsAwaited ==
    Staged /\ prefer # "none" /\ conn # NoAddr /\ conn \notin Members(prefer) => conn = fallback

(* DialContext returns and leaves no goroutine behind, blocked on a result *)
(* nobody takes.                                                           *)
DialEnds == <>[]Quiet
=============================================================================
