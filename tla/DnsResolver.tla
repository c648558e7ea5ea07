----------------------------- MODULE DnsResolver -----------------------------
(***************************************************************************)
(* dns/resolver.go: concurrent ExchangeContext calls over the answer cache *)
(* and the single-flight group, and one LookupIP or LookupIPPrimaryIPv4    *)
(* whose A and AAAA halves are two of those calls (one if DisableIPv6).    *)
(*                                                                         *)
(* Every call may leave a goroutine behind: the one that refreshes an      *)
(* expired answer or repeats a query that ran out of time, and the monitor *)
(* that waits for a flight its caller has given up.  A process is a call   *)
(* or its background query; a fetch is a run of the closure fn of one      *)
(* process by the single-flight group.                                     *)
(*                                                                         *)
(* The resolver of proxy server names (NewProxyServerHostResolver) has     *)
(* servers and flights of its own, but the same cache.                     *)
(***************************************************************************)
EXTENDS Naturals, FiniteSets

CONSTANTS
    Lookup4, Lookup6,  \* the two halves of the LookupIP
    Others,            \* further ExchangeContext calls
    MaxCalls,          \* bound: calls that take part in one behaviour
    Scenarios,         \* bound: lookup, its servers, resolver of the Others
    Servers,           \* the servers of a group
    None

Resolvers == {"default", "proxy"}

ASSUME CallAssumption ==
    /\ Lookup4 # Lookup6 /\ {Lookup4, Lookup6} \cap Others = {} /\ MaxCalls \in Nat
    /\ Scenarios \subseteq {"none", "LookupIPv4", "LookupIP", "LookupIPPrimaryIPv4"}
                     \X {"main", "main, fallback", "only fallback", "policy", "rcode policy"} \X Resolvers

Calls == {Lookup4, Lookup6} \cup Others
Procs == Calls \X {"call", "again"}
Questions == {"A", "AAAA", "TXT"}

(* isIPRequest; CNAME queries take the same branch.                        *)
IsIPRequest(q) == q \in {"A", "AAAA"}

retryMax == 3

(* What a server replies: addresses that no fallback filter matches, or    *)
(* some that one matches; no address; records of another type; an error.   *)
Replies(q) == IF IsIPRequest(q) THEN {"clean", "mixed", "noip", "error"} ELSE {"text", "error"}

(* What a flight may bring, and a run of fn: the servers it asks, who is   *)
(* told, whether it was joined, how many retries led to it, its result.    *)
Results == {"ip", "suspect", "noip", "text", "error"}
Fetches == [from : {"proxy", "policy", "fallback", "main"}, waiters : SUBSET Procs, shared : BOOLEAN,
            retryNum : 0 .. retryMax, res : Results \cup {None}]

ASSUME NoneAssumption == None \notin Procs \cup Results \cup Fetches

VARIABLES
    conf,      \* the servers the name is asked of
    question, resolver,  \* of each call
    cache,     \* per question: None or a message and whether it expired
    group,     \* per resolver and question: the process whose fn is in flight
    fetch,     \* per process: None or the run of its fn
    pc, chan,  \* per process: its step, and what the flight sent it
    answer,    \* per call: what ExchangeContext returned
    lookup     \* the LookupIP

setup == <<conf, question, resolver>>
vars == <<setup, cache, group, fetch, pc, chan, answer, lookup>>

Q(p) == question[p[1]]
Key(p) == <<resolver[p[1]], Q(p)>>

Init ==
    /\ cache = [q \in Questions |-> None]
    /\ group = [k \in Resolvers \X Questions |-> None]
    /\ fetch = [p \in Procs |-> None] /\ chan = [p \in Procs |-> None]
    /\ answer = [c \in Calls |-> None]
    /\ \E scenario \in Scenarios, active \in SUBSET Calls :
          LET of == scenario[1]
              other == scenario[3]
          IN  /\ conf = scenario[2]
              /\ Cardinality(active) <= MaxCalls
              /\ (Lookup4 \in active) = (of # "none")
              /\ (Lookup6 \in active) = (of \in {"LookupIP", "LookupIPPrimaryIPv4"})
              /\ lookup = [of |-> of, at |-> IF of = "none" THEN "none" ELSE "a", ips |-> {}, err |-> FALSE]
              /\ \E q \in IF of = "none" THEN {"A", "TXT"} ELSE {"A"} :
                    question = [c \in Calls |-> IF c \in Others THEN q ELSE IF c = Lookup6 THEN "AAAA" ELSE "A"]
              /\ resolver = [c \in Calls |-> IF c \in Others THEN other ELSE "default"]
              /\ pc = [p \in Procs |-> IF p[1] \in active /\ p[2] = "call" THEN "exchange" ELSE "idle"]

-----------------------------------------------------------------------------
(* matchPolicy, then for address queries shouldOnlyQueryFallback; the      *)
(* resolver of proxy server names has neither.                             *)
FirstServers(p) ==
    CASE resolver[p[1]] = "proxy" -> "proxy"
      [] resolver[p[1]] = "default" /\ conf \in {"policy", "rcode policy"} -> "policy"
      [] resolver[p[1]] = "default" /\ conf = "only fallback" /\ IsIPRequest(Q(p)) -> "fallback"
      [] OTHER -> "main"

(* singleflight.Group.DoChan: join the flight of the key, or start one.    *)
DoChan(p, waiters, retryNum) ==
    IF group[Key(p)] = None
    THEN /\ group' = [group EXCEPT ![Key(p)] = p]
         /\ fetch' = [fetch EXCEPT ![p] =
                [from |-> FirstServers(p), waiters |-> waiters, shared |-> FALSE,
                 retryNum |-> retryNum, res |-> None]]
    ELSE /\ fetch' = [fetch EXCEPT ![group[Key(p)]].waiters = @ \cup waiters,
                                   ![group[Key(p)]].shared = TRUE]
         /\ UNCHANGED group

(* The goroutine of the deferred function of ExchangeContext.              *)
ContinueFetch(p, goOn) ==
    IF p[2] = "call" /\ goOn THEN [pc EXCEPT ![p] = "done", ![<<p[1], "again">>] = "query"]
                             ELSE [pc EXCEPT ![p] = "done"]

(* What a background query brings is ignored, and a message without an     *)
(* address is an error to lookupIP.                                        *)
Tell(p, res) ==
    IF p[2] = "call" THEN [answer EXCEPT ![p[1]] = IF res = "noip" THEN "error" ELSE res] ELSE answer

(* ExchangeContext looks into the cache, which keeps expired answers.      *)
Exchange(c) ==
    LET p == <<c, "call">> IN
    /\ pc[p] = "exchange"
    /\ IF cache[Q(p)] = None
       THEN pc' = [pc EXCEPT ![p] = "query"] /\ UNCHANGED answer
       ELSE /\ answer' = Tell(p, cache[Q(p)].msg)
            /\ pc' = ContinueFetch(p, cache[Q(p)].expired)
    /\ UNCHANGED <<setup, cache, group, fetch, chan, lookup>>

(* exchangeWithoutCache asks the group.                                    *)
Query(p) ==
    /\ pc[p] = "query" /\ DoChan(p, {p}, 0)
    /\ pc' = [pc EXCEPT ![p] = "wait"]
    /\ UNCHANGED <<setup, cache, chan, answer, lookup>>

(* batchExchange: every server is asked at once, the first usable reply    *)
(* wins; SERVFAIL and REFUSED are failures, an empty address list is kept  *)
(* in case nobody knows better, and the first error names the failure.     *)
Batch(replies) ==
    LET got == {replies[s] : s \in Servers}
        usable == got \cap {"clean", "mixed", "text"}
    IN  IF usable # {} THEN usable ELSE IF "noip" \in got THEN {"noip"} ELSE got

BatchExchange == [q \in Questions |-> UNION {Batch(replies) : replies \in [Servers -> Replies(q)]}]

(* What the result is to the caller: filtered addresses that the main      *)
(* servers name, although others could be asked, are suspect.              *)
Meaning(p, kind) ==
    IF kind \in {"clean", "mixed"}
    THEN IF kind = "mixed" /\ fetch[p].from = "main" /\ conf = "main, fallback" THEN "suspect" ELSE "ip"
    ELSE kind

(* Slip: one address outside the filters is taken for all. *)
SomeAddressPasses(kind) == kind \in {"clean", "mixed"}

ShouldNotFallback(kind) == kind = "clean"

(* putMsgToCache: an answer whose records live no time is not kept.        *)
PutMsgToCache(q, msg) ==
    \/ cache' = [cache EXCEPT ![q] = [msg |-> msg, expired |-> FALSE]]
    \/ UNCHANGED cache

(* The end of fn: a message is cached, an error is not.                    *)
EndFetch(p, kind) ==
    /\ fetch' = [fetch EXCEPT ![p].res = Meaning(p, kind)]
    /\ IF kind = "error" THEN UNCHANGED cache ELSE PutMsgToCache(Q(p), Meaning(p, kind))

(* An rcode client answers at once, without records; only a server failure *)
(* to an address query is kept.                                            *)
AskRCode(p) ==
    /\ fetch[p] # None /\ fetch[p].res = None
    /\ fetch[p].from = "policy" /\ conf = "rcode policy"
    /\ IF IsIPRequest(Q(p)) THEN EndFetch(p, "noip")
       ELSE /\ fetch' = [fetch EXCEPT ![p].res = "text"]
            /\ UNCHANGED cache
    /\ UNCHANGED <<setup, group, pc, chan, answer, lookup>>

(* ipExchange and the other branch of fn: the main servers are not         *)
(* believed when they fail, know no address, or name one that a filter     *)
(* matches, and there are others to ask.                                   *)
Ask(p) ==
    /\ fetch[p] # None /\ fetch[p].res = None
    /\ ~(fetch[p].from = "policy" /\ conf = "rcode policy")
    /\ \E kind \in BatchExchange[Q(p)] :
          IF fetch[p].from = "main" /\ conf = "main, fallback" /\ IsIPRequest(Q(p))
             /\ ~ShouldNotFallback(kind)
          THEN fetch' = [fetch EXCEPT ![p].from = "fallback"] /\ UNCHANGED cache
          ELSE EndFetch(p, kind)
    /\ UNCHANGED <<setup, group, pc, chan, answer, lookup>>

(* Slip: only the first caller is told. *)
FirstWaiter(p, w) == w = p

Waits(p, w) == w \in fetch[p].waiters

(* The group forgets the key and tells everyone who waits.                 *)
Land(p) ==
    /\ fetch[p] # None /\ fetch[p].res # None
    /\ group' = [group EXCEPT ![Key(p)] = None]
    /\ chan' = [w \in Procs |-> IF Waits(p, w)
                                THEN [val |-> fetch[p].res, shared |-> fetch[p].shared /\ fetch[p].res = "error",
                                      ret |-> fetch[p].retryNum]
                                ELSE chan[w]]
    /\ fetch' = [fetch EXCEPT ![p] = None]
    /\ UNCHANGED <<setup, cache, pc, answer, lookup>>

(* An error nobody else has seen is tried again, without waiting for it.   *)
Retry(p) ==
    IF chan[p].val = "error" /\ ~chan[p].shared /\ chan[p].ret < retryMax
    THEN DoChan(p, {}, chan[p].ret + 1) ELSE UNCHANGED <<group, fetch>>

(* exchangeWithoutCache returns what the flight brought; the time that ran *)
(* out may also be the servers', and is then the first error of the batch. *)
Receive(p) ==
    /\ pc[p] = "wait" /\ chan[p] # None
    /\ Retry(p)
    /\ chan' = [chan EXCEPT ![p] = None]
    /\ answer' = Tell(p, chan[p].val)
    /\ \E timeout \in BOOLEAN : pc' = ContinueFetch(p, chan[p].val = "error" /\ timeout)
    /\ UNCHANGED <<setup, cache, lookup>>

(* Slip: the flight is given up with the caller. *)
GiveUpAndForget(p) ==
    /\ pc[p] = "wait" /\ chan[p] = None
    /\ answer' = Tell(p, "error")
    /\ pc' = [ContinueFetch(p, TRUE) EXCEPT ![p] = "monitor"]
    /\ group' = [group EXCEPT ![Key(p)] = None]
    /\ UNCHANGED <<setup, cache, fetch, chan, lookup>>

(* The context of the caller ends first: a monitor stays with the channel. *)
GiveUp(p) ==
    /\ pc[p] = "wait" /\ chan[p] = None
    /\ answer' = Tell(p, "error")
    /\ pc' = [ContinueFetch(p, TRUE) EXCEPT ![p] = "monitor"]
    /\ UNCHANGED <<setup, cache, group, fetch, chan, lookup>>

Monitor(p) ==
    /\ pc[p] = "monitor" /\ chan[p] # None
    /\ Retry(p)
    /\ chan' = [chan EXCEPT ![p] = None]
    /\ pc' = [pc EXCEPT ![p] = "done"]
    /\ UNCHANGED <<setup, cache, answer, lookup>>

(* Time passes for a cached answer that somebody has yet to look up.       *)
Expire(q) ==
    /\ cache[q] # None /\ ~cache[q].expired
    /\ \E c \in Calls : question[c] = q /\ pc[<<c, "call">>] = "exchange"
    /\ cache' = [cache EXCEPT ![q].expired = TRUE]
    /\ UNCHANGED <<setup, group, fetch, pc, chan, answer, lookup>>

-----------------------------------------------------------------------------
(* lookupIP: what a finished half of the lookup has.                       *)
Returned(c) == answer[c] # None
Found(c) == Returned(c) /\ answer[c] \in {"ip", "suspect"}

LookupReturns(ips, err) ==
    /\ lookup' = [lookup EXCEPT !.at = "returned", !.ips = ips, !.err = err]
    /\ UNCHANGED <<setup, cache, group, fetch, pc, chan, answer>>

(* LookupIP waits for the A half, then for the other one or the timer;     *)
(* LookupIPPrimaryIPv4 waits for the other half only if it has to, and     *)
(* LookupIPv4 has none.                                                    *)
TakeA ==
    /\ lookup.at = "a" /\ Returned(Lookup4)
    /\ CASE lookup.of = "LookupIPv4" -> LookupReturns({c \in {Lookup4} : Found(c)}, ~Found(Lookup4))
         [] lookup.of = "LookupIPPrimaryIPv4" /\ Found(Lookup4) -> LookupReturns({Lookup4}, FALSE)
         [] OTHER ->
               /\ lookup' = [lookup EXCEPT !.at = "aaaa"]
               /\ UNCHANGED <<setup, cache, group, fetch, pc, chan, answer>>

(* Slip: an IPv6 half without address hides what the other half found. *)
ErrorWins == TRUE

BothFailed == ~Found(Lookup4)

TakeAAAA ==
    /\ lookup.at = "aaaa" /\ Returned(Lookup6)
    /\ IF ~Found(Lookup6) /\ BothFailed THEN LookupReturns({}, TRUE)
       ELSE LookupReturns({c \in {Lookup4, Lookup6} : Found(c)}, FALSE)

WaitIPv6Ends ==
    /\ lookup.at = "aaaa" /\ lookup.of = "LookupIP"
    /\ LookupReturns({c \in {Lookup4} : Found(c)}, FALSE)

-----------------------------------------------------------------------------
Progress ==
    \/ \E c \in Calls : Exchange(c)
    \/ \E p \in Procs : Query(p) \/ Ask(p) \/ AskRCode(p) \/ Land(p) \/ Receive(p) \/ Monitor(p)
    \/ TakeA \/ TakeAAAA \/ WaitIPv6Ends

Next ==
    \/ Progress
    \/ \E p \in Procs : GiveUp(p)
    \/ \E q \in Questions : Expire(q)

Spec == Init /\ [][Next]_vars

(* Goroutines run and servers are asked with a deadline; nobody needs to   *)
(* give up, and no answer to expire.                                       *)
Fairness == WF_vars(Progress)

FairSpec == Spec /\ Fairness

-----------------------------------------------------------------------------
(* With fallback servers, an address that a fallback filter matches is     *)
(* never cached, nor returned to a caller, on the word of the main servers *)
(* (ipExchange).                                                           *)
FilteredNotFromMain ==
    /\ \A c \in Calls : answer[c] # "suspect"
    /\ \A q \in Questions : cache[q] # None => cache[q].msg # "suspect"

(* However many callers wait, give up, refresh and retry: a resolver asks  *)
(* its servers one question once at a time, and one exchangeWithoutCache   *)
(* asks at most twice, although retryMax is 3: nobody reads the result of  *)
(* the retry.                                                              *)
ServersSpared ==
    /\ \A p, r \in Procs : p # r /\ fetch[p] # None /\ fetch[r] # None => Key(p) # Key(r)
    /\ \A p \in Procs : fetch[p] # None => fetch[p].retryNum <= 1

(* LookupIP and LookupIPPrimaryIPv4 report an error only if both halves    *)
(* have ended without an address, and keep the addresses of the A half;    *)
(* the one success without any address is LookupIP's when the A half       *)
(* failed and the wait for the other ended first.                          *)
LookupSound ==
    lookup.at = "returned" =>
        /\ lookup.err => Returned(Lookup4) /\ \A c \in {Lookup4, Lookup6} : ~Found(c)
        /\ lookup.err /\ lookup.of # "LookupIPv4" => Returned(Lookup6)
        /\ Found(Lookup4) => Lookup4 \in lookup.ips
        /\ ~lookup.err /\ lookup.ips = {} => lookup.of = "LookupIP"
        /\ lookup.of = "LookupIPPrimaryIPv4" => Cardinality(lookup.ips) <= 1

(* Every caller is answered, and every goroutine a call leaves behind, for *)
(* an expired answer, a query out of time or a flight given up, ends.      *)
ResolverEnds ==
    <>[]( /\ \A p \in Procs : pc[p] \in {"idle", "done"} /\ fetch[p] = None
          /\ lookup.at \in {"none", "returned"})

=============================================================================
