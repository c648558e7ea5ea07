------------------------- MODULE DnsResolverProofs -------------------------
(***************************************************************************)
(* Proofs about the resolver, for every set of calls and of servers and    *)
(* every way calls join, give up, refresh and retry.                       *)
(***************************************************************************)
EXTENDS DnsResolver, FiniteSetTheorems, TLAPS

Sent == [val : Results, shared : BOOLEAN, ret : 0 .. retryMax]
Cached == [msg : Results, expired : BOOLEAN]
Keys == Resolvers \X Questions

(* Every field of the resolver, its group and its callers has its type.    *)
TypeOK ==
    /\ question \in [Calls -> Questions] /\ resolver \in [Calls -> Resolvers]
    /\ cache \in [Questions -> Cached \cup {None}]
    /\ group \in [Keys -> Procs \cup {None}]
    /\ fetch \in [Procs -> Fetches \cup {None}]
    /\ chan \in [Procs -> Sent \cup {None}]
    /\ pc \in [Procs -> {"idle", "exchange", "query", "wait", "monitor", "done"}]
    /\ answer \in [Calls -> Results \cup {None}]

(* The flight of a key is that of a process which asks it, and every run   *)
(* of fn is the flight of its key.                                         *)
FetchInGroup == \A p \in Procs : fetch[p] # None => group[Key(p)] = p
GroupInFetch == \A k \in Keys : group[k] # None => fetch[group[k]] # None /\ Key(group[k]) = k
InFlight == FetchInGroup /\ GroupInFetch

-----------------------------------------------------------------------------
(* The parts of a process. *)
LEMMA ProcParts ==
    ASSUME NEW p \in Procs
    PROVE  p[1] \in Calls /\ p[2] \in {"call", "again"} /\ p = <<p[1], p[2]>>
BY DEF Procs

(* A call and the query it may leave behind are processes. *)
LEMMA CallProcs ==
    ASSUME NEW c \in Calls
    PROVE  /\ <<c, "call">> \in Procs /\ <<c, "again">> \in Procs
           /\ <<c, "call">>[1] = c /\ <<c, "call">>[2] = "call"
           /\ <<c, "call">> # <<c, "again">>
BY DEF Procs

(* What a process asks, and of which resolver. *)
LEMMA KeyType ==
    ASSUME TypeOK, NEW p \in Procs
    PROVE  Q(p) \in Questions /\ Key(p) \in Keys
BY ProcParts DEF TypeOK, Q, Key, Keys

(* batchExchange gives what one of the servers replied. *)
LEMMA BatchReplies ==
    ASSUME NEW q \in Questions, NEW kind \in BatchExchange[q]
    PROVE  kind \in Replies(q)
<1>1. PICK replies \in [Servers -> Replies(q)] : kind \in Batch(replies)
  BY DEF BatchExchange
<1>2. {replies[s] : s \in Servers} \subseteq Replies(q)
  OBVIOUS
<1>3. kind \in {replies[s] : s \in Servers}
  BY <1>1 DEF Batch
<1>4. QED BY <1>2, <1>3

(* The two ways of DoChan: a flight is started, or one is joined.          *)
Starts(p, W, n) ==
    /\ group[Key(p)] = None /\ fetch[p] = None
    /\ group' = [group EXCEPT ![Key(p)] = p]
    /\ \E f \in Fetches : /\ fetch' = [fetch EXCEPT ![p] = f]
                          /\ f.waiters = W /\ f.shared = FALSE /\ f.retryNum = n /\ f.res = None

Joins(W) ==
    /\ UNCHANGED group
    /\ \E g \in Procs, f \in Fetches :
          /\ fetch[g] \in Fetches /\ fetch' = [fetch EXCEPT ![g] = f]
          /\ f.waiters = fetch[g].waiters \cup W /\ f.shared = TRUE
          /\ f.retryNum = fetch[g].retryNum /\ f.res = fetch[g].res

(* There is no other: what the key holds is a run of fn.                   *)
LEMMA DoChanCases ==
    ASSUME TypeOK, InFlight, NEW p \in Procs, NEW W \in SUBSET Procs, NEW n \in 0 .. retryMax, DoChan(p, W, n)
    PROVE  Starts(p, W, n) \/ Joins(W)
<1>1. Key(p) \in Keys
  BY KeyType
<1>2. CASE group[Key(p)] = None
  <2>1. FirstServers(p) \in {"proxy", "policy", "fallback", "main"}
    BY DEF FirstServers
  <2> DEFINE f == [from |-> FirstServers(p), waiters |-> W, shared |-> FALSE, retryNum |-> n, res |-> None]
  <2>2. f \in Fetches /\ f.waiters = W /\ f.shared = FALSE /\ f.retryNum = n /\ f.res = None
    BY <2>1 DEF Fetches
  <2>3. fetch[p] = None
    BY <1>2, NoneAssumption DEF InFlight, FetchInGroup
  <2>4. group' = [group EXCEPT ![Key(p)] = p] /\ fetch' = [fetch EXCEPT ![p] = f]
    BY <1>2 DEF DoChan
  <2> HIDE DEF f
  <2>5. QED BY <1>2, <2>2, <2>3, <2>4 DEF Starts
<1>3. CASE group[Key(p)] # None
  <2> DEFINE g == group[Key(p)]
             f == [fetch[g] EXCEPT !.waiters = @ \cup W, !.shared = TRUE]
  <2>1. g \in Procs /\ fetch[g] \in Fetches
    BY <1>1, <1>3 DEF TypeOK, InFlight, GroupInFetch
  <2>2. f \in Fetches /\ f.waiters = fetch[g].waiters \cup W /\ f.shared = TRUE
        /\ f.retryNum = fetch[g].retryNum /\ f.res = fetch[g].res
    BY <2>1 DEF Fetches
  <2>3. UNCHANGED group /\ fetch' = [fetch EXCEPT ![g].waiters = @ \cup W, ![g].shared = TRUE]
    BY <1>3 DEF DoChan
  <2>4. fetch' = [fetch EXCEPT ![g] = f]
    BY <2>1, <2>3 DEF TypeOK, Fetches
  <2> HIDE DEF f, g
  <2>5. QED BY <2>1, <2>2, <2>3, <2>4 DEF Joins
<1>4. QED BY <1>2, <1>3

(* DoChan keeps the types, and flights to their keys.                      *)
LEMMA DoChanKeeps ==
    ASSUME TypeOK, InFlight, UNCHANGED setup,
           NEW p \in Procs, NEW W \in SUBSET Procs, NEW n \in 0 .. retryMax, DoChan(p, W, n)
    PROVE  /\ group' \in [Keys -> Procs \cup {None}] /\ fetch' \in [Procs -> Fetches \cup {None}]
           /\ InFlight'
<1>1. Key(p) \in Keys /\ \A r \in Procs : Key(r)' = Key(r) /\ Key(r) \in Keys
  BY KeyType DEF setup, Key, Q
<1>2. group \in [Keys -> Procs \cup {None}] /\ fetch \in [Procs -> Fetches \cup {None}]
  BY DEF TypeOK
<1>3. None \notin Fetches /\ None \notin Procs
  BY NoneAssumption
<1>4. CASE Starts(p, W, n)
  BY <1>1, <1>2, <1>3, <1>4 DEF Starts, InFlight, FetchInGroup, GroupInFetch
<1>5. CASE Joins(W)
  BY <1>1, <1>2, <1>3, <1>5 DEF Joins, InFlight, FetchInGroup, GroupInFetch
<1>6. QED BY <1>4, <1>5, DoChanCases

(* A retry is one DoChan more, or none.                                    *)
LEMMA RetryIsDoChan ==
    ASSUME TypeOK, NEW p \in Procs, chan[p] # None, Retry(p)
    PROVE  \/ UNCHANGED <<group, fetch>>
           \/ /\ chan[p].val = "error" /\ ~chan[p].shared
              /\ chan[p].ret + 1 \in 0 .. retryMax /\ {} \in SUBSET Procs
              /\ DoChan(p, {}, chan[p].ret + 1)
<1>1. chan[p] \in Sent
  BY DEF TypeOK
<1>2. QED BY <1>1 DEF Retry, Sent, retryMax

(* A retry keeps what DoChan keeps. *)
LEMMA RetryKeeps ==
    ASSUME TypeOK, InFlight, UNCHANGED setup, NEW p \in Procs, chan[p] # None, Retry(p)
    PROVE  /\ group' \in [Keys -> Procs \cup {None}] /\ fetch' \in [Procs -> Fetches \cup {None}]
           /\ InFlight'
<1>1. CASE UNCHANGED <<group, fetch>>
  <2>1. \A r \in Procs : Key(r)' = Key(r)
    BY DEF setup, Key, Q
  <2>2. QED BY <1>1, <2>1 DEF TypeOK, InFlight, FetchInGroup, GroupInFetch
<1>2. CASE chan[p].ret + 1 \in 0 .. retryMax /\ {} \in SUBSET Procs /\ DoChan(p, {}, chan[p].ret + 1)
  BY <1>2, DoChanKeeps
<1>3. QED BY <1>1, <1>2, RetryIsDoChan

(* What fn ends with: a result that is no word of the main servers on an   *)
(* address that is filtered, unless such a kind of reply was believed.     *)
LEMMA MeaningType ==
    ASSUME TypeOK, NEW p \in Procs, NEW kind \in BatchExchange[Q(p)] \cup {"noip"}
    PROVE  Meaning(p, kind) \in Results
<1>1. kind \in {"clean", "mixed", "noip", "error", "text"}
  BY KeyType, BatchReplies DEF Replies
<1>2. QED BY <1>1 DEF Meaning, Results

(* The goroutine of the deferred function is a process.                    *)
LEMMA ContinueFetchType ==
    ASSUME TypeOK, NEW p \in Procs, NEW goOn
    PROVE  ContinueFetch(p, goOn) \in [Procs -> {"idle", "exchange", "query", "wait", "monitor", "done"}]
BY ProcParts, CallProcs DEF TypeOK, ContinueFetch

(* The end of fn stores a result, and a message in the cache or none.      *)
LEMMA EndFetchType ==
    ASSUME TypeOK, NEW p \in Procs, fetch[p] \in Fetches,
           NEW kind \in BatchExchange[Q(p)] \cup {"noip"}, EndFetch(p, kind)
    PROVE  /\ \E f \in Fetches : /\ fetch' = [fetch EXCEPT ![p] = f] /\ f.res = Meaning(p, kind)
                                 /\ f.waiters = fetch[p].waiters /\ f.shared = fetch[p].shared
                                 /\ f.retryNum = fetch[p].retryNum
           /\ cache' \in [Questions -> Cached \cup {None}]
           /\ \A q \in Questions : cache'[q] = cache[q] \/ cache'[q] = [msg |-> Meaning(p, kind), expired |-> FALSE]
<1> DEFINE f == [fetch[p] EXCEPT !.res = Meaning(p, kind)]
<1>1. Meaning(p, kind) \in Results /\ Q(p) \in Questions
  BY MeaningType, KeyType
<1>2. f \in Fetches /\ f.res = Meaning(p, kind) /\ f.waiters = fetch[p].waiters
      /\ f.shared = fetch[p].shared /\ f.retryNum = fetch[p].retryNum
  BY <1>1 DEF Fetches
<1>3. fetch' = [fetch EXCEPT ![p] = f]
  BY DEF EndFetch, TypeOK
<1>4. cache' = cache \/ cache' = [cache EXCEPT ![Q(p)] = [msg |-> Meaning(p, kind), expired |-> FALSE]]
  BY DEF EndFetch, PutMsgToCache
<1>5. [msg |-> Meaning(p, kind), expired |-> FALSE] \in Cached
  BY <1>1 DEF Cached
<1>6. cache \in [Questions -> Cached \cup {None}]
  BY DEF TypeOK
<1> HIDE DEF f
<1>7. QED BY <1>1, <1>2, <1>3, <1>4, <1>5, <1>6

(* No step of fn, of the group or of a caller leaves its type or parts a   *)
(* flight from its key.                                                    *)
LEMMA TypesInductive ==
    ASSUME TypeOK, InFlight, [Next]_vars
    PROVE  TypeOK' /\ InFlight'
<1> USE DEF setup
<1>a. /\ question \in [Calls -> Questions] /\ resolver \in [Calls -> Resolvers]
      /\ cache \in [Questions -> Cached \cup {None}]
      /\ group \in [Keys -> Procs \cup {None}]
      /\ fetch \in [Procs -> Fetches \cup {None}]
      /\ chan \in [Procs -> Sent \cup {None}]
      /\ pc \in [Procs -> {"idle", "exchange", "query", "wait", "monitor", "done"}]
      /\ answer \in [Calls -> Results \cup {None}]
  BY DEF TypeOK
<1>b. ASSUME UNCHANGED <<setup, group, fetch>> PROVE InFlight'
  BY <1>b DEF InFlight, FetchInGroup, GroupInFetch, Key, Q
<1>1. ASSUME NEW c \in Calls, Exchange(c) PROVE TypeOK' /\ InFlight'
  <2>1. answer' \in [Calls -> Results \cup {None}]
    BY <1>1, <1>a, ProcParts, CallProcs, KeyType DEF Exchange, Tell, ContinueFetch, Cached, Sent, Results
  <2>2. pc' \in [Procs -> {"idle", "exchange", "query", "wait", "monitor", "done"}]
    <3> DEFINE p == <<c, "call">>
    <3>1. p \in Procs
      BY CallProcs
    <3>2. \/ pc' = [pc EXCEPT ![p] = "query"]
          \/ pc' = ContinueFetch(p, cache[Q(p)].expired)
      BY <1>1 DEF Exchange
    <3> HIDE DEF p
    <3>3. QED BY <1>a, <3>1, <3>2, ContinueFetchType
  <2>3. QED BY <1>1, <1>a, <1>b, <2>1, <2>2 DEF Exchange, TypeOK
<1>2. ASSUME NEW p \in Procs, Query(p) PROVE TypeOK' /\ InFlight'
  <2>1. {p} \in SUBSET Procs /\ 0 \in 0 .. retryMax
    BY DEF retryMax
  <2>2. /\ group' \in [Keys -> Procs \cup {None}] /\ fetch' \in [Procs -> Fetches \cup {None}]
        /\ InFlight'
    BY <1>2, <2>1, DoChanKeeps DEF Query
  <2>3. QED BY <1>2, <1>a, <2>2 DEF Query, TypeOK
<1>3. ASSUME NEW p \in Procs, Ask(p) PROVE TypeOK' /\ InFlight'
  <2>1. fetch[p] \in Fetches /\ Q(p) \in Questions
    BY <1>3, <1>a, KeyType DEF Ask
  <2>2. /\ \E f \in Fetches : fetch' = [fetch EXCEPT ![p] = f]
        /\ cache' \in [Questions -> Cached \cup {None}]
    <3>1. PICK kind \in BatchExchange[Q(p)] :
             \/ fetch' = [fetch EXCEPT ![p].from = "fallback"] /\ UNCHANGED cache
             \/ EndFetch(p, kind)
      BY <1>3 DEF Ask
    <3>2. CASE fetch' = [fetch EXCEPT ![p].from = "fallback"] /\ UNCHANGED cache
      <4>1. [fetch[p] EXCEPT !.from = "fallback"] \in Fetches
        BY <2>1 DEF Fetches
      <4>2. fetch' = [fetch EXCEPT ![p] = [fetch[p] EXCEPT !.from = "fallback"]]
        BY <3>2, <1>a
      <4>3. QED BY <1>a, <3>2, <4>1, <4>2
    <3>3. CASE EndFetch(p, kind)
      BY <3>3, <2>1, EndFetchType
    <3>4. QED BY <3>1, <3>2, <3>3
  <2>3. fetch' \in [Procs -> Fetches \cup {None}] /\ \A r \in Procs : fetch'[r] # None <=> fetch[r] # None
    BY <1>a, <2>1, <2>2, NoneAssumption
  <2>4. InFlight'
    BY <1>3, <1>a, <2>3 DEF Ask, InFlight, FetchInGroup, GroupInFetch, Key, Q
  <2>5. QED BY <1>3, <1>a, <2>2, <2>3, <2>4 DEF Ask, TypeOK
<1>4. ASSUME NEW p \in Procs, AskRCode(p) PROVE TypeOK' /\ InFlight'
  <2>1. fetch[p] \in Fetches /\ Q(p) \in Questions
    BY <1>4, <1>a, KeyType DEF AskRCode
  <2>2. /\ \E f \in Fetches : fetch' = [fetch EXCEPT ![p] = f]
        /\ cache' \in [Questions -> Cached \cup {None}]
    <3>1. CASE IsIPRequest(Q(p))
      <4>1. EndFetch(p, "noip")
        BY <1>4, <3>1 DEF AskRCode
      <4>2. QED BY <2>1, <4>1, EndFetchType
    <3>2. CASE ~IsIPRequest(Q(p))
      <4>1. fetch' = [fetch EXCEPT ![p].res = "text"] /\ UNCHANGED cache
        BY <1>4, <3>2 DEF AskRCode
      <4>2. [fetch[p] EXCEPT !.res = "text"] \in Fetches
        BY <2>1 DEF Fetches, Results
      <4>3. fetch' = [fetch EXCEPT ![p] = [fetch[p] EXCEPT !.res = "text"]]
        BY <4>1, <1>a
      <4>4. QED BY <1>a, <4>1, <4>2, <4>3
    <3>3. QED BY <3>1, <3>2
  <2>3. fetch' \in [Procs -> Fetches \cup {None}] /\ \A r \in Procs : fetch'[r] # None <=> fetch[r] # None
    BY <1>a, <2>1, <2>2, NoneAssumption
  <2>4. InFlight'
    BY <1>4, <1>a, <2>3 DEF AskRCode, InFlight, FetchInGroup, GroupInFetch, Key, Q
  <2>5. QED BY <1>4, <1>a, <2>2, <2>3, <2>4 DEF AskRCode, TypeOK
<1>5. ASSUME NEW p \in Procs, Land(p) PROVE TypeOK' /\ InFlight'
  <2>1. fetch[p] \in Fetches /\ fetch[p].res \in Results /\ Key(p) \in Keys
    BY <1>5, <1>a, KeyType DEF Land, Fetches
  <2>2. [val |-> fetch[p].res, shared |-> fetch[p].shared /\ fetch[p].res = "error", ret |-> fetch[p].retryNum] \in Sent
    BY <2>1 DEF Fetches, Sent
  <2>3. chan' \in [Procs -> Sent \cup {None}]
    BY <1>5, <1>a, <2>2 DEF Land
  <2>4. /\ group' = [group EXCEPT ![Key(p)] = None] /\ fetch' = [fetch EXCEPT ![p] = None]
        /\ UNCHANGED <<question, resolver>>
    BY <1>5 DEF Land
  <2>5. \A r \in Procs : Key(r)' = Key(r) /\ Key(r) \in Keys
    BY <2>4, KeyType DEF Key, Q
  <2>6. InFlight'
    BY <1>5, <1>a, <2>1, <2>4, <2>5, NoneAssumption DEF Land, InFlight, FetchInGroup, GroupInFetch
  <2>7. QED BY <1>5, <1>a, <2>3, <2>4, <2>6 DEF Land, TypeOK
<1>6. ASSUME NEW p \in Procs, Receive(p) PROVE TypeOK' /\ InFlight'
  <2>1. answer' \in [Calls -> Results \cup {None}]
    BY <1>6, <1>a, ProcParts, CallProcs, KeyType DEF Receive, Tell, ContinueFetch, Cached, Sent, Results
  <2>2. pc' \in [Procs -> {"idle", "exchange", "query", "wait", "monitor", "done"}]
    BY <1>6, <1>a, ProcParts, CallProcs, ContinueFetchType DEF Receive
  <2>3. /\ group' \in [Keys -> Procs \cup {None}] /\ fetch' \in [Procs -> Fetches \cup {None}]
        /\ InFlight'
    BY <1>6, RetryKeeps DEF Receive
  <2>4. QED BY <1>6, <1>a, <2>1, <2>2, <2>3 DEF Receive, TypeOK
<1>7. ASSUME NEW p \in Procs, Monitor(p) PROVE TypeOK' /\ InFlight'
  <2>1. /\ group' \in [Keys -> Procs \cup {None}] /\ fetch' \in [Procs -> Fetches \cup {None}]
        /\ InFlight'
    BY <1>7, RetryKeeps DEF Monitor
  <2>2. QED BY <1>7, <1>a, <2>1 DEF Monitor, TypeOK
<1>8. ASSUME NEW p \in Procs, GiveUp(p) PROVE TypeOK' /\ InFlight'
  <2>1. answer' \in [Calls -> Results \cup {None}]
    BY <1>8, <1>a, ProcParts, CallProcs, KeyType DEF GiveUp, Tell, ContinueFetch, Cached, Sent, Results
  <2>2. pc' \in [Procs -> {"idle", "exchange", "query", "wait", "monitor", "done"}]
    BY <1>8, <1>a, ProcParts, CallProcs, ContinueFetchType DEF GiveUp
  <2>3. QED BY <1>8, <1>a, <1>b, <2>1, <2>2 DEF GiveUp, TypeOK
<1>9. ASSUME NEW q \in Questions, Expire(q) PROVE TypeOK' /\ InFlight'
  <2>1. [cache[q] EXCEPT !.expired = TRUE] \in Cached
    BY <1>9, <1>a DEF Expire, Cached
  <2>2. cache' = [cache EXCEPT ![q] = [cache[q] EXCEPT !.expired = TRUE]]
    BY <1>9, <1>a DEF Expire
  <2>3. QED BY <1>9, <1>a, <1>b, <2>1, <2>2 DEF Expire, TypeOK
<1>10. ASSUME TakeA PROVE TypeOK' /\ InFlight'
  BY <1>10, <1>a, <1>b DEF TakeA, LookupReturns, TypeOK
<1>11. ASSUME TakeAAAA PROVE TypeOK' /\ InFlight'
  BY <1>11, <1>a, <1>b DEF TakeAAAA, LookupReturns, TypeOK
<1>12. ASSUME WaitIPv6Ends PROVE TypeOK' /\ InFlight'
  BY <1>12, <1>a, <1>b DEF WaitIPv6Ends, LookupReturns, TypeOK
<1>13. ASSUME UNCHANGED vars PROVE TypeOK' /\ InFlight'
  BY <1>13, <1>b DEF vars, TypeOK
<1>14. QED
  BY <1>1, <1>2, <1>3, <1>4, <1>5, <1>6, <1>7, <1>8, <1>9, <1>10, <1>11, <1>12, <1>13
  DEF Next, Progress

-----------------------------------------------------------------------------
(* What flights bring is never suspect; one retry at most leads to one; a  *)
(* flight of a retry has nobody who waits unless it was joined, and those  *)
(* who joined one share its error: so nobody retries a retry.              *)
FetchFits(f) == f.res # "suspect" /\ f.retryNum <= 1 /\ (f.shared \/ f.waiters = {} \/ f.retryNum = 0)
SentFits(m) == m.val # "suspect" /\ (m.val # "error" \/ m.shared \/ m.ret = 0)

FetchesFit == \A p \in Procs : fetch[p] # None => FetchFits(fetch[p])
ChansFit == \A p \in Procs : chan[p] # None => SentFits(chan[p])
AnswersFit == \A c \in Calls : answer[c] # "suspect"
CacheFits == \A q \in Questions : cache[q] # None => cache[q].msg # "suspect"
FlightsFit == FetchesFit /\ ChansFit /\ AnswersFit /\ CacheFits

(* This holds of the flight a DoChan starts, or joins.                     *)
LEMMA DoChanFits ==
    ASSUME TypeOK, InFlight, FetchesFit, NEW p \in Procs,
           NEW W \in SUBSET Procs, NEW n \in 0 .. 1, W = {} \/ n = 0, DoChan(p, W, n)
    PROVE  FetchesFit'
<1>1. /\ fetch \in [Procs -> Fetches \cup {None}] /\ n \in 0 .. retryMax
      /\ None \notin Fetches /\ None # "suspect"
  BY NoneAssumption DEF TypeOK, retryMax, Results
<1>2. CASE Starts(p, W, n)
  BY <1>1, <1>2 DEF Starts, FetchesFit, FetchFits
<1>3. CASE Joins(W)
  BY <1>1, <1>3 DEF Joins, FetchesFit, FetchFits
<1>4. QED BY <1>1, <1>2, <1>3, DoChanCases

(* A retry is the first one. *)
LEMMA RetryFits ==
    ASSUME TypeOK, InFlight, FetchesFit, ChansFit, NEW p \in Procs, chan[p] # None, Retry(p)
    PROVE  FetchesFit'
<1>1. chan[p] \in Sent /\ SentFits(chan[p])
  BY DEF TypeOK, ChansFit
<1>2. CASE UNCHANGED <<group, fetch>>
  BY <1>2 DEF FetchesFit, FetchFits
<1>3. CASE /\ chan[p].val = "error" /\ ~chan[p].shared
           /\ chan[p].ret + 1 \in 0 .. retryMax /\ {} \in SUBSET Procs
           /\ DoChan(p, {}, chan[p].ret + 1)
  <2>1. chan[p].ret + 1 = 1
    BY <1>1, <1>3 DEF SentFits, Sent
  <2>2. DoChan(p, {}, 1) /\ 1 \in 0 .. 1 /\ {} \in SUBSET Procs
    BY <1>3, <2>1
  <2>3. QED BY <2>2, DoChanFits
<1>4. QED BY <1>2, <1>3, RetryIsDoChan

(* ipExchange, and the branch for other questions: what fn ends with is    *)
(* never suspect, because a reply that a filter matches, of servers that   *)
(* others may correct, is not what it ends with.                           *)
LEMMA AskNotSuspect ==
    ASSUME TypeOK, InFlight, NEW p \in Procs, NEW kind \in BatchExchange[Q(p)],
           ~(fetch[p].from = "main" /\ conf = "main, fallback" /\ IsIPRequest(Q(p)) /\ ~ShouldNotFallback(kind))
    PROVE  Meaning(p, kind) # "suspect"
<1>1. kind \in Replies(Q(p))
  BY KeyType, BatchReplies
<1>2. kind = "mixed" => IsIPRequest(Q(p))
  BY <1>1 DEF Replies
<1>3. kind \in {"clean", "mixed", "noip", "error", "text"}
  BY <1>1 DEF Replies
<1>4. QED BY <1>2, <1>3 DEF Meaning, ShouldNotFallback

(* fn ends, and caches, with what is not suspect.                          *)
LEMMA EndFetchFits ==
    ASSUME TypeOK, FlightsFit, NEW p \in Procs, fetch[p] \in Fetches, fetch[p] # None,
           NEW kind \in BatchExchange[Q(p)] \cup {"noip"}, EndFetch(p, kind), Meaning(p, kind) # "suspect"
    PROVE  FetchesFit' /\ CacheFits'
<1>1. PICK f \in Fetches : /\ fetch' = [fetch EXCEPT ![p] = f] /\ f.res = Meaning(p, kind)
                           /\ f.waiters = fetch[p].waiters /\ f.shared = fetch[p].shared
                           /\ f.retryNum = fetch[p].retryNum
  BY EndFetchType
<1>2. FetchesFit'
  BY <1>1 DEF TypeOK, FlightsFit, FetchesFit, FetchFits
<1>3. \A q \in Questions : cache'[q] = cache[q] \/ cache'[q] = [msg |-> Meaning(p, kind), expired |-> FALSE]
  BY EndFetchType
<1>4. CacheFits'
  BY <1>3 DEF FlightsFit, CacheFits
<1>5. QED BY <1>2, <1>4

(* No interleaving of exchanges, flights, retries and monitors lets a      *)
(* suspect result through, or a second retry.                              *)
LEMMA FlightsFitInductive ==
    ASSUME TypeOK, InFlight, FlightsFit, [Next]_vars
    PROVE  FlightsFit'
<1>a. /\ cache \in [Questions -> Cached \cup {None}]
      /\ fetch \in [Procs -> Fetches \cup {None}]
      /\ chan \in [Procs -> Sent \cup {None}]
      /\ answer \in [Calls -> Results \cup {None}]
      /\ None \notin Fetches /\ None # "suspect"
  BY NoneAssumption DEF TypeOK, Results
<1>1. ASSUME NEW c \in Calls, Exchange(c) PROVE FlightsFit'
  <2> DEFINE p == <<c, "call">>
  <2>1. p \in Procs /\ Q(p) \in Questions /\ p[1] = c
    BY CallProcs, KeyType
  <2>2. \/ UNCHANGED answer
        \/ cache[Q(p)] # None /\ answer' = Tell(p, cache[Q(p)].msg)
    BY <1>1 DEF Exchange
  <2> HIDE DEF p
  <2>3. AnswersFit'
    BY <1>a, <2>1, <2>2 DEF Tell, FlightsFit, AnswersFit, CacheFits
  <2>4. QED BY <1>1, <2>3 DEF Exchange, FlightsFit, FetchesFit, ChansFit, AnswersFit, CacheFits
<1>2. ASSUME NEW p \in Procs, Query(p) PROVE FlightsFit'
  <2>1. {p} \in SUBSET Procs /\ 0 \in 0 .. 1 /\ DoChan(p, {p}, 0)
    BY <1>2 DEF Query
  <2>2. FetchesFit'
    BY <2>1, DoChanFits DEF FlightsFit
  <2>3. QED BY <1>2, <2>2 DEF Query, FlightsFit, ChansFit, AnswersFit, CacheFits
<1>3. ASSUME NEW p \in Procs, Ask(p) PROVE FlightsFit'
  <2>1. fetch[p] \in Fetches /\ fetch[p] # None
    BY <1>3, <1>a DEF Ask
  <2>2. PICK kind \in BatchExchange[Q(p)] :
           \/ fetch' = [fetch EXCEPT ![p].from = "fallback"] /\ UNCHANGED cache
           \/ /\ EndFetch(p, kind)
              /\ ~(fetch[p].from = "main" /\ conf = "main, fallback" /\ IsIPRequest(Q(p)) /\ ~ShouldNotFallback(kind))
    BY <1>3 DEF Ask
  <2>3. CASE fetch' = [fetch EXCEPT ![p].from = "fallback"] /\ UNCHANGED cache
    <3>1. [fetch[p] EXCEPT !.from = "fallback"] \in Fetches /\ FetchFits([fetch[p] EXCEPT !.from = "fallback"])
      BY <2>1 DEF Fetches, FetchFits, FlightsFit, FetchesFit
    <3>2. fetch' = [fetch EXCEPT ![p] = [fetch[p] EXCEPT !.from = "fallback"]]
      BY <2>3, <1>a
    <3>3. FetchesFit'
      BY <1>a, <3>1, <3>2 DEF FlightsFit, FetchesFit
    <3>4. QED BY <1>3, <2>3, <3>3 DEF Ask, FlightsFit, ChansFit, AnswersFit, CacheFits
  <2>4. CASE /\ EndFetch(p, kind)
             /\ ~(fetch[p].from = "main" /\ conf = "main, fallback" /\ IsIPRequest(Q(p)) /\ ~ShouldNotFallback(kind))
    <3>1. Meaning(p, kind) # "suspect"
      BY <2>4, AskNotSuspect
    <3>2. FetchesFit' /\ CacheFits'
      BY <2>1, <2>4, <3>1, EndFetchFits
    <3>3. QED BY <1>3, <3>2 DEF Ask, FlightsFit, ChansFit, AnswersFit
  <2>5. QED BY <2>2, <2>3, <2>4
<1>4. ASSUME NEW p \in Procs, AskRCode(p) PROVE FlightsFit'
  <2>1. fetch[p] \in Fetches /\ fetch[p] # None
    BY <1>4, <1>a DEF AskRCode
  <2>2. FetchesFit' /\ CacheFits'
    <3>1. CASE IsIPRequest(Q(p))
      <4>1. EndFetch(p, "noip")
        BY <1>4, <3>1 DEF AskRCode
      <4>2. Meaning(p, "noip") # "suspect"
        BY DEF Meaning
      <4>3. QED BY <2>1, <4>1, <4>2, EndFetchFits
    <3>2. CASE ~IsIPRequest(Q(p))
      <4>1. fetch' = [fetch EXCEPT ![p].res = "text"] /\ UNCHANGED cache
        BY <1>4, <3>2 DEF AskRCode
      <4>2. [fetch[p] EXCEPT !.res = "text"] \in Fetches /\ FetchFits([fetch[p] EXCEPT !.res = "text"])
        BY <2>1 DEF Fetches, Results, FetchFits, FlightsFit, FetchesFit
      <4>3. fetch' = [fetch EXCEPT ![p] = [fetch[p] EXCEPT !.res = "text"]]
        BY <4>1, <1>a
      <4>4. QED BY <1>a, <4>1, <4>2, <4>3 DEF FlightsFit, FetchesFit, CacheFits
    <3>3. QED BY <3>1, <3>2
  <2>3. QED BY <1>4, <2>2 DEF AskRCode, FlightsFit, ChansFit, AnswersFit
<1>5. ASSUME NEW p \in Procs, Land(p) PROVE FlightsFit'
  <2>1. fetch[p] \in Fetches /\ FetchFits(fetch[p])
    BY <1>5, <1>a DEF Land, FlightsFit, FetchesFit
  <2> DEFINE m == [val |-> fetch[p].res, shared |-> fetch[p].shared /\ fetch[p].res = "error", ret |-> fetch[p].retryNum]
  <2>2. \A w \in Procs : chan'[w] = chan[w] \/ (w \in fetch[p].waiters /\ chan'[w] = m)
    BY <1>5 DEF Land, Waits
  <2>3. fetch[p].waiters # {} => SentFits(m)
    BY <2>1 DEF FetchFits, SentFits
  <2>4. \A r \in Procs : fetch'[r] = fetch[r] \/ fetch'[r] = None
    BY <1>5, <1>a DEF Land
  <2>5. UNCHANGED <<answer, cache>>
    BY <1>5 DEF Land
  <2> HIDE DEF m
  <2>6. QED BY <2>2, <2>3, <2>4, <2>5 DEF FlightsFit, FetchesFit, ChansFit, AnswersFit, CacheFits
<1>6. ASSUME NEW p \in Procs, Receive(p) PROVE FlightsFit'
  <2>1. AnswersFit'
    BY <1>6, <1>a, ProcParts DEF Receive, Tell, FlightsFit, AnswersFit, ChansFit, SentFits
  <2>2. FetchesFit'
    BY <1>6, RetryFits DEF Receive, FlightsFit
  <2>3. ChansFit' /\ CacheFits'
    BY <1>6, <1>a DEF Receive, FlightsFit, ChansFit, CacheFits
  <2>4. QED BY <2>1, <2>2, <2>3 DEF FlightsFit
<1>7. ASSUME NEW p \in Procs, Monitor(p) PROVE FlightsFit'
  <2>1. FetchesFit'
    BY <1>7, RetryFits DEF Monitor, FlightsFit
  <2>2. QED BY <1>7, <1>a, <2>1 DEF Monitor, FlightsFit, ChansFit, AnswersFit, CacheFits
<1>8. ASSUME NEW p \in Procs, GiveUp(p) PROVE FlightsFit'
  <2>1. AnswersFit'
    BY <1>8, <1>a, ProcParts DEF GiveUp, Tell, FlightsFit, AnswersFit
  <2>2. QED BY <1>8, <2>1 DEF GiveUp, FlightsFit, FetchesFit, ChansFit, AnswersFit, CacheFits
<1>9. ASSUME NEW q \in Questions, Expire(q) PROVE FlightsFit'
  <2>1. cache[q] \in Cached /\ cache[q] # None /\ cache' = [cache EXCEPT ![q] = [cache[q] EXCEPT !.expired = TRUE]]
    BY <1>9, <1>a DEF Expire
  <2>2. [cache[q] EXCEPT !.expired = TRUE].msg = cache[q].msg
    BY <2>1 DEF Cached
  <2>3. CacheFits'
    BY <1>a, <2>1, <2>2 DEF FlightsFit, CacheFits
  <2>4. QED BY <1>9, <2>3 DEF Expire, FlightsFit, FetchesFit, ChansFit, AnswersFit
<1>10. ASSUME TakeA PROVE FlightsFit'
  BY <1>10 DEF TakeA, LookupReturns, FlightsFit, FetchesFit, ChansFit, AnswersFit, CacheFits
<1>11. ASSUME TakeAAAA PROVE FlightsFit'
  BY <1>11 DEF TakeAAAA, LookupReturns, FlightsFit, FetchesFit, ChansFit, AnswersFit, CacheFits
<1>12. ASSUME WaitIPv6Ends PROVE FlightsFit'
  BY <1>12 DEF WaitIPv6Ends, LookupReturns, FlightsFit, FetchesFit, ChansFit, AnswersFit, CacheFits
<1>13. ASSUME UNCHANGED vars PROVE FlightsFit'
  BY <1>13 DEF vars, FlightsFit, FetchesFit, ChansFit, AnswersFit, CacheFits
<1>14. QED
  BY <1>1, <1>2, <1>3, <1>4, <1>5, <1>6, <1>7, <1>8, <1>9, <1>10, <1>11, <1>12, <1>13
  DEF Next, Progress

-----------------------------------------------------------------------------
(* A call that has not ended has no answer; one outside the behaviour      *)
(* never starts.                                                           *)
Unanswered == \A c \in Calls : pc[<<c, "call">>] \in {"idle", "exchange", "query", "wait"} => answer[c] = None

CallsKeep ==
    /\ Unanswered'
    /\ \A c \in Calls : answer[c] # None => answer'[c] = answer[c]
    /\ \A c \in Calls : pc[<<c, "call">>] = "idle" => pc'[<<c, "call">>] = "idle"

(* Where the halves of the lookup are at each of its steps.                *)
LookupFits ==
    /\ lookup \in [of : {"none", "LookupIPv4", "LookupIP", "LookupIPPrimaryIPv4"},
                   at : {"none", "a", "aaaa", "returned"}, ips : SUBSET {Lookup4, Lookup6}, err : BOOLEAN]
    /\ lookup.at # "none" => lookup.of # "none"
    /\ lookup.at \in {"aaaa", "returned"} => Returned(Lookup4)
    /\ lookup.at = "aaaa" => lookup.of # "LookupIPv4"
    /\ lookup.at = "aaaa" /\ lookup.of = "LookupIPPrimaryIPv4" => ~Found(Lookup4)
    /\ lookup.of = "LookupIPv4" => pc[<<Lookup6, "call">>] = "idle"

(* The halves of the lookup are two calls. *)
LEMMA LookupCalls ==
    /\ Lookup4 \in Calls /\ Lookup6 \in Calls /\ Lookup4 # Lookup6
    /\ <<Lookup6, "call">> \in Procs
BY CallAssumption DEF Calls, Procs

(* What the deferred goroutine changes: a call ends.                       *)
LEMMA ContinueFetchEnds ==
    ASSUME TypeOK, NEW p \in Procs, NEW goOn, NEW c \in Calls
    PROVE  ContinueFetch(p, goOn)[<<c, "call">>] = IF p = <<c, "call">> THEN "done" ELSE pc[<<c, "call">>]
<1>1. <<c, "call">> \in Procs /\ <<p[1], "again">> \in Procs /\ <<p[1], "again">> # <<c, "call">>
  BY ProcParts, CallProcs
<1>2. pc \in [Procs -> {"idle", "exchange", "query", "wait", "monitor", "done"}]
  BY DEF TypeOK
<1>3. QED BY <1>1, <1>2 DEF ContinueFetch

(* ExchangeContext returns once.                                           *)
LEMMA CallsKept ==
    ASSUME TypeOK, Unanswered, [Next]_vars
    PROVE  CallsKeep
<1>a. /\ answer \in [Calls -> Results \cup {None}]
      /\ pc \in [Procs -> {"idle", "exchange", "query", "wait", "monitor", "done"}]
      /\ \A c \in Calls : <<c, "call">> \in Procs /\ <<c, "call">>[1] = c /\ <<c, "call">>[2] = "call"
      /\ \A c \in Calls : \A p \in Procs : p[1] = c /\ p[2] = "call" => p = <<c, "call">>
  BY ProcParts, CallProcs DEF TypeOK
<1>b. \A p \in Procs : p[1] \in Calls
  BY ProcParts
<1>c. ASSUME UNCHANGED <<answer, pc>> PROVE CallsKeep
  BY <1>c DEF CallsKeep, Unanswered
<1>1. ASSUME NEW c \in Calls, Exchange(c) PROVE CallsKeep
  <2> DEFINE p == <<c, "call">>
  <2>1. p \in Procs /\ p[1] = c /\ p[2] = "call"
    BY <1>a
  <2>2. CASE cache[Q(p)] = None
    BY <1>1, <1>a, <2>1, <2>2 DEF Exchange, CallsKeep, Unanswered
  <2>3. CASE cache[Q(p)] # None
    <3>1. answer' = Tell(p, cache[Q(p)].msg) /\ pc' = ContinueFetch(p, cache[Q(p)].expired)
      BY <1>1, <2>3 DEF Exchange
    <3>2. answer[c] = None /\ pc[p] = "exchange" /\ p = <<c, "call">>
      BY <1>1 DEF Exchange, Unanswered
    <3> HIDE DEF p
    <3>3. \A d \in Calls : pc'[<<d, "call">>] = IF p = <<d, "call">> THEN "done" ELSE pc[<<d, "call">>]
      <4>1. PICK goOn : pc' = ContinueFetch(p, goOn)
        BY <3>1
      <4>2. \A d \in Calls : ContinueFetch(p, goOn)[<<d, "call">>] = IF p = <<d, "call">> THEN "done" ELSE pc[<<d, "call">>]
        BY <2>1, ContinueFetchEnds
      <4>3. QED BY <4>1, <4>2
    <3>4. \A d \in Calls : d # c => answer'[d] = answer[d] /\ p # <<d, "call">>
      BY <1>a, <2>1, <3>1 DEF Tell
    <3>5. QED BY <3>2, <3>3, <3>4 DEF CallsKeep, Unanswered
  <2>4. QED BY <2>2, <2>3
<1>2. ASSUME NEW p \in Procs, Query(p) PROVE CallsKeep
  <2>1. UNCHANGED answer /\ pc[p] = "query" /\ pc' = [pc EXCEPT ![p] = "wait"]
    BY <1>2 DEF Query
  <2>2. QED BY <1>a, <2>1 DEF CallsKeep, Unanswered
<1>3. ASSUME NEW p \in Procs, Ask(p) PROVE CallsKeep
  BY <1>3, <1>c DEF Ask
<1>4. ASSUME NEW p \in Procs, AskRCode(p) PROVE CallsKeep
  BY <1>4, <1>c DEF AskRCode
<1>5. ASSUME NEW p \in Procs, Land(p) PROVE CallsKeep
  BY <1>5, <1>c DEF Land
<1>6. ASSUME NEW p \in Procs, Receive(p) PROVE CallsKeep
  <2>1. PICK goOn : pc' = ContinueFetch(p, goOn)
    BY <1>6 DEF Receive
  <2>2. \A d \in Calls : pc'[<<d, "call">>] = IF p = <<d, "call">> THEN "done" ELSE pc[<<d, "call">>]
    BY <2>1, ContinueFetchEnds
  <2>3. \A d \in Calls : p # <<d, "call">> => answer'[d] = answer[d]
    BY <1>6, <1>a, <1>b DEF Receive, Tell
  <2>4. \A d \in Calls : p = <<d, "call">> => pc[<<d, "call">>] = "wait" /\ answer[d] = None
    BY <1>6 DEF Receive, Unanswered
  <2>5. QED BY <2>2, <2>3, <2>4 DEF CallsKeep, Unanswered
<1>7. ASSUME NEW p \in Procs, Monitor(p) PROVE CallsKeep
  <2>1. UNCHANGED answer /\ pc[p] = "monitor" /\ pc' = [pc EXCEPT ![p] = "done"]
    BY <1>7 DEF Monitor
  <2>2. QED BY <1>a, <2>1 DEF CallsKeep, Unanswered
<1>8. ASSUME NEW p \in Procs, GiveUp(p) PROVE CallsKeep
  <2>1. pc[p] = "wait" /\ pc' = [ContinueFetch(p, TRUE) EXCEPT ![p] = "monitor"]
    BY <1>8 DEF GiveUp
  <2>2. \A d \in Calls : pc'[<<d, "call">>] = IF p = <<d, "call">> THEN "monitor" ELSE pc[<<d, "call">>]
    <3>1. ContinueFetch(p, TRUE) \in [Procs -> {"idle", "exchange", "query", "wait", "monitor", "done"}]
      BY ContinueFetchType
    <3>2. \A d \in Calls : ContinueFetch(p, TRUE)[<<d, "call">>] = IF p = <<d, "call">> THEN "done" ELSE pc[<<d, "call">>]
      BY ContinueFetchEnds
    <3>3. QED BY <1>a, <2>1, <3>1, <3>2
  <2>3. \A d \in Calls : p # <<d, "call">> => answer'[d] = answer[d]
    BY <1>8, <1>a, <1>b DEF GiveUp, Tell
  <2>4. \A d \in Calls : p = <<d, "call">> => pc[<<d, "call">>] = "wait" /\ answer[d] = None
    BY <2>1 DEF Unanswered
  <2>5. QED BY <2>2, <2>3, <2>4 DEF CallsKeep, Unanswered
<1>9. ASSUME NEW q \in Questions, Expire(q) PROVE CallsKeep
  BY <1>9, <1>c DEF Expire
<1>10. ASSUME TakeA PROVE CallsKeep
  BY <1>10, <1>c DEF TakeA, LookupReturns
<1>11. ASSUME TakeAAAA PROVE CallsKeep
  BY <1>11, <1>c DEF TakeAAAA, LookupReturns
<1>12. ASSUME WaitIPv6Ends PROVE CallsKeep
  BY <1>12, <1>c DEF WaitIPv6Ends, LookupReturns
<1>13. ASSUME UNCHANGED vars PROVE CallsKeep
  BY <1>13, <1>c DEF vars
<1>14. QED
  BY <1>1, <1>2, <1>3, <1>4, <1>5, <1>6, <1>7, <1>8, <1>9, <1>10, <1>11, <1>12, <1>13
  DEF Next, Progress

(* Whatever calls return late, the lookup keeps its halves' answers.       *)
LEMMA LookupInductive ==
    ASSUME TypeOK, Unanswered, LookupFits, LookupSound, [Next]_vars
    PROVE  LookupFits' /\ LookupSound'
<1>1. CallsKeep /\ Lookup4 \in Calls /\ Lookup6 \in Calls /\ Lookup4 # Lookup6
  BY CallsKept, LookupCalls
<1>2. CASE UNCHANGED lookup
  <2>1. \A c \in {Lookup4, Lookup6} : Returned(c) => Returned(c)' /\ (Found(c)' <=> Found(c))
    BY <1>1 DEF CallsKeep, Returned, Found
  <2>2. LookupFits'
    BY <1>1, <1>2, <2>1 DEF LookupFits, CallsKeep
  <2>3. pc[<<Lookup6, "call">>] = "idle" => ~Returned(Lookup6)' /\ ~Found(Lookup6)'
    BY <1>1 DEF CallsKeep, Unanswered, Returned, Found
  <2>4. LookupSound'
    BY <1>2, <2>1, <2>3 DEF LookupSound, LookupFits
  <2>5. QED BY <2>2, <2>4
<1>3. ASSUME NEW ips \in SUBSET {Lookup4, Lookup6}, NEW err \in BOOLEAN, LookupReturns(ips, err),
             lookup.at \in {"a", "aaaa"}, Returned(Lookup4)
      PROVE  /\ LookupFits' /\ UNCHANGED answer
             /\ lookup'.at = "returned" /\ lookup'.of = lookup.of /\ lookup'.ips = ips /\ lookup'.err = err
  BY <1>3 DEF LookupReturns, LookupFits, Returned, Found
<1>4. /\ {c \in {Lookup4} : Found(c)} \in SUBSET {Lookup4, Lookup6} /\ {Lookup4} \in SUBSET {Lookup4, Lookup6}
      /\ {c \in {Lookup4, Lookup6} : Found(c)} \in SUBSET {Lookup4, Lookup6}
      /\ {} \in SUBSET {Lookup4, Lookup6} /\ (~Found(Lookup4)) \in BOOLEAN
  OBVIOUS
<1>5. Cardinality({}) <= 1 /\ Cardinality({Lookup4}) <= 1 /\ Cardinality({Lookup6}) <= 1
  <2>1. Cardinality({}) = 0
    BY FS_EmptySet
  <2>2. Cardinality({Lookup4}) = 1 /\ Cardinality({Lookup6}) = 1
    BY FS_Singleton
  <2>3. QED BY <2>1, <2>2
<1>6. lookup.of = "LookupIPv4" => ~Found(Lookup6)
  BY <1>1 DEF LookupFits, Unanswered, Returned, Found
<1>7. CASE TakeA
  <2>1. lookup.at = "a" /\ Returned(Lookup4)
    BY <1>7 DEF TakeA
  <2>2. CASE lookup.of = "LookupIPv4"
    <3>1. LookupReturns({c \in {Lookup4} : Found(c)}, ~Found(Lookup4))
      BY <1>7, <2>2 DEF TakeA
    <3>2. /\ LookupFits' /\ UNCHANGED answer /\ lookup'.of = lookup.of
          /\ lookup'.ips = {c \in {Lookup4} : Found(c)} /\ lookup'.err = ~Found(Lookup4)
      BY <1>3, <1>4, <2>1, <3>1
    <3>3. QED BY <1>6, <2>1, <2>2, <3>2 DEF LookupSound, Returned, Found
  <2>3. CASE lookup.of = "LookupIPPrimaryIPv4" /\ Found(Lookup4)
    <3>1. LookupReturns({Lookup4}, FALSE)
      BY <1>7, <2>3 DEF TakeA
    <3>2. /\ LookupFits' /\ UNCHANGED answer /\ lookup'.of = lookup.of
          /\ lookup'.ips = {Lookup4} /\ lookup'.err = FALSE
      BY <1>3, <1>4, <2>1, <3>1
    <3>3. QED BY <1>5, <2>1, <2>3, <3>2 DEF LookupSound, Returned, Found
  <2>4. CASE lookup.of # "LookupIPv4" /\ ~(lookup.of = "LookupIPPrimaryIPv4" /\ Found(Lookup4))
    <3>1. lookup' = [lookup EXCEPT !.at = "aaaa"] /\ UNCHANGED <<answer, pc>>
      BY <1>7, <2>4 DEF TakeA
    <3>2. QED BY <2>1, <2>4, <3>1 DEF LookupFits, LookupSound, Returned, Found
  <2>5. QED BY <2>2, <2>3, <2>4
<1>8. CASE TakeAAAA
  <2>1. lookup.at = "aaaa" /\ Returned(Lookup6) /\ Returned(Lookup4) /\ lookup.of # "LookupIPv4"
        /\ (lookup.of = "LookupIPPrimaryIPv4" => ~Found(Lookup4))
    BY <1>8 DEF TakeAAAA, LookupFits
  <2>2. CASE ~Found(Lookup6) /\ ~Found(Lookup4)
    <3>1. LookupReturns({}, TRUE)
      BY <1>8, <2>2 DEF TakeAAAA, BothFailed
    <3>2. /\ LookupFits' /\ UNCHANGED answer /\ lookup'.of = lookup.of /\ lookup'.ips = {} /\ lookup'.err = TRUE
      BY <1>3, <1>4, <2>1, <3>1
    <3>3. QED BY <1>5, <2>1, <2>2, <3>2 DEF LookupSound, Returned, Found
  <2>3. CASE Found(Lookup6) \/ Found(Lookup4)
    <3>1. LookupReturns({c \in {Lookup4, Lookup6} : Found(c)}, FALSE)
      BY <1>8, <2>3 DEF TakeAAAA, BothFailed
    <3>2. /\ LookupFits' /\ UNCHANGED answer /\ lookup'.of = lookup.of
          /\ lookup'.ips = {c \in {Lookup4, Lookup6} : Found(c)} /\ lookup'.err = FALSE
      BY <1>3, <1>4, <2>1, <3>1
    <3>3. ~Found(Lookup4) => lookup'.ips = {Lookup6}
      BY <2>3, <3>2
    <3>4. QED BY <1>5, <2>1, <2>3, <3>2, <3>3 DEF LookupSound, Returned, Found
  <2>4. QED BY <2>2, <2>3
<1>9. CASE WaitIPv6Ends
  <2>1. lookup.at = "aaaa" /\ Returned(Lookup4) /\ lookup.of = "LookupIP"
    BY <1>9 DEF WaitIPv6Ends, LookupFits
  <2>2. LookupReturns({c \in {Lookup4} : Found(c)}, FALSE)
    BY <1>9 DEF WaitIPv6Ends
  <2>3. /\ LookupFits' /\ UNCHANGED answer /\ lookup'.of = lookup.of
        /\ lookup'.ips = {c \in {Lookup4} : Found(c)} /\ lookup'.err = FALSE
    BY <1>3, <1>4, <2>1, <2>2
  <2>4. QED BY <2>1, <2>3 DEF LookupSound, Returned, Found
<1>10. [Next]_vars => UNCHANGED lookup \/ TakeA \/ TakeAAAA \/ WaitIPv6Ends
  BY DEF Next, Progress, Exchange, Query, Ask, AskRCode, Land, Receive, Monitor, GiveUp, Expire, vars
<1>11. QED BY <1>2, <1>7, <1>8, <1>9, <1>10

-----------------------------------------------------------------------------
ResolverInvariant == TypeOK /\ InFlight /\ FlightsFit /\ Unanswered /\ LookupFits /\ LookupSound

(* The invariant holds whatever is configured and whoever looks up.        *)
LEMMA InitInvariant ==
    ASSUME Init
    PROVE  ResolverInvariant
<1>1. PICK scenario \in Scenarios, active \in SUBSET Calls :
         /\ (Lookup4 \in active) = (scenario[1] # "none")
         /\ (Lookup6 \in active) = (scenario[1] \in {"LookupIP", "LookupIPPrimaryIPv4"})
         /\ lookup = [of |-> scenario[1], at |-> IF scenario[1] = "none" THEN "none" ELSE "a", ips |-> {}, err |-> FALSE]
         /\ \E q \in IF scenario[1] = "none" THEN {"A", "TXT"} ELSE {"A"} :
               question = [c \in Calls |-> IF c \in Others THEN q ELSE IF c = Lookup6 THEN "AAAA" ELSE "A"]
         /\ resolver = [c \in Calls |-> IF c \in Others THEN scenario[3] ELSE "default"]
         /\ pc = [p \in Procs |-> IF p[1] \in active /\ p[2] = "call" THEN "exchange" ELSE "idle"]
  BY DEF Init
<1>2. scenario[1] \in {"none", "LookupIPv4", "LookupIP", "LookupIPPrimaryIPv4"} /\ scenario[3] \in Resolvers
  BY CallAssumption
<1>3. question \in [Calls -> Questions] /\ resolver \in [Calls -> Resolvers]
  BY <1>1, <1>2 DEF Questions, Resolvers
<1>4. /\ cache = [q \in Questions |-> None] /\ group = [k \in Keys |-> None]
      /\ fetch = [p \in Procs |-> None] /\ chan = [p \in Procs |-> None] /\ answer = [c \in Calls |-> None]
  BY DEF Init, Keys
<1>5. None # "suspect"
  BY NoneAssumption DEF Results
<1>6. TypeOK
  BY <1>1, <1>3, <1>4 DEF TypeOK
<1>7. InFlight /\ FlightsFit
  BY <1>4, <1>5 DEF InFlight, FetchInGroup, GroupInFetch, FlightsFit, FetchesFit, ChansFit, AnswersFit, CacheFits
<1>8. Unanswered
  BY <1>4 DEF Unanswered
<1>9. lookup.of = "LookupIPv4" => pc[<<Lookup6, "call">>] = "idle"
  BY <1>1, LookupCalls
<1>10. LookupFits /\ LookupSound
  BY <1>1, <1>2, <1>9 DEF LookupFits, LookupSound
<1>11. QED BY <1>6, <1>7, <1>8, <1>10 DEF ResolverInvariant

(* ... and every step keeps it. *)
LEMMA Invariance == Spec => []ResolverInvariant
<1>1. ASSUME ResolverInvariant, [Next]_vars PROVE ResolverInvariant'
  <2>1. TypeOK' /\ InFlight'
    BY <1>1, TypesInductive DEF ResolverInvariant
  <2>2. FlightsFit'
    BY <1>1, FlightsFitInductive DEF ResolverInvariant
  <2>3. Unanswered'
    BY <1>1, CallsKept DEF ResolverInvariant, CallsKeep
  <2>4. LookupFits' /\ LookupSound'
    BY <1>1, LookupInductive DEF ResolverInvariant
  <2>5. QED BY <2>1, <2>2, <2>3, <2>4 DEF ResolverInvariant
<1>2. QED BY InitInvariant, <1>1, PTL DEF Spec

(* ExchangeContext, its cache and its retries: what a fallback filter      *)
(* matches on the word of the main servers reaches no caller and no cache. *)
THEOREM FilteredCorrect == Spec => []FilteredNotFromMain
<1>1. ResolverInvariant => FilteredNotFromMain
  BY DEF ResolverInvariant, FlightsFit, AnswersFit, CacheFits, FilteredNotFromMain
<1>2. QED BY Invariance, <1>1, PTL

(* singleflight and exchangeWithoutCache: one flight a key, and no retry   *)
(* of a retry.                                                             *)
THEOREM SparedCorrect == Spec => []ServersSpared
<1>1. ResolverInvariant => ServersSpared
  BY DEF ResolverInvariant, InFlight, FetchInGroup, FlightsFit, FetchesFit, FetchFits, ServersSpared
<1>2. QED BY Invariance, <1>1, PTL

(* LookupIP and LookupIPPrimaryIPv4: an error only if both halves failed,  *)
(* whatever answers come after the lookup has returned.                    *)
THEOREM LookupCorrect == Spec => []LookupSound
<1>1. ResolverInvariant => LookupSound
  BY DEF ResolverInvariant
<1>2. QED BY Invariance, <1>1, PTL
=============================================================================
