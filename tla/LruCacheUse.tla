---------------------------- MODULE LruCacheUse ----------------------------
(***************************************************************************)
(* One LruCache under every sequence of its operations, with a clock and   *)
(* the history a client could keep: what it last stored under each key,    *)
(* until when that is good, and in which order it touched the keys.        *)
(***************************************************************************)
EXTENDS LruCache, FiniteSets

CONSTANTS
    Key, Val,     \* keys and values
    Opts,         \* the option sets in use
    MaxNow,       \* bound on the clock
    MaxClears     \* bound: calls of Clear

ASSUME OptAssumption ==
    /\ Opts \subseteq [maxSize : Nat, maxAge : Nat, staleReturn : BOOLEAN, updateAgeOnGet : BOOLEAN]
    /\ MaxNow \in Nat /\ MaxClears \in Nat

VARIABLES
    options,   \* the options of this cache
    cache, now,
    clears,    \* calls of Clear so far
    stored,    \* key -> [value, until] last stored and not deleted since, or Nothing
    order      \* the keys the client has touched, least recently first

useVars == <<options, cache, now, clears, stored, order>>

Nothing == [none |-> TRUE]

InitUse ==
    /\ options \in Opts
    /\ cache = EmptyCache /\ now = 0 /\ clears = 0
    /\ stored = [k \in Key |-> Nothing] /\ order = <<>>

(* Where a key stands in the order o, and o once the key is touched. *)
Touched(o, k) == \E i \in DOMAIN o : o[i] = k
Rank(o, k) == CHOOSE i \in DOMAIN o : o[i] = k
Touch(o, k) == Append(IF Touched(o, k) THEN Remove(o, Rank(o, k)) ELSE o, k)

Store(k, v) ==
    /\ stored' = [stored EXCEPT ![k] = [value |-> v, until |-> now + options.maxAge]]
    /\ order' = Touch(order, k)
    /\ UNCHANGED <<options, now, clears>>

DoSet(k, v) == cache' = Set(cache, options, k, v, now) /\ Store(k, v)

DoGet(k) ==
    /\ cache' = Get(cache, options, k, now)
    /\ order' = IF Hit(cache, options, k, now) THEN Touch(order, k) ELSE order
    /\ stored' = IF Hit(cache, options, k, now) /\ options.updateAgeOnGet
                 THEN [stored EXCEPT ![k] = [@ EXCEPT !.until = now + options.maxAge]] ELSE stored
    /\ UNCHANGED <<options, now, clears>>

DoGetOrStore(k, v) ==
    /\ ~Hit(cache, options, k, now)
    /\ cache' = GetOrStore(cache, options, k, v, now)
    /\ Store(k, v)

DoDelete(k) ==
    /\ cache' = Delete(cache, k)
    /\ stored' = [stored EXCEPT ![k] = Nothing]
    /\ UNCHANGED <<options, now, clears, order>>

DoClear ==
    /\ clears < MaxClears /\ clears' = clears + 1
    /\ cache' = Clear(cache)
    /\ stored' = [k \in Key |-> Nothing]
    /\ UNCHANGED <<options, now, order>>

(* The client goes on with a clone of its cache. *)
DoClone ==
    /\ cache' = Clone(cache)
    /\ UNCHANGED <<options, now, clears, stored, order>>

Tick == now < MaxNow /\ now' = now + 1 /\ UNCHANGED <<options, cache, clears, stored, order>>

NextUse ==
    \/ \E k \in Key : DoGet(k) \/ DoDelete(k)
    \/ \E k \in Key, v \in Val : DoSet(k, v) \/ DoGetOrStore(k, v)
    \/ DoClear
    \/ DoClone
    \/ Tick

SpecUse == InitUse /\ [][NextUse]_useVars

-----------------------------------------------------------------------------
Good(k) == stored[k] # Nothing /\ (Expires(options) => now < stored[k].until)

(* A cache that was never cleared: the list and the map hold the same      *)
(* keys, once each, and no more of them than the size allows; nothing      *)
(* unreachable stays in memory.                                            *)
ListIsMap ==
    /\ clears = 0 => \A i \in DOMAIN cache : cache[i].live
    /\ clears = 0 => \A i, j \in DOMAIN cache : i # j => cache[i].key # cache[j].key
    /\ options.maxSize > 0 => Len(cache) <= options.maxSize

(* What Get answers is what was last stored, and is still good.            *)
AnswersLastStored ==
    clears = 0 => \A k \in Key : Hit(cache, options, k, now) => Good(k) /\ ValueOf(cache, k) = stored[k].value

(* Only the least recently used keys are evicted: a good key that is gone  *)
(* was touched before every key that is left.                              *)
EvictsLeastRecent ==
    clears = 0 => \A a, b \in Key :
        Good(a) /\ ~Hit(cache, options, a, now) /\ Hit(cache, options, b, now) => Rank(order, a) < Rank(order, b)
=============================================================================
