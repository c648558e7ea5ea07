------------------------------ MODULE LruCache ------------------------------
(***************************************************************************)
(* common/cache/lrucache.go: the LRU cache behind the fake-ip pool, the    *)
(* DNS cache, the sniffer's skip list and the sticky load balancer.        *)
(*                                                                         *)
(* A cache is the sequence of its list elements, least recently used       *)
(* first.  The Go map from keys to elements is the field "live": it is     *)
(* TRUE of the element its key is mapped to.  An element that is not live  *)
(* is in the list and out of the map, which is what Clear leaves behind.   *)
(* Each operation runs under the cache's own mutex, so it is one operator: *)
(* the cache it leaves.                                                    *)
(***************************************************************************)
EXTENDS Integers, Sequences

(* The options of New; 0 stands for "not set". *)
Options(maxSize, maxAge, staleReturn, updateAgeOnGet) ==
    [maxSize |-> maxSize, maxAge |-> maxAge,
     staleReturn |-> staleReturn, updateAgeOnGet |-> updateAgeOnGet]

Entry(k, v, e) == [key |-> k, value |-> v, expires |-> e, live |-> TRUE]

EmptyCache == <<>>

Keys(c) == {c[i].key : i \in {j \in DOMAIN c : c[j].live}}
Index(c, k) == CHOOSE i \in DOMAIN c : c[i].key = k /\ c[i].live
ValueOf(c, k) == c[Index(c, k)].value

ExpiresAfter(opt, now) == IF opt.maxAge > 0 THEN now + opt.maxAge ELSE 0
Expires(opt) == ~opt.staleReturn /\ opt.maxAge > 0

(* list.Remove takes one element out of the list. *)
Remove(c, i) == SubSeq(c, 1, i - 1) \o SubSeq(c, i + 1, Len(c))

(* deleteElement unlinks one element and deletes its key from the map,     *)
(* whichever element that key was mapped to.                               *)
DeleteElement(c, i) ==
    LET k == c[i].key
        unmapped == [j \in DOMAIN c |-> IF c[j].key = k THEN [c[j] EXCEPT !.live = FALSE] ELSE c[j]]
    IN  Remove(unmapped, i)

(* maybeDeleteOldest drops expired elements from the front, up to the      *)
(* first one that has not expired.                                         *)
MaybeDeleteOldest(c, opt, now) ==
    IF ~Expires(opt) THEN c
    ELSE LET fresh == {i \in DOMAIN c : c[i].expires > now}
             first == IF fresh = {} THEN Len(c) + 1 ELSE CHOOSE i \in fresh : \A j \in fresh : i <= j
             gone == {c[i].key : i \in 1 .. first - 1}
         IN  [i \in 1 .. Len(c) - first + 1 |->
                 IF c[first + i - 1].key \in gone
                 THEN [c[first + i - 1] EXCEPT !.live = FALSE]
                 ELSE c[first + i - 1]]

(* Slips in the next definitions: an entry touched in place, a size check  *)
(* that lets one entry too many in, and no expiry on Get.                       *)
TouchInPlace(c, i, element) == [c EXCEPT ![i] = element]
FullLate(c, opt) == opt.maxSize > 0 /\ Len(c) > opt.maxSize + 1
NeverExpired(c, opt, k, now) == FALSE

MoveToBack(c, i, element) == Append(Remove(c, i), element)

Full(c, opt) == opt.maxSize > 0 /\ Len(c) > opt.maxSize

SetWithExpire(c, opt, k, v, e, now) ==
    LET present == k \in Keys(c)
        moved == MoveToBack(c, Index(c, k), Entry(k, v, e))
        pushed == Append(c, Entry(k, v, e))
    IN  MaybeDeleteOldest(IF present THEN moved
                          ELSE IF Full(pushed, opt) THEN DeleteElement(pushed, 1)
                          ELSE pushed, opt, now)

Set(c, opt, k, v, now) == SetWithExpire(c, opt, k, v, ExpiresAfter(opt, now), now)

(* Whether Get answers, and the cache after it. *)
Expired(c, opt, k, now) == Expires(opt) /\ c[Index(c, k)].expires <= now
Hit(c, opt, k, now) == k \in Keys(c) /\ ~Expired(c, opt, k, now)

Get(c, opt, k, now) ==
    LET i == Index(c, k)
        renewed == IF opt.maxAge > 0 /\ opt.updateAgeOnGet THEN now + opt.maxAge ELSE c[i].expires
    IN  IF k \notin Keys(c) THEN c
        ELSE IF Expired(c, opt, k, now) THEN MaybeDeleteOldest(DeleteElement(c, i), opt, now)
        ELSE MoveToBack(c, i, [c[i] EXCEPT !.expires = renewed])

GetOrStore(c, opt, k, v, now) ==
    LET got == Get(c, opt, k, now)
    IN  IF Hit(c, opt, k, now) THEN got ELSE Set(got, opt, k, v, now)

Delete(c, k) == IF k \in Keys(c) THEN DeleteElement(c, Index(c, k)) ELSE c

(* Clear makes a new map and keeps the list. *)
Clear(c) == [i \in DOMAIN c |-> [c[i] EXCEPT !.live = FALSE]]

(* What CloneTo makes of the target: every element pushed in order, the    *)
(* last one of a key being the one the new map holds.                      *)
Clone(c) == [i \in DOMAIN c |->
                [c[i] EXCEPT !.live = \A j \in DOMAIN c : j > i => c[j].key # c[i].key]]
=============================================================================
