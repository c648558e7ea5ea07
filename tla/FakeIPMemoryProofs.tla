------------------------- MODULE FakeIPMemoryProofs -------------------------
(***************************************************************************)
(* Proofs about the LRU cache and about the in-memory fake-ip pool, which  *)
(* is built on two of them.  For the pool: every set of ranges a reload may *)
(* choose from, every size of its caches, number of hosts, flushes and     *)
(* reloads.  For one cache *)
(* under all its operations (LruCacheUse, at the end): every option set.   *)
(***************************************************************************)
EXTENDS FakeIPMemory, LruCacheUse, SequenceTheorems, WellFoundedInduction, TLAPS

(* What caches hold. *)
Elements(K, V) == [key : K, value : V, expires : Nat, live : BOOLEAN]

CachesTyped ==
    /\ cacheIP \in [Pools -> Seq(Elements(Hosts, IPs))]
    /\ cacheHost \in [Pools -> Seq(Elements(IPs, Hosts))]

ControlTyped ==
    /\ range \in [Pools -> Ranges] /\ \A p \in Pools : offset[p] \in IPsOf(range[p])
    /\ offset \in [Pools -> IPs] /\ cycle \in [Pools -> BOOLEAN]
    /\ pc \in [Pools -> {"idle", "touchHost", "touchIP", "get", "read", "delIP", "delHost",
                         "putIP", "ret", "putHost"}]
    /\ req \in [Pools -> Hosts \cup {NoHost}] /\ victim \in [Pools -> Hosts \cup {NoHost}]
    /\ slot \in [Pools -> IPs \cup {NoIP}]
    /\ flushing \in [Pools -> {"no", "host", "reset"}] /\ flushes \in 0 .. MaxEvents
    /\ cur \in Pools /\ cloning \in {"no", "host", "publish"} /\ raced \in BOOLEAN

(* A lookup that found nothing is about to store its host, only the pool   *)
(* in use is at work, and a flush under way has been counted.              *)
Storing(p) == pc[p] \in {"get", "read", "delIP", "delHost", "putIP", "ret", "putHost"}

AtHand ==
    /\ \A p \in Pools : Storing(p) => req[p] \in Hosts
    /\ \A p \in Pools : pc[p] = "putHost" => slot[p] \in IPs
    /\ \A p \in Pools : p # cur => pc[p] = "idle" /\ flushing[p] = "no"
    /\ flushes = 0 => flushing[cur] = "no"
    /\ cloning # "no" => cur + 1 \in Pools

(* What pool p holds is its own or comes from a pool before it, and so is  *)
(* the address a lookup is about to store.                                 *)
Inherits(p) ==
    /\ cacheIP[p] \in Seq(Elements(Hosts, Inheritable(p)))
    /\ cacheHost[p] \in Seq(Elements(Inheritable(p), Hosts))
    /\ slot[p] \in Inheritable(p) \cup {NoIP} /\ (pc[p] = "putHost" => slot[p] \in Inheritable(p))
    /\ pc[p] \in {"read", "delIP", "delHost", "putIP", "ret"} => offset[p] \in Inheritable(p)
Inherited == \A p \in Pools : Inherits(p)

Types == CachesTyped /\ ControlTyped /\ AtHand

(* A cache whose list and map agree, and that is not too long.             *)
Linked(c) ==
    /\ \A i \in 1 .. Len(c) : c[i].live
    /\ \A i, j \in 1 .. Len(c) : c[i].key = c[j].key => i = j
Sound(c) == Linked(c) /\ Len(c) <= Size

(* The same mappings in the same order. *)
Mirror(c, d) ==
    /\ Len(c) = Len(d)
    /\ \A i \in 1 .. Len(c) : c[i].key = d[i].value /\ d[i].key = c[i].value

(* With a lookup at the step "at", the two caches c and d mirror each      *)
(* other once the rest of its steps are done; a slot to be filled is then  *)
(* free and its host not stored.                                           *)
Fits(at, c, d, host, s, o, last) ==
    /\ Sound(c) /\ Sound(d)
    /\ at \in {"idle", "get", "read", "putIP"} => Mirror(c, d)
    /\ at = "touchHost" => Mirror(c, Get(d, Opt, s, 0))
    /\ at = "touchIP" => Mirror(Get(c, Opt, host, 0), d)
    /\ at \in {"get", "read", "delIP", "delHost", "putIP", "ret", "putHost"} => host \notin Keys(c)
    /\ at = "delIP" => Mirror(Delete(c, last), Delete(d, s))
    /\ at = "delHost" => Mirror(c, Delete(d, s))
    /\ at \in {"delIP", "delHost"} => s = o
    /\ at = "putIP" => o \notin Keys(d)
    /\ at = "ret" => Mirror(Set(c, Opt, host, o, 0), d) /\ \A i \in 1 .. Len(c) : c[i].value # o
    /\ at = "putHost" => Mirror(Set(c, Opt, host, s, 0), d) /\ \A i \in 1 .. Len(c) : c[i].value # s

PoolFits(p) == Fits(pc[p], cacheIP[p], cacheHost[p], req[p], slot[p], offset[p], victim[p])

(* Flushes, and clones of a pool in use, spoil the mirror; the first pool  *)
(* is nobody's clone.                                                      *)
CurFits == flushes = 0 /\ (cur = 1 \/ ~raced) => PoolFits(cur)

CloneFits ==
    Calm /\ cloning = "publish" =>
        /\ Sound(cacheIP[cur + 1]) /\ Sound(cacheHost[cur + 1])
        /\ Mirror(cacheIP[cur + 1], cacheHost[cur + 1])

(* The first pool hands out its addresses in order, until they have        *)
(* wrapped: the next one is nobody's.                                      *)
Ordered(at, d, o) ==
    /\ \A i \in 1 .. Len(d) : d[i].key <= o /\ (at = "putIP" => d[i].key < o)
    /\ at \notin {"read", "delIP", "delHost"}

InOrder ==
    cur = 1 /\ flushes = 0 /\ ~cycle[cur] => Ordered(pc[cur], cacheHost[cur], offset[cur])

PoolInvariant == Types /\ Inherited /\ CurFits /\ CloneFits /\ InOrder

-----------------------------------------------------------------------------
(* The list m is c without its i-th element. *)
Without(m, c, i) ==
    Len(m) = Len(c) - 1 /\ \A j \in 1 .. Len(c) - 1 : m[j] = IF j < i THEN c[j] ELSE c[j + 1]

(* One element taken out of a list. *)
LEMMA RemoveProperties ==
    ASSUME NEW T, NEW c \in Seq(T), NEW i \in 1 .. Len(c)
    PROVE  /\ Remove(c, i) \in Seq(T) /\ Len(Remove(c, i)) = Len(c) - 1
           /\ \A j \in 1 .. Len(c) - 1 : Remove(c, i)[j] = IF j < i THEN c[j] ELSE c[j + 1]
<1> DEFINE a == SubSeq(c, 1, i - 1)
           b == SubSeq(c, i + 1, Len(c))
<1>1. Len(c) \in Nat /\ \A j \in 1 .. Len(c) : c[j] \in T
  BY LenProperties, ElementOfSeq
<1>2. a \in Seq(T) /\ Len(a) = i - 1 /\ \A j \in 1 .. i - 1 : a[j] = c[j]
  <2>1. \A j \in 1 .. i - 1 : c[j] \in T
    BY <1>1
  <2>2. /\ a \in Seq(T) /\ Len(a) = IF 1 <= i - 1 THEN i - 1 - 1 + 1 ELSE 0
        /\ \A j \in 1 .. i - 1 - 1 + 1 : a[j] = c[1 + j - 1]
    BY <1>1, <2>1, SubSeqProperties
  <2> HIDE DEF a
  <2>3. QED BY <1>1, <2>2
<1>3. b \in Seq(T) /\ Len(b) = Len(c) - i /\ \A j \in 1 .. Len(c) - i : b[j] = c[i + j]
  <2>1. \A j \in i + 1 .. Len(c) : c[j] \in T
    BY <1>1
  <2>2. /\ b \in Seq(T) /\ Len(b) = IF i + 1 <= Len(c) THEN Len(c) - (i + 1) + 1 ELSE 0
        /\ \A j \in 1 .. Len(c) - (i + 1) + 1 : b[j] = c[i + 1 + j - 1]
    BY <1>1, <2>1, SubSeqProperties
  <2> HIDE DEF b
  <2>3. QED BY <1>1, <2>2
<1>4. Remove(c, i) = a \o b
  BY DEF Remove
<1> HIDE DEF a, b
<1>5. /\ a \o b \in Seq(T) /\ Len(a \o b) = Len(a) + Len(b)
      /\ \A j \in 1 .. Len(a) + Len(b) : (a \o b)[j] = IF j <= Len(a) THEN a[j] ELSE b[j - Len(a)]
  BY <1>2, <1>3, ConcatProperties
<1>6. \A j \in 1 .. Len(c) - 1 : (a \o b)[j] = IF j < i THEN c[j] ELSE c[j + 1]
  BY <1>1, <1>2, <1>3, <1>5
<1>7. QED BY <1>1, <1>2, <1>3, <1>4, <1>5, <1>6

(* The list m is c with its i-th element moved to the back, and now e. *)
Moved(m, c, i, e) ==
    /\ Len(m) = Len(c) /\ m[Len(c)] = e
    /\ \A j \in 1 .. Len(c) - 1 : m[j] = IF j < i THEN c[j] ELSE c[j + 1]

(* One element moved to the back. *)
LEMMA MoveProperties ==
    ASSUME NEW T, NEW c \in Seq(T), NEW i \in 1 .. Len(c), NEW e \in T
    PROVE  MoveToBack(c, i, e) \in Seq(T) /\ Moved(MoveToBack(c, i, e), c, i, e)
<1> DEFINE r == Remove(c, i)
<1>1. /\ Len(c) \in Nat /\ r \in Seq(T) /\ Len(r) = Len(c) - 1
      /\ \A j \in 1 .. Len(c) - 1 : r[j] = IF j < i THEN c[j] ELSE c[j + 1]
  BY RemoveProperties, LenProperties
<1>2. MoveToBack(c, i, e) = Append(r, e)
  BY DEF MoveToBack
<1> HIDE DEF r
<1>3. /\ Append(r, e) \in Seq(T) /\ Len(Append(r, e)) = Len(r) + 1
      /\ \A j \in 1 .. Len(r) : Append(r, e)[j] = r[j]
      /\ Append(r, e)[Len(r) + 1] = e
  BY <1>1, AppendProperties
<1>4. QED BY <1>1, <1>2, <1>3 DEF Moved

(* A function on an initial segment of the naturals is a sequence. *)
LEMMA MapProperties ==
    ASSUME NEW T, NEW c \in Seq(T), NEW m \in [DOMAIN c -> T]
    PROVE  m \in Seq(T) /\ Len(m) = Len(c)
BY LenProperties

(* The element a key is mapped to. *)
LEMMA IndexFound ==
    ASSUME NEW K, NEW V, NEW c \in Seq(Elements(K, V)), NEW k \in Keys(c)
    PROVE  /\ Index(c, k) \in 1 .. Len(c) /\ c[Index(c, k)].key = k /\ c[Index(c, k)].live
           /\ c[Index(c, k)] \in Elements(K, V) /\ k \in K /\ ValueOf(c, k) \in V
<1>1. \E i \in DOMAIN c : c[i].key = k /\ c[i].live
  BY DEF Keys
<1>2. Index(c, k) \in DOMAIN c /\ c[Index(c, k)].key = k /\ c[Index(c, k)].live
  BY <1>1 DEF Index
<1>3. DOMAIN c = 1 .. Len(c)
  BY LenProperties
<1>4. c[Index(c, k)] \in Elements(K, V)
  BY <1>2, <1>3, ElementOfSeq
<1>5. QED BY <1>2, <1>3, <1>4 DEF Elements, ValueOf

(* In a sound cache each key of the list has its element in the map.       *)
LEMMA SoundIndex ==
    ASSUME NEW K, NEW V, NEW c \in Seq(Elements(K, V)), Linked(c)
    PROVE  /\ \A i \in 1 .. Len(c) : /\ c[i].key \in Keys(c) /\ Index(c, c[i].key) = i
                                     /\ ValueOf(c, c[i].key) = c[i].value
           /\ \A k \in Keys(c) : \E i \in 1 .. Len(c) : c[i].key = k /\ i = Index(c, k)
<1>1. DOMAIN c = 1 .. Len(c)
  BY LenProperties
<1>2. \A i \in 1 .. Len(c) : c[i].key \in Keys(c)
  BY <1>1 DEF Linked, Keys
<1>3. \A i \in 1 .. Len(c) : Index(c, c[i].key) = i
  BY <1>2, IndexFound DEF Linked
<1>4. \A k \in Keys(c) : Index(c, k) \in 1 .. Len(c) /\ c[Index(c, k)].key = k
  BY IndexFound
<1>5. QED BY <1>2, <1>3, <1>4 DEF ValueOf

-----------------------------------------------------------------------------
(* The options of the pool: a size, and nothing that expires. *)
LEMMA OptFacts ==
    /\ Opt.maxAge = 0 /\ Opt.maxSize = Size /\ ~Expires(Opt) /\ ExpiresAfter(Opt, 0) = 0
    /\ Size \in Nat /\ Size > 0
BY SizeAssumption DEF Opt, Options, Expires, ExpiresAfter

(* Get moves the element it finds to the back. *)
LEMMA GetCases ==
    ASSUME NEW K, NEW V, NEW c \in Seq(Elements(K, V)), NEW k
    PROVE  /\ k \in Keys(c) => Get(c, Opt, k, 0) = MoveToBack(c, Index(c, k), c[Index(c, k)])
           /\ k \notin Keys(c) => Get(c, Opt, k, 0) = c
           /\ Get(c, Opt, k, 0) \in Seq(Elements(K, V))
<1>1. ~Expired(c, Opt, k, 0)
  BY OptFacts DEF Expired
<1>2. CASE k \notin Keys(c)
  BY <1>2 DEF Get
<1>3. CASE k \in Keys(c)
  <2> DEFINE i == Index(c, k)
  <2>1. i \in 1 .. Len(c) /\ c[i] \in Elements(K, V)
    BY <1>3, IndexFound
  <2>2. [c[i] EXCEPT !.expires = c[i].expires] = c[i]
    BY <2>1 DEF Elements
  <2>3. ~(Opt.maxAge > 0)
    BY OptFacts
  <2>4. Get(c, Opt, k, 0) = MoveToBack(c, i, c[i])
    BY <1>1, <1>3, <2>2, <2>3 DEF Get
  <2> HIDE DEF i
  <2>5. MoveToBack(c, i, c[i]) \in Seq(Elements(K, V))
    BY <2>1, MoveProperties
  <2>6. QED BY <1>3, <2>4, <2>5 DEF i
<1>4. QED BY <1>2, <1>3

(* deleteElement unmaps the key of the element it takes out. *)
LEMMA DeleteElementCases ==
    ASSUME NEW K, NEW V, NEW c \in Seq(Elements(K, V)), NEW i \in 1 .. Len(c)
    PROVE  /\ DeleteElement(c, i) \in Seq(Elements(K, V)) /\ Len(DeleteElement(c, i)) = Len(c) - 1
           /\ Linked(c) => Without(DeleteElement(c, i), c, i)
<1> DEFINE k == c[i].key
           m == [j \in DOMAIN c |-> IF c[j].key = k THEN [c[j] EXCEPT !.live = FALSE] ELSE c[j]]
<1>1. DOMAIN c = 1 .. Len(c) /\ Len(c) \in Nat /\ \A j \in 1 .. Len(c) : c[j] \in Elements(K, V)
  BY LenProperties, ElementOfSeq
<1>2. m \in [DOMAIN c -> Elements(K, V)]
  BY <1>1 DEF Elements
<1>3. m \in Seq(Elements(K, V)) /\ Len(m) = Len(c)
  BY <1>2, MapProperties
<1>4. DeleteElement(c, i) = Remove(m, i)
  BY DEF DeleteElement
<1>5. Linked(c) => \A j \in 1 .. Len(c) : j # i => m[j] = c[j]
  BY <1>1 DEF Linked
<1> HIDE DEF m, k
<1>6. /\ Remove(m, i) \in Seq(Elements(K, V)) /\ Len(Remove(m, i)) = Len(m) - 1
      /\ \A j \in 1 .. Len(m) - 1 : Remove(m, i)[j] = IF j < i THEN m[j] ELSE m[j + 1]
  BY <1>3, RemoveProperties
<1>7. QED BY <1>1, <1>3, <1>4, <1>5, <1>6 DEF Without

(* Delete does so for the element of a key. *)
LEMMA DeleteCases ==
    ASSUME NEW K, NEW V, NEW c \in Seq(Elements(K, V)), NEW k
    PROVE  /\ k \in Keys(c) => Delete(c, k) = DeleteElement(c, Index(c, k))
           /\ k \notin Keys(c) => Delete(c, k) = c
           /\ Delete(c, k) \in Seq(Elements(K, V))
BY IndexFound, DeleteElementCases DEF Delete

(* Set moves a key it knows to the back; it appends a new one, and takes   *)
(* out the front if there are too many.                                    *)
LEMMA SetCases ==
    ASSUME NEW K, NEW V, NEW c \in Seq(Elements(K, V)), NEW k \in K, NEW v \in V
    PROVE  /\ k \in Keys(c) => Set(c, Opt, k, v, 0) = MoveToBack(c, Index(c, k), Entry(k, v, 0))
           /\ k \notin Keys(c) =>
                  /\ Len(c) + 1 <= Size => Set(c, Opt, k, v, 0) = Append(c, Entry(k, v, 0))
                  /\ Len(c) + 1 > Size => Set(c, Opt, k, v, 0) = DeleteElement(Append(c, Entry(k, v, 0)), 1)
           /\ Set(c, Opt, k, v, 0) \in Seq(Elements(K, V))
<1> DEFINE e == Entry(k, v, 0)
           pushed == Append(c, e)
<1>1. e \in Elements(K, V)
  BY DEF Entry, Elements
<1>2. Set(c, Opt, k, v, 0) = IF k \in Keys(c) THEN MoveToBack(c, Index(c, k), e)
                             ELSE IF Full(pushed, Opt) THEN DeleteElement(pushed, 1) ELSE pushed
  BY OptFacts DEF Set, SetWithExpire, MaybeDeleteOldest
<1> HIDE DEF e
<1>3. pushed \in Seq(Elements(K, V)) /\ Len(pushed) = Len(c) + 1 /\ Len(c) \in Nat
  BY <1>1, AppendProperties, LenProperties
<1>4. Full(pushed, Opt) <=> Len(c) + 1 > Size
  BY <1>3, OptFacts DEF Full
<1>5. k \in Keys(c) => MoveToBack(c, Index(c, k), e) \in Seq(Elements(K, V))
  BY <1>1, IndexFound, MoveProperties
<1>6. DeleteElement(pushed, 1) \in Seq(Elements(K, V))
  <2>1. 1 \in 1 .. Len(pushed)
    BY <1>3
  <2> HIDE DEF pushed
  <2>2. QED BY <1>3, <2>1, DeleteElementCases
<1> DEFINE m == Set(c, Opt, k, v, 0)
<1> HIDE DEF m, pushed
<1>7. m = IF k \in Keys(c) THEN MoveToBack(c, Index(c, k), e)
          ELSE IF Len(c) + 1 > Size THEN DeleteElement(pushed, 1) ELSE pushed
  BY <1>2, <1>4 DEF m
<1>8. m \in Seq(Elements(K, V))
  BY <1>3, <1>5, <1>6, <1>7
<1>9. k \in Keys(c) => m = MoveToBack(c, Index(c, k), e)
  BY <1>7
<1>10. k \notin Keys(c) => /\ Len(c) + 1 <= Size => m = pushed
                           /\ Len(c) + 1 > Size => m = DeleteElement(pushed, 1)
  BY <1>3, <1>7, OptFacts
<1>11. QED BY <1>8, <1>9, <1>10 DEF m, pushed, e

(* Clear and Clone keep the elements. *)
LEMMA ClearCloneType ==
    ASSUME NEW K, NEW V, NEW c \in Seq(Elements(K, V))
    PROVE  /\ Clear(c) \in Seq(Elements(K, V)) /\ Clone(c) \in Seq(Elements(K, V))
           /\ Linked(c) => Clone(c) = c
<1>1. DOMAIN c = 1 .. Len(c) /\ Len(c) \in Nat /\ \A j \in 1 .. Len(c) : c[j] \in Elements(K, V)
  BY LenProperties, ElementOfSeq
<1>2. Clear(c) \in [DOMAIN c -> Elements(K, V)] /\ Clone(c) \in [DOMAIN c -> Elements(K, V)]
  BY <1>1 DEF Clear, Clone, Elements
<1>3. Linked(c) => \A i \in 1 .. Len(c) : Clone(c)[i] = c[i]
  <2>1. SUFFICES ASSUME Linked(c), NEW i \in 1 .. Len(c) PROVE Clone(c)[i] = c[i]
    OBVIOUS
  <2>2. c[i] \in Elements(K, V) /\ c[i].live = TRUE /\ \A j \in DOMAIN c : j > i => c[j].key # c[i].key
    BY <1>1, <2>1 DEF Linked, Elements
  <2>3. [c[i] EXCEPT !.live = TRUE] = c[i]
    BY <2>2 DEF Elements
  <2>4. Clone(c)[i] = [c[i] EXCEPT !.live = \A j \in DOMAIN c : j > i => c[j].key # c[i].key]
    BY <1>1 DEF Clone
  <2>5. QED BY <2>2, <2>3, <2>4
<1>4. Clear(c) \in Seq(Elements(K, V)) /\ Clone(c) \in Seq(Elements(K, V)) /\ Len(Clone(c)) = Len(c)
  BY <1>2, MapProperties
<1>5. Linked(c) => Clone(c) = c
  <2> DEFINE m == Clone(c)
  <2>1. m \in Seq(Elements(K, V)) /\ Len(m) = Len(c) /\ (Linked(c) => \A i \in 1 .. Len(m) : m[i] = c[i])
    BY <1>3, <1>4
  <2> HIDE DEF m
  <2>2. Linked(c) => m = c
    BY <2>1, SeqEqual
  <2>3. QED BY <2>2 DEF m
<1>6. QED BY <1>4, <1>5

-----------------------------------------------------------------------------
(* Every element of the cache m is one of the cache c. *)
Within(m, c) == \A j \in 1 .. Len(m) : \E i \in 1 .. Len(c) : m[j] = c[i]

(* Then m holds nothing that c does not. *)
LEMMA WithinKeys ==
    ASSUME NEW K, NEW V, NEW c \in Seq(Elements(K, V)), NEW m \in Seq(Elements(K, V)),
           Linked(c), Linked(m), Within(m, c)
    PROVE  Keys(m) \subseteq Keys(c) /\ \A k \in Keys(m) : ValueOf(m, k) = ValueOf(c, k)
<1> SUFFICES ASSUME NEW k \in Keys(m) PROVE k \in Keys(c) /\ ValueOf(m, k) = ValueOf(c, k)
  OBVIOUS
<1>1. PICK j \in 1 .. Len(m) : m[j].key = k
  BY SoundIndex
<1>2. ValueOf(m, k) = m[j].value
  BY <1>1, SoundIndex
<1>3. PICK i \in 1 .. Len(c) : m[j] = c[i]
  BY DEF Within
<1>4. k \in Keys(c) /\ ValueOf(c, k) = c[i].value
  BY <1>1, <1>3, SoundIndex
<1>5. QED BY <1>2, <1>3, <1>4

(* An element moved to the back, still of its key, leaves the cache linked. *)
LEMMA MoveLinked ==
    ASSUME NEW K, NEW V, NEW c \in Seq(Elements(K, V)), Linked(c), NEW i \in 1 .. Len(c)
    PROVE  LET m == MoveToBack(c, i, c[i])
           IN  /\ m \in Seq(Elements(K, V)) /\ Len(m) = Len(c) /\ Linked(m)
               /\ Within(m, c) /\ Within(c, m)
<1> DEFINE m == MoveToBack(c, i, c[i])
<1>1. Len(c) \in Nat /\ c[i] \in Elements(K, V)
  BY LenProperties, ElementOfSeq
<1>2. /\ m \in Seq(Elements(K, V)) /\ Len(m) = Len(c)
      /\ \A j \in 1 .. Len(c) : m[j] = IF j = Len(c) THEN c[i] ELSE IF j < i THEN c[j] ELSE c[j + 1]
  <2>1. m \in Seq(Elements(K, V)) /\ Moved(m, c, i, c[i])
    BY <1>1, MoveProperties
  <2>2. QED BY <1>1, <2>1 DEF Moved
<1> HIDE DEF m
<1>3. \A j \in 1 .. Len(c) : c[j].live
  BY DEF Linked
<1>4. \A j \in 1 .. Len(m) : m[j].live
  BY <1>1, <1>2, <1>3
<1>5. \A j, l \in 1 .. Len(c) : c[j].key = c[l].key => j = l
  BY DEF Linked
<1>6. \A j \in 1 .. Len(m) : \E l \in 1 .. Len(c) :
          m[j] = c[l] /\ l = IF j = Len(c) THEN i ELSE IF j < i THEN j ELSE j + 1
  BY <1>1, <1>2
<1>7. \A j, l \in 1 .. Len(m) : m[j].key = m[l].key => j = l
  <2> SUFFICES ASSUME NEW j \in 1 .. Len(m), NEW l \in 1 .. Len(m), m[j].key = m[l].key PROVE j = l
    OBVIOUS
  <2>1. PICK a \in 1 .. Len(c) : m[j] = c[a] /\ a = IF j = Len(c) THEN i ELSE IF j < i THEN j ELSE j + 1
    BY <1>6
  <2>2. PICK b \in 1 .. Len(c) : m[l] = c[b] /\ b = IF l = Len(c) THEN i ELSE IF l < i THEN l ELSE l + 1
    BY <1>6
  <2>3. a = b
    BY <1>5, <2>1, <2>2
  <2>4. QED BY <1>1, <1>2, <2>1, <2>2, <2>3
<1>8. Within(c, m)
  <2> SUFFICES ASSUME NEW j \in 1 .. Len(c) PROVE \E l \in 1 .. Len(m) : c[j] = m[l]
    BY DEF Within
  <2>1. CASE j = i
    BY <1>1, <1>2, <2>1
  <2>2. CASE j < i
    BY <1>1, <1>2, <2>2
  <2>3. CASE j > i
    <3>1. j - 1 \in 1 .. Len(m) /\ m[j - 1] = c[j]
      BY <1>1, <1>2, <2>3
    <3>2. QED BY <3>1
  <2>4. QED BY <1>1, <2>1, <2>2, <2>3
<1>9. Linked(m) /\ Within(m, c)
  BY <1>4, <1>6, <1>7 DEF Linked, Within
<1>10. QED BY <1>2, <1>8, <1>9 DEF m

(* One taken out of a linked cache takes its mapping along. *)
LEMMA DeleteElementLinked ==
    ASSUME NEW K, NEW V, NEW c \in Seq(Elements(K, V)), Linked(c), NEW i \in 1 .. Len(c)
    PROVE  LET m == DeleteElement(c, i)
           IN  /\ Linked(m) /\ Within(m, c)
               /\ \A j \in 1 .. Len(c) : j # i => \E l \in 1 .. Len(m) : c[j] = m[l]
               /\ \A l \in 1 .. Len(m) : m[l].key # c[i].key
<1> DEFINE m == DeleteElement(c, i)
<1>1. Len(c) \in Nat /\ m \in Seq(Elements(K, V)) /\ Len(m) = Len(c) - 1
  BY LenProperties, DeleteElementCases
<1>2. \A j \in 1 .. Len(c) - 1 : m[j] = IF j < i THEN c[j] ELSE c[j + 1]
  <2>1. Without(m, c, i)
    BY DeleteElementCases
  <2>2. QED BY <2>1 DEF Without
<1> HIDE DEF m
<1>3. \A j \in 1 .. Len(m) : \E l \in 1 .. Len(c) : m[j] = c[l] /\ l = IF j < i THEN j ELSE j + 1
  BY <1>1, <1>2
<1>4. /\ \A j \in 1 .. Len(c) : c[j].live
      /\ \A j, l \in 1 .. Len(c) : c[j].key = c[l].key => j = l
  BY DEF Linked
<1>5. Linked(m)
  <2>1. ASSUME NEW j \in 1 .. Len(m), NEW l \in 1 .. Len(m), m[j].key = m[l].key PROVE j = l
    <3>1. PICK a \in 1 .. Len(c) : m[j] = c[a] /\ a = IF j < i THEN j ELSE j + 1
      BY <1>3
    <3>2. PICK b \in 1 .. Len(c) : m[l] = c[b] /\ b = IF l < i THEN l ELSE l + 1
      BY <1>3
    <3>3. a = b
      BY <1>4, <2>1, <3>1, <3>2
    <3>4. QED BY <1>1, <3>1, <3>2, <3>3
  <2>2. QED BY <1>3, <1>4, <2>1 DEF Linked
<1>6. \A j \in 1 .. Len(c) : j # i => \E l \in 1 .. Len(m) : c[j] = m[l]
  <2> SUFFICES ASSUME NEW j \in 1 .. Len(c), j # i PROVE \E l \in 1 .. Len(m) : c[j] = m[l]
    OBVIOUS
  <2>1. CASE j < i
    BY <1>1, <1>2, <2>1
  <2>2. CASE j > i
    <3>1. j - 1 \in 1 .. Len(m) /\ m[j - 1] = c[j]
      BY <1>1, <1>2, <2>2
    <3>2. QED BY <3>1
  <2>3. QED BY <1>1, <2>1, <2>2
<1>7. \A l \in 1 .. Len(m) : m[l].key # c[i].key
  <2> SUFFICES ASSUME NEW l \in 1 .. Len(m) PROVE m[l].key # c[i].key
    OBVIOUS
  <2>1. PICK a \in 1 .. Len(c) : m[l] = c[a] /\ a = IF l < i THEN l ELSE l + 1
    BY <1>3
  <2>2. a # i
    BY <1>1, <2>1
  <2>3. QED BY <1>4, <2>1, <2>2
<1>8. Within(m, c)
  BY <1>3 DEF Within
<1>9. QED BY <1>5, <1>6, <1>7, <1>8 DEF m

(* A new key appended to a linked cache. *)
LEMMA AppendLinked ==
    ASSUME NEW K, NEW V, NEW c \in Seq(Elements(K, V)), Linked(c), NEW k \in K, NEW v \in V,
           k \notin Keys(c)
    PROVE  LET m == Append(c, Entry(k, v, 0))
           IN  /\ m \in Seq(Elements(K, V)) /\ Len(m) = Len(c) + 1 /\ Linked(m)
               /\ \A j \in 1 .. Len(c) : m[j] = c[j]
               /\ m[Len(c) + 1] = Entry(k, v, 0)
<1> DEFINE e == Entry(k, v, 0)
           m == Append(c, e)
<1>1. e \in Elements(K, V) /\ e.key = k /\ e.live
  BY DEF Entry, Elements
<1> HIDE DEF e
<1>2. /\ Len(c) \in Nat /\ m \in Seq(Elements(K, V)) /\ Len(m) = Len(c) + 1
      /\ \A j \in 1 .. Len(c) : m[j] = c[j]
      /\ m[Len(c) + 1] = e
  BY <1>1, AppendProperties, LenProperties
<1> HIDE DEF m
<1>3. \A j \in 1 .. Len(c) : c[j].live /\ c[j].key # k
  BY SoundIndex DEF Linked
<1>4. \A j, l \in 1 .. Len(c) : c[j].key = c[l].key => j = l
  BY DEF Linked
<1>5. \A j \in 1 .. Len(m) : m[j].live
  BY <1>1, <1>2, <1>3
<1>6. \A j, l \in 1 .. Len(m) : m[j].key = m[l].key => j = l
  BY <1>1, <1>2, <1>3, <1>4
<1>7. Linked(m)
  BY <1>5, <1>6 DEF Linked
<1>8. QED BY <1>2, <1>7 DEF m, e

-----------------------------------------------------------------------------
(* Get loses and adds nothing. *)
LEMMA GetSound ==
    ASSUME NEW K, NEW V, NEW c \in Seq(Elements(K, V)), Linked(c), NEW k
    PROVE  LET m == Get(c, Opt, k, 0)
           IN  /\ m \in Seq(Elements(K, V)) /\ Len(m) = Len(c) /\ Linked(m) /\ Within(m, c)
               /\ Keys(m) = Keys(c) /\ \A l \in Keys(c) : ValueOf(m, l) = ValueOf(c, l)
<1> DEFINE m == Get(c, Opt, k, 0)
<1>1. m \in Seq(Elements(K, V))
  BY GetCases
<1>2. Len(m) = Len(c) /\ Linked(m) /\ Within(m, c) /\ Within(c, m)
  <2>1. CASE k \in Keys(c)
    <3>1. Index(c, k) \in 1 .. Len(c) /\ m = MoveToBack(c, Index(c, k), c[Index(c, k)])
      BY <2>1, IndexFound, GetCases
    <3>2. QED BY <3>1, MoveLinked
  <2>2. CASE k \notin Keys(c)
    <3>1. m = c
      BY <2>2, GetCases
    <3>2. QED BY <3>1 DEF Within
  <2>3. QED BY <2>1, <2>2
<1> HIDE DEF m
<1>3. Keys(m) \subseteq Keys(c) /\ Keys(c) \subseteq Keys(m)
  BY <1>1, <1>2, WithinKeys
<1>4. \A l \in Keys(m) : ValueOf(m, l) = ValueOf(c, l)
  BY <1>1, <1>2, WithinKeys
<1>5. QED BY <1>1, <1>2, <1>3, <1>4 DEF m

(* Delete loses the key it is asked to and no other. *)
LEMMA DeleteSound ==
    ASSUME NEW K, NEW V, NEW c \in Seq(Elements(K, V)), Linked(c), NEW k
    PROVE  LET m == Delete(c, k)
           IN  /\ m \in Seq(Elements(K, V)) /\ Len(m) <= Len(c) /\ Linked(m) /\ Within(m, c)
               /\ Keys(m) = Keys(c) \ {k} /\ \A l \in Keys(m) : ValueOf(m, l) = ValueOf(c, l)
<1> DEFINE m == Delete(c, k)
<1>1. m \in Seq(Elements(K, V)) /\ Len(c) \in Nat
  BY DeleteCases, LenProperties
<1>2. CASE k \notin Keys(c)
  <2>1. m = c
    BY <1>2, DeleteCases
  <2>2. QED BY <1>1, <1>2, <2>1 DEF Within
<1>3. CASE k \in Keys(c)
  <2>1. PICK i \in 1 .. Len(c) : i = Index(c, k) /\ c[i].key = k /\ m = DeleteElement(c, i)
    BY <1>3, IndexFound, DeleteCases
  <2> HIDE DEF m
  <2>2. /\ Len(m) = Len(c) - 1 /\ Linked(m) /\ Within(m, c)
        /\ \A j \in 1 .. Len(c) : j # i => \E l \in 1 .. Len(m) : c[j] = m[l]
        /\ \A l \in 1 .. Len(m) : m[l].key # k
    <3>1. Len(m) = Len(c) - 1
      BY <2>1, DeleteElementCases
    <3>2. /\ Linked(DeleteElement(c, i)) /\ Within(DeleteElement(c, i), c)
          /\ \A j \in 1 .. Len(c) : j # i => \E l \in 1 .. Len(DeleteElement(c, i)) : c[j] = DeleteElement(c, i)[l]
          /\ \A l \in 1 .. Len(DeleteElement(c, i)) : DeleteElement(c, i)[l].key # c[i].key
      BY DeleteElementLinked
    <3>3. QED BY <2>1, <3>1, <3>2
  <2>3. Keys(m) \subseteq Keys(c) /\ \A l \in Keys(m) : ValueOf(m, l) = ValueOf(c, l)
    BY <1>1, <2>2, WithinKeys
  <2>4. k \notin Keys(m)
    <3>1. k \in Keys(m) => \E l \in 1 .. Len(m) : m[l].key = k
      BY <1>1, <2>2, SoundIndex
    <3>2. QED BY <2>2, <3>1
  <2>5. ASSUME NEW l \in Keys(c), l # k PROVE l \in Keys(m)
    <3>1. PICK j \in 1 .. Len(c) : c[j].key = l
      BY SoundIndex
    <3>2. PICK n \in 1 .. Len(m) : c[j] = m[n]
      BY <2>1, <2>2, <2>5, <3>1
    <3>3. QED BY <1>1, <2>2, <3>1, <3>2, SoundIndex
  <2>6. QED BY <1>1, <2>2, <2>3, <2>4, <2>5 DEF m
<1>4. QED BY <1>2, <1>3

(* Set of a new key adds its mapping and loses no other than the front     *)
(* one of a full cache.                                                    *)
LEMMA SetSound ==
    ASSUME NEW K, NEW V, NEW c \in Seq(Elements(K, V)), Sound(c), NEW k \in K, NEW v \in V,
           k \notin Keys(c)
    PROVE  LET m == Set(c, Opt, k, v, 0)
           IN  /\ m \in Seq(Elements(K, V)) /\ Sound(m)
               /\ \A j \in 1 .. Len(m) : m[j] = Entry(k, v, 0) \/ \E i \in 1 .. Len(c) : m[j] = c[i]
               /\ k \in Keys(m) /\ ValueOf(m, k) = v
               /\ Keys(m) \subseteq Keys(c) \cup {k}
               /\ \A l \in Keys(m) : l # k => ValueOf(m, l) = ValueOf(c, l)
               /\ \A l \in Keys(c) : l \notin Keys(m) => Len(c) = Size /\ c[1].key = l
<1> DEFINE m == Set(c, Opt, k, v, 0)
           e == Entry(k, v, 0)
           a == Append(c, e)
<1>1. /\ Len(c) \in Nat /\ Linked(c) /\ Len(c) <= Size /\ Size \in Nat
      /\ m \in Seq(Elements(K, V)) /\ e.key = k /\ e.value = v
  BY LenProperties, OptFacts, SetCases DEF Sound, Entry
<1>2. /\ a \in Seq(Elements(K, V)) /\ Len(a) = Len(c) + 1 /\ Linked(a)
      /\ \A j \in 1 .. Len(c) : a[j] = c[j]
      /\ a[Len(c) + 1] = e
  BY <1>1, AppendLinked
<1>3. /\ Len(c) + 1 <= Size => m = a
      /\ Len(c) + 1 > Size => m = DeleteElement(a, 1)
  BY SetCases
<1> HIDE DEF m, e, a
<1>4. /\ Linked(m) /\ Len(m) <= Size /\ Within(m, a)
      /\ \A j \in 1 .. Len(a) : (j = 1 /\ Len(c) = Size) \/ \E l \in 1 .. Len(m) : a[j] = m[l]
  <2>1. CASE Len(c) + 1 <= Size
    BY <1>1, <1>2, <1>3, <2>1 DEF Within
  <2>2. CASE Len(c) + 1 > Size
    <3>1. 1 \in 1 .. Len(a) /\ Len(c) = Size /\ m = DeleteElement(a, 1)
      BY <1>1, <1>2, <1>3, <2>2
    <3>2. /\ Linked(m) /\ Within(m, a) /\ Len(m) = Len(a) - 1
          /\ \A j \in 1 .. Len(a) : j # 1 => \E l \in 1 .. Len(m) : a[j] = m[l]
      <4>1. Len(m) = Len(a) - 1
        BY <1>2, <3>1, DeleteElementCases
      <4>2. /\ Linked(DeleteElement(a, 1)) /\ Within(DeleteElement(a, 1), a)
            /\ \A j \in 1 .. Len(a) : j # 1 => \E l \in 1 .. Len(DeleteElement(a, 1)) : a[j] = DeleteElement(a, 1)[l]
        <5> HIDE DEF a
        <5>1. a \in Seq(Elements(K, V)) /\ Linked(a) /\ 1 \in 1 .. Len(a)
          BY <1>2, <3>1
        <5>2. QED BY <5>1, DeleteElementLinked
      <4>3. QED BY <3>1, <4>1, <4>2
    <3>3. QED BY <1>1, <1>2, <3>1, <3>2
  <2>3. QED BY <1>1, <2>1, <2>2
<1>5. \A j \in 1 .. Len(m) : m[j] = e \/ \E i \in 1 .. Len(c) : m[j] = c[i]
  <2> SUFFICES ASSUME NEW j \in 1 .. Len(m) PROVE m[j] = e \/ \E i \in 1 .. Len(c) : m[j] = c[i]
    OBVIOUS
  <2>1. PICK l \in 1 .. Len(a) : m[j] = a[l]
    BY <1>4 DEF Within
  <2>2. l \in 1 .. Len(c) \/ l = Len(c) + 1
    BY <1>1, <1>2
  <2>3. QED BY <1>2, <2>1, <2>2
<1>6. k \in Keys(m) /\ ValueOf(m, k) = v
  <2>1. Len(c) + 1 \in 1 .. Len(a) /\ ~(Len(c) + 1 = 1 /\ Len(c) = Size)
    BY <1>1, <1>2, OptFacts
  <2>2. PICK l \in 1 .. Len(m) : m[l] = e
    BY <1>2, <1>4, <2>1
  <2>3. QED BY <1>1, <1>4, <2>2, SoundIndex
<1>7. Keys(m) \subseteq Keys(c) \cup {k} /\ \A l \in Keys(m) : l # k => ValueOf(m, l) = ValueOf(c, l)
  <2> SUFFICES ASSUME NEW l \in Keys(m), l # k PROVE l \in Keys(c) /\ ValueOf(m, l) = ValueOf(c, l)
    OBVIOUS
  <2>1. PICK j \in 1 .. Len(m) : m[j].key = l
    BY <1>1, <1>4, SoundIndex
  <2>2. ValueOf(m, l) = m[j].value
    BY <1>1, <1>4, <2>1, SoundIndex
  <2>3. PICK i \in 1 .. Len(c) : m[j] = c[i]
    BY <1>1, <1>5, <2>1
  <2>4. l \in Keys(c) /\ ValueOf(c, l) = c[i].value
    BY <1>1, <2>1, <2>3, SoundIndex
  <2>5. QED BY <2>2, <2>3, <2>4
<1>8. ASSUME NEW l \in Keys(c), l \notin Keys(m) PROVE Len(c) = Size /\ c[1].key = l
  <2>1. PICK j \in 1 .. Len(c) : c[j].key = l
    BY <1>1, SoundIndex
  <2>2. j \in 1 .. Len(a) /\ a[j] = c[j]
    BY <1>1, <1>2
  <2>3. ~ \E n \in 1 .. Len(m) : a[j] = m[n]
    BY <1>1, <1>4, <1>8, <2>1, <2>2, SoundIndex
  <2>4. QED BY <1>4, <2>1, <2>2, <2>3
<1>9. QED BY <1>1, <1>4, <1>5, <1>6, <1>7, <1>8 DEF m, e, Sound

-----------------------------------------------------------------------------
LEMMA MirrorSwap == ASSUME NEW c, NEW d, Mirror(c, d) PROVE Mirror(d, c)
BY DEF Mirror

(* Mirrored caches hold a mapping at the same place. *)
LEMMA MirrorIndex ==
    ASSUME NEW K, NEW V, NEW c \in Seq(Elements(K, V)), NEW d \in Seq(Elements(V, K)),
           Linked(c), Linked(d), Mirror(c, d), NEW k \in Keys(c)
    PROVE  /\ ValueOf(c, k) \in Keys(d) /\ ValueOf(d, ValueOf(c, k)) = k
           /\ Index(d, ValueOf(c, k)) = Index(c, k)
<1>1. PICK i \in 1 .. Len(c) : c[i].key = k /\ i = Index(c, k)
  BY SoundIndex
<1>2. ValueOf(c, k) = c[i].value
  BY <1>1, SoundIndex
<1>3. i \in 1 .. Len(d) /\ d[i].key = c[i].value /\ d[i].value = k
  BY <1>1 DEF Mirror
<1>4. d[i].key \in Keys(d) /\ Index(d, d[i].key) = i /\ ValueOf(d, d[i].key) = d[i].value
  BY <1>3, SoundIndex
<1>5. QED BY <1>1, <1>2, <1>3, <1>4

(* They remain so when the same element is moved or taken out of each. *)
LEMMA MirrorMoved ==
    ASSUME NEW c, NEW d, NEW m, NEW n, Mirror(c, d), Len(c) \in Nat, NEW i \in 1 .. Len(c),
           Moved(m, c, i, c[i]), Moved(n, d, i, d[i])
    PROVE  Mirror(m, n)
<1>1. Len(m) = Len(c) /\ Len(n) = Len(c) /\ Len(d) = Len(c)
  BY DEF Mirror, Moved
<1>2. \A j \in 1 .. Len(c) : c[j].key = d[j].value /\ d[j].key = c[j].value
  BY DEF Mirror
<1>3. m[Len(c)] = c[i] /\ n[Len(c)] = d[i]
  BY <1>1 DEF Moved
<1>4. ASSUME NEW j \in 1 .. Len(c) - 1
      PROVE  /\ m[j] = IF j < i THEN c[j] ELSE c[j + 1]
             /\ n[j] = IF j < i THEN d[j] ELSE d[j + 1]
  BY <1>1 DEF Moved
<1>5. ASSUME NEW j \in 1 .. Len(c) PROVE m[j].key = n[j].value /\ n[j].key = m[j].value
  <2>1. CASE j = Len(c)
    BY <1>2, <1>3, <2>1
  <2>2. CASE j # Len(c)
    <3>1. j \in 1 .. Len(c) - 1 /\ j + 1 \in 1 .. Len(c)
      BY <2>2
    <3>2. QED BY <1>2, <1>4, <3>1
  <2>3. QED BY <2>1, <2>2
<1>6. QED BY <1>1, <1>5 DEF Mirror

LEMMA MirrorWithout ==
    ASSUME NEW c, NEW d, NEW m, NEW n, Mirror(c, d), Len(c) \in Nat, NEW i \in 1 .. Len(c),
           Without(m, c, i), Without(n, d, i)
    PROVE  Mirror(m, n)
<1>1. Len(m) = Len(c) - 1 /\ Len(n) = Len(c) - 1 /\ Len(d) = Len(c)
  BY DEF Mirror, Without
<1>2. \A j \in 1 .. Len(c) : c[j].key = d[j].value /\ d[j].key = c[j].value
  BY DEF Mirror
<1>3. ASSUME NEW j \in 1 .. Len(c) - 1
      PROVE  m[j].key = n[j].value /\ n[j].key = m[j].value
  <2>1. /\ m[j] = IF j < i THEN c[j] ELSE c[j + 1]
        /\ n[j] = IF j < i THEN d[j] ELSE d[j + 1]
    BY <1>1 DEF Without
  <2>2. j \in 1 .. Len(c) /\ j + 1 \in 1 .. Len(c)
    OBVIOUS
  <2>3. QED BY <1>2, <2>1, <2>2
<1>4. QED BY <1>1, <1>3 DEF Mirror

(* The two halves of GetByHost, and of GetByIP: the mapping they find      *)
(* moves to the back of both caches.                                       *)
LEMMA GetMirror ==
    ASSUME NEW K, NEW V, NEW c \in Seq(Elements(K, V)), NEW d \in Seq(Elements(V, K)),
           Linked(c), Linked(d), Mirror(c, d), NEW k \in Keys(c)
    PROVE  Mirror(Get(c, Opt, k, 0), Get(d, Opt, ValueOf(c, k), 0))
<1> DEFINE v == ValueOf(c, k)
           i == Index(c, k)
           m == Get(c, Opt, k, 0)
           n == Get(d, Opt, v, 0)
<1>1. v \in Keys(d) /\ Index(d, v) = i /\ i \in 1 .. Len(c) /\ i \in 1 .. Len(d)
  BY MirrorIndex, IndexFound DEF Mirror
<1> HIDE DEF v
<1>2. m = MoveToBack(c, i, c[i]) /\ n = MoveToBack(d, i, d[i])
  BY <1>1, GetCases
<1> HIDE DEF i, m, n
<1>3. c[i] \in Elements(K, V) /\ d[i] \in Elements(V, K) /\ Len(c) \in Nat
  BY <1>1, ElementOfSeq, LenProperties
<1>4. Moved(m, c, i, c[i])
  BY <1>1, <1>2, <1>3, MoveProperties
<1>5. Moved(n, d, i, d[i])
  BY <1>1, <1>2, <1>3, MoveProperties
<1>6. Mirror(m, n)
  BY <1>1, <1>3, <1>4, <1>5, MirrorMoved
<1>7. QED BY <1>6 DEF m, n, v

(* DelByIP: reading the last owner of the slot, and then deleting it from  *)
(* one cache and the slot from the other, takes their mapping out of both. *)
LEMMA DeleteMirror ==
    ASSUME NEW K, NEW V, NEW c \in Seq(Elements(K, V)), NEW d \in Seq(Elements(V, K)),
           Linked(c), Linked(d), Mirror(c, d), NEW k \in Keys(d)
    PROVE  Mirror(Delete(c, ValueOf(d, k)), Delete(Get(d, Opt, k, 0), k))
<1> DEFINE v == ValueOf(d, k)
           i == Index(d, k)
           g == Get(d, Opt, k, 0)
           m == Delete(c, v)
           n == Delete(g, k)
<1>1. v \in Keys(c) /\ Index(c, v) = i /\ i \in 1 .. Len(d) /\ i \in 1 .. Len(c) /\ d[i].key = k
  BY MirrorSwap, MirrorIndex, IndexFound DEF Mirror
<1> HIDE DEF v
<1>2. Len(c) \in Nat /\ Len(d) = Len(c) /\ d[i] \in Elements(V, K)
  BY <1>1, LenProperties, ElementOfSeq DEF Mirror
<1>3. m = DeleteElement(c, i) /\ g = MoveToBack(d, i, d[i])
  BY <1>1, DeleteCases, GetCases
<1> HIDE DEF i, m
<1>4. Without(m, c, i)
  BY <1>1, <1>3, DeleteElementCases
<1>5. Moved(g, d, i, d[i])
  BY <1>1, <1>2, <1>3, MoveProperties
<1>6. g \in Seq(Elements(V, K)) /\ Linked(g)
  BY GetSound
<1> HIDE DEF g
<1>7. Len(d) \in 1 .. Len(g) /\ g[Len(d)].key = k /\ Len(g) = Len(d)
  BY <1>1, <1>2, <1>5 DEF Moved
<1>8. k \in Keys(g) /\ Index(g, k) = Len(d)
  BY <1>6, <1>7, SoundIndex
<1>9. n = DeleteElement(g, Len(d))
  BY <1>6, <1>8, DeleteCases
<1> HIDE DEF n
<1>10. Without(n, g, Len(d))
  BY <1>6, <1>7, <1>9, DeleteElementCases
<1>11. Without(n, d, i)
  <2>1. Len(n) = Len(d) - 1 /\ \A j \in 1 .. Len(d) - 1 : n[j] = g[j]
    BY <1>2, <1>7, <1>10 DEF Without
  <2>2. QED BY <1>2, <1>5, <2>1 DEF Moved, Without
<1>12. Mirror(m, n)
  BY <1>1, <1>2, <1>4, <1>11, MirrorWithout
<1>13. QED BY <1>12 DEF m, n, g, v

(* PutByIP and PutByHost: a new mapping is appended to both caches, and    *)
(* both forget the same one if they are full.                              *)
LEMMA SetMirror ==
    ASSUME NEW K, NEW V, NEW c \in Seq(Elements(K, V)), NEW d \in Seq(Elements(V, K)),
           Sound(c), Sound(d), Mirror(c, d), NEW k \in K, NEW v \in V, k \notin Keys(c), v \notin Keys(d)
    PROVE  Mirror(Set(c, Opt, k, v, 0), Set(d, Opt, v, k, 0))
<1> DEFINE a == Append(c, Entry(k, v, 0))
           b == Append(d, Entry(v, k, 0))
           m == Set(c, Opt, k, v, 0)
           n == Set(d, Opt, v, k, 0)
<1>1. Len(c) \in Nat /\ Len(d) = Len(c) /\ Linked(c) /\ Linked(d) /\ Size \in Nat
  BY LenProperties, OptFacts DEF Mirror, Sound
<1>2. /\ Len(c) + 1 <= Size => m = a /\ n = b
      /\ Len(c) + 1 > Size => m = DeleteElement(a, 1) /\ n = DeleteElement(b, 1)
  BY <1>1, SetCases
<1>3. /\ a \in Seq(Elements(K, V)) /\ Len(a) = Len(c) + 1 /\ Linked(a)
      /\ \A j \in 1 .. Len(c) : a[j] = c[j]
      /\ a[Len(c) + 1] = Entry(k, v, 0)
  BY <1>1, AppendLinked
<1>4. /\ b \in Seq(Elements(V, K)) /\ Len(b) = Len(d) + 1 /\ Linked(b)
      /\ \A j \in 1 .. Len(d) : b[j] = d[j]
      /\ b[Len(d) + 1] = Entry(v, k, 0)
  BY <1>1, AppendLinked
<1> HIDE DEF a, b, m, n
<1>5. Mirror(a, b)
  <2>1. ASSUME NEW j \in 1 .. Len(a) PROVE a[j].key = b[j].value /\ b[j].key = a[j].value
    <3>1. CASE j = Len(c) + 1
      BY <1>1, <1>3, <1>4, <3>1 DEF Entry
    <3>2. CASE j \in 1 .. Len(c)
      BY <1>1, <1>3, <1>4, <3>2 DEF Mirror
    <3>3. QED BY <1>1, <1>3, <3>1, <3>2
  <2>2. QED BY <1>1, <1>3, <1>4, <2>1 DEF Mirror
<1>6. CASE Len(c) + 1 <= Size
  BY <1>2, <1>5, <1>6 DEF m, n
<1>7. CASE Len(c) + 1 > Size
  <2>1. 1 \in 1 .. Len(a) /\ 1 \in 1 .. Len(b) /\ Len(a) \in Nat
    BY <1>1, <1>3, <1>4
  <2>2. Without(m, a, 1) /\ Without(n, b, 1)
    BY <1>2, <1>3, <1>4, <1>7, <2>1, DeleteElementCases
  <2>3. Mirror(m, n)
    BY <1>5, <2>1, <2>2, MirrorWithout
  <2>4. QED BY <2>3 DEF m, n
<1>8. QED BY <1>1, <1>6, <1>7

-----------------------------------------------------------------------------
(* What the elements of typed caches are. *)
LEMMA ElementTypes ==
    ASSUME NEW K, NEW V, NEW f \in [Pools -> Seq(Elements(K, V))]
    PROVE  \A p \in Pools : \A i \in DOMAIN f[p] : f[p][i].key \in K /\ f[p][i].value \in V
<1> SUFFICES ASSUME NEW p \in Pools, NEW i \in DOMAIN f[p]
             PROVE  f[p][i].key \in K /\ f[p][i].value \in V
  OBVIOUS
<1>1. f[p] \in Seq(Elements(K, V))
  OBVIOUS
<1>2. i \in 1 .. Len(f[p])
  BY <1>1, LenProperties
<1>3. f[p][i] \in Elements(K, V)
  BY <1>1, <1>2, ElementOfSeq
<1>4. QED BY <1>3 DEF Elements

(* A cache of keys and values in K and V says so of each of its elements.  *)
LEMMA CacheElements ==
    ASSUME NEW K, NEW V, NEW c \in Seq(Elements(K, V)), NEW i \in DOMAIN c
    PROVE  c[i].key \in K /\ c[i].value \in V
<1>1. i \in 1 .. Len(c)
  BY LenProperties
<1>2. c[i] \in Elements(K, V)
  BY <1>1, ElementOfSeq
<1>3. QED BY <1>2 DEF Elements

LEMMA TypesGiveTypeOK == Types /\ Inherited => TypeOK
<1> SUFFICES ASSUME Types, Inherited PROVE TypeOK
  OBVIOUS
<1>1. ASSUME NEW p \in Pools
      PROVE  /\ \A i \in DOMAIN cacheIP[p] :
                    cacheIP[p][i].key \in Hosts /\ cacheIP[p][i].value \in Inheritable(p)
             /\ \A i \in DOMAIN cacheHost[p] :
                    cacheHost[p][i].key \in Inheritable(p) /\ cacheHost[p][i].value \in Hosts
             /\ slot[p] \in Inheritable(p) \cup {NoIP} /\ offset[p] \in IPsOf(range[p])
  <2>1. /\ cacheIP[p] \in Seq(Elements(Hosts, Inheritable(p)))
        /\ cacheHost[p] \in Seq(Elements(Inheritable(p), Hosts))
        /\ slot[p] \in Inheritable(p) \cup {NoIP} /\ offset[p] \in IPsOf(range[p])
    BY DEF Inherited, Inherits, Types, ControlTyped
  <2>2. QED BY <2>1, CacheElements
<1>2. QED BY <1>1 DEF Types, ControlTyped, TypeOK

LEMMA RangeFacts ==
    /\ 0 \notin IPs /\ IPs \subseteq Nat
    /\ \A r \in Ranges :
           /\ r.first \in Nat /\ r.last \in Nat /\ IPsOf(r) \subseteq IPs /\ Allocatable(r) \subseteq IPsOf(r)
           /\ r.first - 1 \in IPsOf(r) /\ r.first \in Allocatable(r)
           /\ \A a \in IPsOf(r) : a + 1 < r.last => a + 1 \in Allocatable(r)
    /\ 1 \in Pools /\ Pools \subseteq Nat /\ 0 \in 0 .. MaxEvents
<1>1. \A r \in Ranges : /\ r.first \in Nat /\ r.last \in Nat /\ 4 < r.first /\ r.first < r.last
  BY RangeAssumption
<1>2. \A r \in Ranges : IPsOf(r) \subseteq Nat /\ 0 \notin IPsOf(r) /\ IPsOf(r) \subseteq IPs
  BY <1>1 DEF IPsOf, IPs
<1>3. IPs \subseteq Nat /\ 0 \notin IPs
  BY <1>2 DEF IPs
<1>4. \A r \in Ranges :
          /\ Allocatable(r) \subseteq IPsOf(r) /\ r.first - 1 \in IPsOf(r) /\ r.first \in Allocatable(r)
          /\ \A a \in IPsOf(r) : a + 1 < r.last => a + 1 \in Allocatable(r)
  BY <1>1 DEF IPsOf, Allocatable
<1>5. 1 \in Pools /\ Pools \subseteq Nat /\ 0 \in 0 .. MaxEvents
  BY BoundsAssumption DEF Pools
<1>6. QED BY <1>1, <1>2, <1>3, <1>4, <1>5

(* The slot after the offset can be handed out, and what a flush resets    *)
(* the offset to lies just before one.                                     *)
LEMMA NextOffsetFacts ==
    ASSUME ControlTyped, NEW p \in Pools
    PROVE  /\ range[p].first - 1 \in IPsOf(range[p]) /\ NextOffset(p) \in Allocatable(range[p])
           /\ IPsOf(range[p]) \subseteq IPs /\ Allocatable(range[p]) \subseteq IPsOf(range[p])
<1>1. range[p] \in Ranges /\ offset[p] \in IPsOf(range[p])
  BY DEF ControlTyped
<1>2. QED BY <1>1, RangeFacts DEF NextOffset, Wraps

LEMMA TypesInit == Init => Types
<1> SUFFICES ASSUME Init PROVE Types
  OBVIOUS
<1>1. CachesTyped
  <2>1. EmptyCache \in Seq(Elements(Hosts, IPs)) /\ EmptyCache \in Seq(Elements(IPs, Hosts))
    BY EmptySeq DEF EmptyCache
  <2>2. QED BY <2>1 DEF Init, CachesTyped
<1>2. ControlTyped
  <2>1. \A p \in Pools : range[p] \in Ranges /\ range[p].first - 1 \in IPsOf(range[p]) /\ range[p].first - 1 \in IPs
    BY RangeFacts DEF Init
  <2>2. QED BY <2>1, RangeFacts DEF Init, ControlTyped
<1>3. AtHand
  BY <1>2 DEF Init, AtHand, ControlTyped, Storing
<1>4. QED BY <1>1, <1>2, <1>3 DEF Types

(* Every operation takes typed caches to typed caches. *)
LEMMA CachesTypedStep == ASSUME Types, [Next]_vars PROVE CachesTyped'
<1>1. \A p \in Pools : cacheIP[p] \in Seq(Elements(Hosts, IPs)) /\ cacheHost[p] \in Seq(Elements(IPs, Hosts))
  BY DEF Types, CachesTyped
<1>2. \A p \in Pools : \A k : /\ Get(cacheIP[p], Opt, k, 0) \in Seq(Elements(Hosts, IPs))
                          /\ Get(cacheHost[p], Opt, k, 0) \in Seq(Elements(IPs, Hosts))
  BY <1>1, GetCases
<1>3. \A p \in Pools : \A k : /\ Delete(cacheIP[p], k) \in Seq(Elements(Hosts, IPs))
                          /\ Delete(cacheHost[p], k) \in Seq(Elements(IPs, Hosts))
  BY <1>1, DeleteCases
<1>4. \A p \in Pools, h \in Hosts, a \in IPs :
          /\ Set(cacheIP[p], Opt, h, a, 0) \in Seq(Elements(Hosts, IPs))
          /\ Set(cacheHost[p], Opt, a, h, 0) \in Seq(Elements(IPs, Hosts))
  BY <1>1, SetCases
<1>5. \A p \in Pools : /\ Clear(cacheIP[p]) \in Seq(Elements(Hosts, IPs)) /\ Clear(cacheHost[p]) \in Seq(Elements(IPs, Hosts))
                       /\ Clone(cacheIP[p]) \in Seq(Elements(Hosts, IPs)) /\ Clone(cacheHost[p]) \in Seq(Elements(IPs, Hosts))
  BY <1>1, ClearCloneType
<1>6. EmptyCache \in Seq(Elements(Hosts, IPs)) /\ EmptyCache \in Seq(Elements(IPs, Hosts))
  BY EmptySeq DEF EmptyCache
<1> DEFINE S == Seq(Elements(Hosts, IPs))
           R == Seq(Elements(IPs, Hosts))
<1>7. cacheIP \in [Pools -> S] /\ cacheHost \in [Pools -> R]
  BY DEF Types, CachesTyped
<1>8. CachesTyped' <=> cacheIP' \in [Pools -> S] /\ cacheHost' \in [Pools -> R]
  BY DEF CachesTyped
<1> HIDE DEF S, R
<1>9. ASSUME NEW p \in Pools, NEW h \in Hosts, Lookup(p, h) PROVE CachesTyped'
  BY <1>2, <1>7, <1>8, <1>9 DEF Lookup, GetIP, S, R
<1>10. ASSUME NEW p \in Pools, TouchHost(p) PROVE CachesTyped'
  BY <1>2, <1>7, <1>8, <1>10 DEF TouchHost, GetHost, S, R
<1>11. ASSUME NEW p \in Pools, NEW i \in IPs, LookBack(p, i) PROVE CachesTyped'
  BY <1>2, <1>7, <1>8, <1>11 DEF LookBack, GetHost, S, R
<1>12. ASSUME NEW p \in Pools, TouchIP(p) PROVE CachesTyped'
  BY <1>2, <1>7, <1>8, <1>12 DEF TouchIP, GetIP, S, R
<1>13. ASSUME NEW p \in Pools, Advance(p) PROVE CachesTyped'
  BY <1>7, <1>8, <1>13 DEF Advance, caches, S, R
<1>14. ASSUME NEW p \in Pools, ReadVictim(p) PROVE CachesTyped'
  BY <1>2, <1>7, <1>8, <1>14 DEF ReadVictim, GetHost, S, R
<1>15. ASSUME NEW p \in Pools, DeleteVictim(p) PROVE CachesTyped'
  BY <1>3, <1>7, <1>8, <1>15 DEF DeleteVictim, S, R
<1>16. ASSUME NEW p \in Pools, DeleteSlot(p) PROVE CachesTyped'
  BY <1>3, <1>7, <1>8, <1>16 DEF DeleteSlot, S, R
<1>17. ASSUME NEW p \in Pools, PutByIP(p) PROVE CachesTyped'
  BY <1>4, <1>7, <1>8, <1>17 DEF PutByIP, Goto, Types, ControlTyped, AtHand, Storing, S, R
<1>18. ASSUME NEW p \in Pools, ReturnIP(p) PROVE CachesTyped'
  BY <1>7, <1>8, <1>18 DEF ReturnIP, caches, S, R
<1>19. ASSUME NEW p \in Pools, PutByHost(p) PROVE CachesTyped'
  BY <1>4, <1>7, <1>8, <1>19 DEF PutByHost, Goto, Types, ControlTyped, AtHand, Storing, S, R
<1>20. ASSUME NEW p \in Pools, FlushIP(p) PROVE CachesTyped'
  BY <1>5, <1>7, <1>8, <1>20 DEF FlushIP, S, R
<1>21. ASSUME NEW p \in Pools, FlushHost(p) PROVE CachesTyped'
  BY <1>5, <1>7, <1>8, <1>21 DEF FlushHost, S, R
<1>22. ASSUME NEW p \in Pools, FlushReset(p) PROVE CachesTyped'
  BY <1>7, <1>8, <1>22 DEF FlushReset, caches, S, R
<1>23. CASE CloneIP
  BY <1>5, <1>7, <1>8, <1>23 DEF CloneIP, Types, ControlTyped, S, R
<1>24. CASE CloneHost
  BY <1>5, <1>7, <1>8, <1>24 DEF CloneHost, Types, ControlTyped, S, R
<1>25. CASE Publish
  BY <1>6, <1>7, <1>8, <1>25 DEF Publish, S, R
<1>26. CASE UNCHANGED vars
  BY <1>7, <1>8, <1>26 DEF vars, caches
<1>27. QED
  BY <1>9, <1>10, <1>11, <1>12, <1>13, <1>14, <1>15, <1>16, <1>17, <1>18, <1>19, <1>20, <1>21, <1>22, <1>23, <1>24, <1>25, <1>26
     DEF Next, LookupStep, Flush, Reload

(* The rest of the state keeps its type, and only the pool in use works. *)
LEMMA ControlTypedStep == ASSUME Types, [Next]_vars PROVE ControlTyped' /\ AtHand'
<1>1. \A p \in Pools : cacheIP[p] \in Seq(Elements(Hosts, IPs)) /\ cacheHost[p] \in Seq(Elements(IPs, Hosts))
  BY DEF Types, CachesTyped
<1>2. /\ \A p \in Pools : \A h \in Keys(cacheIP[p]) : ValueOf(cacheIP[p], h) \in IPs
      /\ \A p \in Pools : \A i \in Keys(cacheHost[p]) : ValueOf(cacheHost[p], i) \in Hosts
  BY <1>1, IndexFound
<1>3. ControlTyped /\ AtHand
  BY DEF Types
<1>4. ASSUME NEW p \in Pools, NEW h \in Hosts, Lookup(p, h) PROVE ControlTyped' /\ AtHand'
  <2>1. ControlTyped'
    BY <1>2, <1>3, <1>4 DEF Lookup, Goto, position, others, ControlTyped
  <2>2. AtHand'
    BY <1>2, <1>3, <1>4 DEF Lookup, Goto, position, others, ControlTyped, AtHand, Storing
  <2>3. QED BY <2>1, <2>2
<1>5. ASSUME NEW p \in Pools, TouchHost(p) PROVE ControlTyped' /\ AtHand'
  <2>1. ControlTyped'
    BY <1>3, <1>5 DEF TouchHost, Goto, Finish, position, others, ControlTyped
  <2>2. AtHand'
    BY <1>3, <1>5 DEF TouchHost, Goto, Finish, position, others, ControlTyped, AtHand, Storing
  <2>3. QED BY <2>1, <2>2
<1>6. ASSUME NEW p \in Pools, NEW i \in IPs, LookBack(p, i) PROVE ControlTyped' /\ AtHand'
  <2>1. ControlTyped'
    BY <1>2, <1>3, <1>6 DEF LookBack, Goto, position, others, ControlTyped
  <2>2. AtHand'
    BY <1>2, <1>3, <1>6 DEF LookBack, Goto, position, others, ControlTyped, AtHand, Storing
  <2>3. QED BY <2>1, <2>2
<1>7. ASSUME NEW p \in Pools, TouchIP(p) PROVE ControlTyped' /\ AtHand'
  <2>1. ControlTyped'
    BY <1>3, <1>7 DEF TouchIP, Goto, Finish, position, others, ControlTyped
  <2>2. AtHand'
    BY <1>3, <1>7 DEF TouchIP, Goto, Finish, position, others, ControlTyped, AtHand, Storing
  <2>3. QED BY <2>1, <2>2
<1>8. ASSUME NEW p \in Pools, Advance(p) PROVE ControlTyped' /\ AtHand'
  <2>1. ControlTyped'
    BY NextOffsetFacts, <1>3, <1>8 DEF Advance, Goto, others, ControlTyped
  <2>2. AtHand'
    BY <1>3, <1>8 DEF Advance, Goto, others, ControlTyped, AtHand, Storing
  <2>3. QED BY <2>1, <2>2
<1>9. ASSUME NEW p \in Pools, ReadVictim(p) PROVE ControlTyped' /\ AtHand'
  <2>1. ControlTyped'
    BY <1>2, <1>3, <1>9 DEF ReadVictim, Goto, position, others, ControlTyped
  <2>2. AtHand'
    BY <1>3, <1>9 DEF ReadVictim, Goto, position, others, ControlTyped, AtHand, Storing
  <2>3. QED BY <2>1, <2>2
<1>10. ASSUME NEW p \in Pools, DeleteVictim(p) PROVE ControlTyped' /\ AtHand'
  <2>1. ControlTyped'
    BY <1>3, <1>10 DEF DeleteVictim, Goto, position, others, ControlTyped
  <2>2. AtHand'
    BY <1>3, <1>10 DEF DeleteVictim, Goto, position, others, ControlTyped, AtHand, Storing
  <2>3. QED BY <2>1, <2>2
<1>11. ASSUME NEW p \in Pools, DeleteSlot(p) PROVE ControlTyped' /\ AtHand'
  <2>1. ControlTyped'
    BY <1>3, <1>11 DEF DeleteSlot, Goto, position, others, ControlTyped
  <2>2. AtHand'
    BY <1>3, <1>11 DEF DeleteSlot, Goto, position, others, ControlTyped, AtHand, Storing
  <2>3. QED BY <2>1, <2>2
<1>12. ASSUME NEW p \in Pools, PutByIP(p) PROVE ControlTyped' /\ AtHand'
  <2>1. ControlTyped'
    BY <1>3, <1>12 DEF PutByIP, Goto, position, others, ControlTyped
  <2>2. AtHand'
    BY <1>3, <1>12 DEF PutByIP, Goto, position, others, ControlTyped, AtHand, Storing
  <2>3. QED BY <2>1, <2>2
<1>13. ASSUME NEW p \in Pools, ReturnIP(p) PROVE ControlTyped' /\ AtHand'
  <2>1. ControlTyped'
    BY <1>3, <1>13 DEF ReturnIP, Goto, position, others, ControlTyped, AtHand, Storing
  <2>2. AtHand'
    BY <1>3, <1>13 DEF ReturnIP, Goto, position, others, ControlTyped, AtHand, Storing
  <2>3. QED BY <2>1, <2>2
<1>14. ASSUME NEW p \in Pools, PutByHost(p) PROVE ControlTyped' /\ AtHand'
  <2>1. ControlTyped'
    BY <1>3, <1>14 DEF PutByHost, Goto, Finish, position, others, ControlTyped
  <2>2. AtHand'
    BY <1>3, <1>14 DEF PutByHost, Goto, Finish, position, others, ControlTyped, AtHand, Storing
  <2>3. QED BY <2>1, <2>2
<1>15. ASSUME NEW p \in Pools, FlushIP(p) PROVE ControlTyped' /\ AtHand'
  <2>1. flushes \in Nat /\ MaxEvents \in Nat /\ flushes + 1 \in 0 .. MaxEvents /\ flushes' = flushes + 1
    <3>1. flushes \in Nat /\ cur \in Nat /\ cur >= 1 /\ Events < MaxEvents /\ flushes' = flushes + 1
      BY <1>3, <1>15 DEF FlushIP, ControlTyped, Pools
    <3>2. flushes <= Events /\ Events \in Nat
      <4> DEFINE n == IF cloning = "no" THEN 0 ELSE 1
      <4>1. n \in Nat /\ Events = flushes + cur - 1 + n
        BY DEF Events
      <4> HIDE DEF n
      <4>2. QED BY <3>1, <4>1
    <3>3. QED BY <3>1, <3>2, BoundsAssumption
  <2>2. ControlTyped'
    BY <1>3, <1>15, <2>1 DEF FlushIP, position, lookup, ControlTyped
  <2>3. AtHand'
    BY <1>3, <1>15, <2>1 DEF FlushIP, position, lookup, ControlTyped, AtHand, Storing
  <2>4. QED BY <2>2, <2>3
<1>16. ASSUME NEW p \in Pools, FlushHost(p) PROVE ControlTyped' /\ AtHand'
  <2>1. ControlTyped'
    BY <1>3, <1>16 DEF FlushHost, position, lookup, ControlTyped
  <2>2. AtHand'
    BY <1>3, <1>16 DEF FlushHost, position, lookup, ControlTyped, AtHand, Storing
  <2>3. QED BY <2>1, <2>2
<1>17. ASSUME NEW p \in Pools, FlushReset(p) PROVE ControlTyped' /\ AtHand'
  <2>1. ControlTyped'
    BY NextOffsetFacts, <1>3, <1>17 DEF FlushReset, lookup, ControlTyped
  <2>2. AtHand'
    BY <1>3, <1>17 DEF FlushReset, lookup, ControlTyped, AtHand, Storing
  <2>3. QED BY <2>1, <2>2
<1>18. CASE CloneIP
  BY RangeFacts, <1>3, <1>18 DEF CloneIP, position, lookup, ControlTyped, AtHand, Storing, AtRest
<1>19. CASE CloneHost
  BY RangeFacts, <1>3, <1>19 DEF CloneHost, position, lookup, ControlTyped, AtHand, Storing, AtRest
<1>20. CASE Publish
  BY RangeFacts, NextOffsetFacts, <1>3, <1>20 DEF Publish, position, lookup, ControlTyped, AtHand, Storing, AtRest
<1>21. CASE UNCHANGED vars
  BY <1>3, <1>21 DEF vars, position, lookup, others, ControlTyped, AtHand, Storing
<1>22. QED
  BY <1>4, <1>5, <1>6, <1>7, <1>8, <1>9, <1>10, <1>11, <1>12, <1>13, <1>14, <1>15, <1>16, <1>17, <1>18, <1>19, <1>20, <1>21
     DEF Next, LookupStep, Flush, Reload

LEMMA TypesStep == Types /\ [Next]_vars => Types'
BY CachesTypedStep, ControlTypedStep DEF Types

-----------------------------------------------------------------------------
LEMMA SoundKept ==
    ASSUME NEW K, NEW V, NEW c \in Seq(Elements(K, V)), Sound(c), NEW k
    PROVE  Sound(Get(c, Opt, k, 0)) /\ Sound(Delete(c, k))
<1>1. Linked(c) /\ Len(c) <= Size /\ Len(c) \in Nat /\ Size \in Nat
  BY LenProperties, OptFacts DEF Sound
<1>2. Linked(Get(c, Opt, k, 0)) /\ Len(Get(c, Opt, k, 0)) = Len(c)
  BY <1>1, GetSound
<1>3. Linked(Delete(c, k)) /\ Len(Delete(c, k)) <= Len(c) /\ Len(Delete(c, k)) \in Nat
  BY <1>1, DeleteSound, LenProperties
<1>4. QED BY <1>1, <1>2, <1>3 DEF Sound

(* Every step of a lookup takes the mirror one step further. *)
LEMMA LookupFits ==
    ASSUME Types, NEW p \in Pools, PoolFits(p)
    PROVE  /\ LookupStep(p) \/ TouchIP(p) => PoolFits(p)'
           /\ \A i \in IPs : LookBack(p, i) => PoolFits(p)'
<1> DEFINE c == cacheIP[p]
           d == cacheHost[p]
<1>1. /\ c \in Seq(Elements(Hosts, IPs)) /\ d \in Seq(Elements(IPs, Hosts))
      /\ Len(c) \in Nat /\ Len(d) \in Nat
  BY LenProperties DEF Types, CachesTyped
<1>2. /\ ControlTyped /\ AtHand
      /\ cacheIP \in [Pools -> Seq(Elements(Hosts, IPs))] /\ cacheHost \in [Pools -> Seq(Elements(IPs, Hosts))]
  BY DEF Types, CachesTyped
<1>3. Fits(pc[p], c, d, req[p], slot[p], offset[p], victim[p])
  BY DEF PoolFits
<1>4. Sound(c) /\ Sound(d) /\ Linked(c) /\ Linked(d)
  BY <1>3 DEF Fits, Sound
<1>5. ASSUME NEW h \in Hosts, Lookup(p, h) PROVE PoolFits(p)'
  <2>1. /\ pc[p] = "idle" /\ pc'[p] = (IF h \in Keys(c) THEN "touchHost" ELSE "get")
        /\ cacheIP'[p] = Get(c, Opt, h, 0) /\ cacheHost'[p] = d /\ req'[p] = h
        /\ slot'[p] = IF h \in Keys(c) THEN ValueOf(c, h) ELSE NoIP
    BY <1>2, <1>5 DEF Lookup, Goto, GetIP, position, ControlTyped
  <2> HIDE DEF c, d
  <2>2. Mirror(c, d)
    BY <1>3, <2>1 DEF Fits
  <2>3. CASE h \in Keys(c)
    <3>1. pc'[p] = "touchHost" /\ slot'[p] = ValueOf(c, h)
      BY <2>1, <2>3
    <3>2. Mirror(Get(c, Opt, h, 0), Get(d, Opt, ValueOf(c, h), 0)) /\ Sound(Get(c, Opt, h, 0))
      BY <1>1, <1>4, <2>2, <2>3, GetMirror, SoundKept
    <3>3. Fits("touchHost", cacheIP'[p], d, h, slot'[p], offset'[p], victim'[p])
      BY <1>4, <2>1, <3>1, <3>2 DEF Fits
    <3>4. QED BY <2>1, <3>1, <3>3 DEF PoolFits
  <2>4. CASE h \notin Keys(c)
    <3>1. pc'[p] = "get" /\ Get(c, Opt, h, 0) = c
      BY <1>1, <2>1, <2>4, GetCases
    <3>2. Fits("get", c, d, h, slot'[p], offset'[p], victim'[p])
      BY <1>4, <2>2, <2>4 DEF Fits
    <3>3. QED BY <2>1, <3>1, <3>2 DEF PoolFits
  <2>5. QED BY <2>3, <2>4
<1>6. ASSUME TouchHost(p) PROVE PoolFits(p)'
  <2>1. /\ pc[p] = "touchHost"
        /\ pc'[p] = "idle" /\ cacheIP'[p] = c /\ cacheHost'[p] = Get(d, Opt, slot[p], 0)
        /\ req'[p] = NoHost /\ slot'[p] = NoIP /\ offset'[p] = offset[p] /\ victim'[p] = victim[p]
    BY <1>2, <1>6 DEF TouchHost, Goto, GetHost, Finish, caches, position, ControlTyped
  <2> HIDE DEF c, d
  <2>2. Mirror(c, Get(d, Opt, slot[p], 0)) /\ Sound(Get(d, Opt, slot[p], 0))
    BY <1>1, <1>3, <1>4, <2>1, SoundKept DEF Fits
  <2>3. Fits(pc'[p], cacheIP'[p], cacheHost'[p], req'[p], slot'[p], offset'[p], victim'[p])
    BY <1>3, <2>1, <2>2, <1>4 DEF Fits
  <2>4. QED BY <2>3 DEF PoolFits
<1>7. ASSUME NEW i \in IPs, LookBack(p, i) PROVE PoolFits(p)'
  <2>1. /\ pc[p] = "idle"
        /\ pc'[p] = "touchIP" /\ cacheIP'[p] = c /\ cacheHost'[p] = Get(d, Opt, i, 0)
        /\ req'[p] = ValueOf(d, i) /\ slot'[p] = slot[p] /\ offset'[p] = offset[p] /\ victim'[p] = victim[p]
    BY <1>2, <1>7 DEF LookBack, Goto, GetHost, caches, position, ControlTyped
  <2> HIDE DEF c, d
  <2>2. Mirror(d, c) /\ i \in Keys(d)
    BY <1>3, <1>7, <2>1, MirrorSwap DEF Fits, LookBack, d
  <2>3. Mirror(Get(d, Opt, i, 0), Get(c, Opt, ValueOf(d, i), 0)) /\ Sound(Get(d, Opt, i, 0))
    BY <1>1, <1>4, <2>2, GetMirror, SoundKept
  <2>4. Mirror(Get(c, Opt, ValueOf(d, i), 0), Get(d, Opt, i, 0))
    BY <2>3, MirrorSwap
  <2>5. Fits(pc'[p], cacheIP'[p], cacheHost'[p], req'[p], slot'[p], offset'[p], victim'[p])
    BY <1>3, <2>1, <2>2, <2>3, <2>4, <1>4 DEF Fits
  <2>6. QED BY <2>5 DEF PoolFits
<1>8. ASSUME TouchIP(p) PROVE PoolFits(p)'
  <2>1. /\ pc[p] = "touchIP"
        /\ pc'[p] = "idle" /\ cacheIP'[p] = Get(c, Opt, req[p], 0) /\ cacheHost'[p] = d
        /\ req'[p] = NoHost /\ slot'[p] = NoIP /\ offset'[p] = offset[p] /\ victim'[p] = victim[p]
    BY <1>2, <1>8 DEF TouchIP, Goto, GetIP, Finish, caches, position, ControlTyped
  <2> HIDE DEF c, d
  <2>2. Mirror(Get(c, Opt, req[p], 0), d) /\ Sound(Get(c, Opt, req[p], 0))
    BY <1>1, <1>3, <1>4, <2>1, SoundKept DEF Fits
  <2>3. Fits(pc'[p], cacheIP'[p], cacheHost'[p], req'[p], slot'[p], offset'[p], victim'[p])
    BY <1>3, <2>1, <2>2, <1>4 DEF Fits
  <2>4. QED BY <2>3 DEF PoolFits
<1>9. ASSUME Advance(p) PROVE PoolFits(p)'
  <2>1. /\ pc[p] = "get"
        /\ pc'[p] = (IF Taken(p) THEN "read" ELSE "putIP") /\ cacheIP'[p] = c /\ cacheHost'[p] = d
        /\ req'[p] = req[p] /\ slot'[p] = slot[p] /\ offset'[p] = NextOffset(p) /\ victim'[p] = victim[p]
    BY <1>2, <1>9 DEF Advance, Goto, caches, position, ControlTyped
  <2> HIDE DEF c, d
  <2>2. Mirror(c, d) /\ req[p] \notin Keys(c)
    BY <1>3, <2>1 DEF Fits
  <2>3. ~Taken(p) => NextOffset(p) \notin Keys(d)
    BY DEF Taken, d
  <2>4. (pc'[p] = "read" /\ Taken(p)) \/ (pc'[p] = "putIP" /\ ~Taken(p))
    BY <2>1
  <2>5. Fits(pc'[p], cacheIP'[p], cacheHost'[p], req'[p], slot'[p], offset'[p], victim'[p])
    BY <1>3, <2>1, <2>2, <2>3, <2>4, <1>4 DEF Fits
  <2>6. QED BY <2>5 DEF PoolFits
<1>10. ASSUME ReadVictim(p) PROVE PoolFits(p)'
  <2> DEFINE o == offset[p]
  <2>1. /\ pc[p] = "read" /\ pc'[p] = (IF o \in Keys(d) THEN "delIP" ELSE "delHost")
        /\ cacheIP'[p] = c /\ cacheHost'[p] = Get(d, Opt, o, 0)
        /\ req'[p] = req[p] /\ slot'[p] = o /\ offset'[p] = o
        /\ o \in Keys(d) => victim'[p] = ValueOf(d, o)
    BY <1>2, <1>10 DEF ReadVictim, Goto, GetHost, position, ControlTyped
  <2> HIDE DEF c, d, o
  <2>2. Mirror(c, d) /\ req[p] \notin Keys(c) /\ Sound(Get(d, Opt, o, 0))
    BY <1>1, <1>3, <1>4, <2>1, SoundKept DEF Fits
  <2>3. CASE o \in Keys(d)
    <3>1. Mirror(Delete(c, ValueOf(d, o)), Delete(Get(d, Opt, o, 0), o))
      BY <1>1, <1>4, <2>2, <2>3, DeleteMirror
    <3>2. Fits("delIP", c, Get(d, Opt, o, 0), req[p], o, o, ValueOf(d, o))
      BY <1>4, <2>2, <3>1 DEF Fits
    <3>3. QED BY <2>1, <2>3, <3>2 DEF PoolFits
  <2>4. CASE o \notin Keys(d)
    <3>1. Get(d, Opt, o, 0) = d /\ Delete(d, o) = d
      BY <1>1, <2>4, GetCases, DeleteCases
    <3>2. Fits("delHost", c, d, req[p], o, o, victim'[p])
      BY <1>4, <2>2, <3>1 DEF Fits
    <3>3. QED BY <2>1, <2>4, <3>1, <3>2 DEF PoolFits
  <2>5. QED BY <2>3, <2>4
<1>11. ASSUME DeleteVictim(p) PROVE PoolFits(p)'
  <2>1. /\ pc[p] = "delIP"
        /\ pc'[p] = "delHost" /\ cacheIP'[p] = Delete(c, victim[p]) /\ cacheHost'[p] = d
        /\ req'[p] = req[p] /\ slot'[p] = slot[p] /\ offset'[p] = offset[p] /\ victim'[p] = NoHost
    BY <1>2, <1>11 DEF DeleteVictim, Goto, caches, position, ControlTyped
  <2> HIDE DEF c, d
  <2>2. Mirror(Delete(c, victim[p]), Delete(d, slot[p])) /\ slot[p] = offset[p] /\ req[p] \notin Keys(c)
    BY <1>3, <2>1 DEF Fits
  <2>3. Sound(Delete(c, victim[p])) /\ req[p] \notin Keys(Delete(c, victim[p]))
    BY <1>1, <1>4, <2>2, SoundKept, DeleteSound
  <2>4. Fits(pc'[p], cacheIP'[p], cacheHost'[p], req'[p], slot'[p], offset'[p], victim'[p])
    BY <1>3, <2>1, <2>2, <2>3, <1>4 DEF Fits
  <2>5. QED BY <2>4 DEF PoolFits
<1>12. ASSUME DeleteSlot(p) PROVE PoolFits(p)'
  <2>1. /\ pc[p] = "delHost"
        /\ pc'[p] = "putIP" /\ cacheIP'[p] = c /\ cacheHost'[p] = Delete(d, slot[p])
        /\ req'[p] = req[p] /\ slot'[p] = NoIP /\ offset'[p] = offset[p] /\ victim'[p] = victim[p]
    BY <1>2, <1>12 DEF DeleteSlot, Goto, caches, position, ControlTyped
  <2> HIDE DEF c, d
  <2>2. Mirror(c, Delete(d, slot[p])) /\ slot[p] = offset[p] /\ req[p] \notin Keys(c)
    BY <1>3, <2>1 DEF Fits
  <2>3. Sound(Delete(d, slot[p])) /\ offset[p] \notin Keys(Delete(d, slot[p]))
    BY <1>1, <1>4, <2>2, SoundKept, DeleteSound
  <2>4. Fits(pc'[p], cacheIP'[p], cacheHost'[p], req'[p], slot'[p], offset'[p], victim'[p])
    BY <1>3, <2>1, <2>2, <2>3, <1>4 DEF Fits
  <2>5. QED BY <2>4 DEF PoolFits
<1>13. ASSUME PutByIP(p) PROVE PoolFits(p)'
  <2>1. /\ pc[p] = "putIP"
        /\ pc'[p] = "ret" /\ cacheIP'[p] = c /\ cacheHost'[p] = Set(d, Opt, offset[p], req[p], 0)
        /\ req'[p] = req[p] /\ slot'[p] = slot[p] /\ offset'[p] = offset[p] /\ victim'[p] = victim[p]
    BY <1>2, <1>13 DEF PutByIP, Goto, caches, position, ControlTyped
  <2> HIDE DEF c, d
  <2>2. Mirror(c, d) /\ offset[p] \notin Keys(d) /\ req[p] \notin Keys(c)
    BY <1>3, <2>1 DEF Fits
  <2>3. req[p] \in Hosts /\ offset[p] \in IPs
    BY <1>2, <2>1 DEF ControlTyped, AtHand, Storing
  <2>4. Mirror(Set(c, Opt, req[p], offset[p], 0), Set(d, Opt, offset[p], req[p], 0))
    BY <1>1, <1>4, <2>2, <2>3, SetMirror
  <2>5. Sound(Set(d, Opt, offset[p], req[p], 0))
    BY <1>1, <1>4, <2>2, <2>3, SetSound
  <2>6. \A i \in 1 .. Len(c) : c[i].value # offset[p]
    BY <1>1, <1>4, <2>2, SoundIndex DEF Mirror
  <2>7. Fits(pc'[p], cacheIP'[p], cacheHost'[p], req'[p], slot'[p], offset'[p], victim'[p])
    BY <1>3, <2>1, <2>2, <2>3, <2>4, <2>5, <2>6, <1>4 DEF Fits
  <2>8. QED BY <2>7 DEF PoolFits
<1>14. ASSUME ReturnIP(p) PROVE PoolFits(p)'
  <2>1. /\ pc[p] = "ret"
        /\ pc'[p] = "putHost" /\ cacheIP'[p] = c /\ cacheHost'[p] = d
        /\ req'[p] = req[p] /\ slot'[p] = offset[p] /\ offset'[p] = offset[p] /\ victim'[p] = victim[p]
    BY <1>2, <1>14 DEF ReturnIP, Goto, caches, position, ControlTyped
  <2> HIDE DEF c, d
  <2>2. /\ Mirror(Set(c, Opt, req[p], offset[p], 0), d) /\ req[p] \notin Keys(c)
        /\ \A i \in 1 .. Len(c) : c[i].value # offset[p]
    BY <1>3, <2>1 DEF Fits
  <2>3. Fits(pc'[p], cacheIP'[p], cacheHost'[p], req'[p], slot'[p], offset'[p], victim'[p])
    BY <1>3, <2>1, <2>2, <1>4 DEF Fits
  <2>4. QED BY <2>3 DEF PoolFits
<1>15. ASSUME PutByHost(p) PROVE PoolFits(p)'
  <2>1. /\ pc[p] = "putHost"
        /\ pc'[p] = "idle" /\ cacheIP'[p] = Set(c, Opt, req[p], slot[p], 0) /\ cacheHost'[p] = d
        /\ req'[p] = NoHost /\ slot'[p] = NoIP /\ offset'[p] = offset[p] /\ victim'[p] = victim[p]
    BY <1>2, <1>15 DEF PutByHost, Goto, Finish, caches, position, ControlTyped
  <2> HIDE DEF c, d
  <2>2. Mirror(Set(c, Opt, req[p], slot[p], 0), d) /\ req[p] \notin Keys(c)
    BY <1>3, <2>1 DEF Fits
  <2>3. req[p] \in Hosts /\ slot[p] \in IPs
    BY <1>2, <2>1 DEF AtHand, Storing
  <2>4. Sound(Set(c, Opt, req[p], slot[p], 0))
    BY <1>1, <1>4, <2>2, <2>3, SetSound
  <2>5. Fits(pc'[p], cacheIP'[p], cacheHost'[p], req'[p], slot'[p], offset'[p], victim'[p])
    BY <1>3, <2>1, <2>2, <2>3, <2>4, <1>4 DEF Fits
  <2>6. QED BY <2>5 DEF PoolFits
<1>16. QED
  BY <1>5, <1>6, <1>7, <1>8, <1>9, <1>10, <1>11, <1>12, <1>13, <1>14, <1>15 DEF LookupStep

-----------------------------------------------------------------------------
(* A lookup is of the pool in use, and touches nothing but that pool. *)
LookupAny(p) == LookupStep(p) \/ TouchIP(p) \/ \E i \in IPs : LookBack(p, i)

LEMMA LookupFrame ==
    ASSUME Types, NEW p \in Pools, LookupAny(p)
    PROVE  /\ p = cur
           /\ flushing' = flushing /\ flushes' = flushes /\ cur' = cur /\ cloning' = cloning /\ raced' = raced
           /\ \A q \in Pools : q # p => cacheIP'[q] = cacheIP[q] /\ cacheHost'[q] = cacheHost[q]
<1>1. p = cur
  BY DEF Types, AtHand, LookupAny, LookupStep, Lookup, LookBack, TouchHost, TouchIP, Advance, ReadVictim,
         DeleteVictim, DeleteSlot, PutByIP, ReturnIP, PutByHost, Goto
<1>2. flushing' = flushing /\ flushes' = flushes /\ cur' = cur /\ cloning' = cloning /\ raced' = raced
  BY DEF LookupAny, LookupStep, Lookup, LookBack, TouchHost, TouchIP, Advance, ReadVictim,
         DeleteVictim, DeleteSlot, PutByIP, ReturnIP, PutByHost, others
<1>3. \A q \in Pools : q # p => cacheIP'[q] = cacheIP[q] /\ cacheHost'[q] = cacheHost[q]
  <2> DEFINE S == Seq(Elements(Hosts, IPs))
             R == Seq(Elements(IPs, Hosts))
  <2>1. cacheIP \in [Pools -> S] /\ cacheHost \in [Pools -> R]
    BY DEF Types, CachesTyped
  <2> HIDE DEF S, R
  <2>2. QED
    BY <2>1 DEF LookupAny, LookupStep, Lookup, LookBack, TouchHost, TouchIP, Advance, ReadVictim,
           DeleteVictim, DeleteSlot, PutByIP, ReturnIP, PutByHost, GetIP, GetHost, caches
<1>4. QED BY <1>1, <1>2, <1>3

LEMMA NextCases ==
    ASSUME [Next]_vars
    PROVE  \/ \E p \in Pools : LookupAny(p) \/ Flush(p)
           \/ CloneIP \/ CloneHost \/ Publish \/ UNCHANGED vars
BY DEF Next, LookupAny, Reload

(* A flush is of the pool in use, and counts. *)
LEMMA FlushFrame ==
    ASSUME Types, NEW p \in Pools, Flush(p)
    PROVE  p = cur /\ flushes' # 0
<1>1. ControlTyped /\ AtHand
  BY DEF Types
<1>2. flushes \in Nat
  BY <1>1 DEF ControlTyped
<1>3. QED BY <1>1, <1>2 DEF Flush, FlushIP, FlushHost, FlushReset, AtHand

(* What a hand-over leaves alone. *)
LEMMA ReloadFrame ==
    ASSUME Types
    PROVE  /\ CloneIP \/ CloneHost => /\ cacheIP'[cur] = cacheIP[cur] /\ cacheHost'[cur] = cacheHost[cur]
                                     /\ cur' = cur /\ flushes' = flushes /\ raced' \in BOOLEAN /\ (~raced' => ~raced)
                                     /\ position' = position /\ lookup' = lookup
           /\ Publish => /\ cur' = cur + 1 /\ cur' \in Pools /\ cur' # 1 /\ cloning' = "no"
                         /\ flushes' = flushes /\ raced' = raced
                         /\ cacheIP'[cur + 1] = cacheIP[cur + 1] /\ cacheHost'[cur + 1] = cacheHost[cur + 1]
                         /\ pc'[cur + 1] = "idle"
<1> DEFINE S == Seq(Elements(Hosts, IPs))
           R == Seq(Elements(IPs, Hosts))
<1>1. cacheIP \in [Pools -> S] /\ cacheHost \in [Pools -> R] /\ ControlTyped /\ AtHand
  BY DEF Types, CachesTyped
<1> HIDE DEF S, R
<1>2. cur \in Nat /\ cur # 0 /\ cur + 1 # cur /\ cur + 1 # 1
  BY <1>1 DEF ControlTyped, Pools
<1>3. CloneIP => /\ cacheIP'[cur] = cacheIP[cur] /\ cacheHost'[cur] = cacheHost[cur]
                 /\ cur' = cur /\ flushes' = flushes /\ raced' \in BOOLEAN /\ (~raced' => ~raced)
                 /\ position' = position /\ lookup' = lookup
  BY <1>1, <1>2 DEF CloneIP, ControlTyped
<1>4. CloneHost => /\ cacheIP'[cur] = cacheIP[cur] /\ cacheHost'[cur] = cacheHost[cur]
                   /\ cur' = cur /\ flushes' = flushes /\ raced' \in BOOLEAN /\ (~raced' => ~raced)
                   /\ position' = position /\ lookup' = lookup
  BY <1>1, <1>2 DEF CloneHost, ControlTyped
<1>5. Publish => /\ cur' = cur + 1 /\ cur' \in Pools /\ cur' # 1 /\ cloning' = "no"
                 /\ flushes' = flushes /\ raced' = raced
                 /\ cacheIP'[cur + 1] = cacheIP[cur + 1] /\ cacheHost'[cur + 1] = cacheHost[cur + 1]
                 /\ pc'[cur + 1] = "idle"
  BY <1>1, <1>2 DEF Publish, ControlTyped, AtHand
<1>6. QED BY <1>3, <1>4, <1>5

-----------------------------------------------------------------------------
(* A list over fewer elements is one over more. *)
LEMMA WiderCaches ==
    ASSUME NEW K, NEW V, NEW W, W \subseteq V
    PROVE  /\ Seq(Elements(K, W)) \subseteq Seq(Elements(K, V))
           /\ Seq(Elements(W, K)) \subseteq Seq(Elements(V, K))
<1>1. Elements(K, W) \subseteq Elements(K, V) /\ Elements(W, K) \subseteq Elements(V, K)
  BY DEF Elements
<1>2. QED BY <1>1

(* What a pool may hold: its own addresses, those of the pools before it,  *)
(* and more once there was a flush.                                        *)
LEMMA InheritableFacts ==
    ASSUME Types, NEW p \in Pools
    PROVE  /\ NextOffset(p) \in Inheritable(p) /\ (flushes # 0 => range[p].first - 1 \in Inheritable(p))
           /\ \A q \in Pools : p <= q => Inheritable(p) \subseteq Inheritable(q)
           /\ range' = range /\ (flushes' = flushes \/ flushes' # 0) => Inheritable(p) \subseteq Inheritable(p)'
           /\ range' = range /\ flushes' = flushes => Inheritable(p)' = Inheritable(p)
<1>1. ControlTyped /\ p \in Nat /\ p \in 1 .. p
  BY DEF Types, Pools
<1>2. Allocatable(range[p]) \subseteq Inheritable(p) /\ (flushes # 0 => IPsOf(range[p]) \subseteq Inheritable(p))
  BY <1>1, NextOffsetFacts DEF Inheritable
<1>3. NextOffset(p) \in Inheritable(p) /\ (flushes # 0 => range[p].first - 1 \in Inheritable(p))
  BY <1>1, <1>2, NextOffsetFacts
<1>4. \A q \in Pools : p <= q => Inheritable(p) \subseteq Inheritable(q)
  <2>1. \A q \in Pools : p <= q => 1 .. p \subseteq 1 .. q
    BY <1>1, RangeFacts
  <2>2. QED BY <2>1 DEF Inheritable
<1>5. \A q \in 1 .. p : Allocatable(range[q]) \subseteq IPsOf(range[q])
  <2>1. \A q \in 1 .. p : q \in Pools
    BY <1>1, BoundsAssumption DEF Pools
  <2>2. QED BY <1>1, <2>1, NextOffsetFacts
<1>6. range' = range /\ (flushes' = flushes \/ flushes' # 0) => Inheritable(p) \subseteq Inheritable(p)'
  BY <1>5 DEF Inheritable
<1>7. range' = range /\ flushes' = flushes => Inheritable(p)' = Inheritable(p)
  BY DEF Inheritable
<1>8. QED BY <1>3, <1>4, <1>6, <1>7

(* A lookup stores what its pool may hold. *)
LEMMA LookupInherits ==
    ASSUME Types, Inherited, NEW p \in Pools, LookupAny(p)
    PROVE  Inherited'
<1> DEFINE H == Inheritable(p)
           S == Seq(Elements(Hosts, H))
           R == Seq(Elements(H, Hosts))
           c == cacheIP[p]
           d == cacheHost[p]
           c2 == cacheIP'[p]
           d2 == cacheHost'[p]
           s2 == slot'[p]
           o2 == offset'[p]
           late == {"read", "delIP", "delHost", "putIP", "ret"}
<1>1. /\ c \in S /\ d \in R /\ slot[p] \in H \cup {NoIP} /\ (pc[p] = "putHost" => slot[p] \in H)
      /\ pc[p] \in late => offset[p] \in H
  BY DEF Inherited, Inherits
<1>2. /\ \A k : Get(c, Opt, k, 0) \in S /\ Get(d, Opt, k, 0) \in R /\ Delete(c, k) \in S /\ Delete(d, k) \in R
      /\ \A k \in Hosts, a \in H : Set(c, Opt, k, a, 0) \in S /\ Set(d, Opt, a, k, 0) \in R
      /\ \A k \in Keys(c) : ValueOf(c, k) \in H
  BY <1>1, GetCases, DeleteCases, SetCases, IndexFound
<1>3. /\ range' = range /\ flushes' = flushes
      /\ \A q \in Pools : q # p => /\ cacheIP'[q] = cacheIP[q] /\ cacheHost'[q] = cacheHost[q]
                                   /\ pc'[q] = pc[q] /\ slot'[q] = slot[q] /\ offset'[q] = offset[q]
  <2>1. range' = range /\ flushes' = flushes
    BY DEF LookupAny, LookupStep, Lookup, LookBack, TouchHost, TouchIP, Advance, ReadVictim,
           DeleteVictim, DeleteSlot, PutByIP, ReturnIP, PutByHost, others
  <2>2. \A q \in Pools : q # p => pc'[q] = pc[q] /\ slot'[q] = slot[q] /\ offset'[q] = offset[q]
    BY DEF Types, ControlTyped, LookupAny, LookupStep, Lookup, LookBack, TouchHost, TouchIP, Advance, ReadVictim,
           DeleteVictim, DeleteSlot, PutByIP, ReturnIP, PutByHost, Goto, Finish, position
  <2>3. QED BY <2>1, <2>2, LookupFrame
<1>4. \A q \in Pools : Inheritable(q)' = Inheritable(q)
  BY <1>3, InheritableFacts
<1>5. ASSUME NEW q \in Pools, q # p PROVE Inherits(q)'
  <2>1. Inherits(q)
    BY DEF Inherited
  <2>2. QED BY <1>3, <1>4, <1>5, <2>1 DEF Inherits
<1>6. ASSUME c2 \in S, d2 \in R, s2 \in H \cup {NoIP}, pc'[p] = "putHost" => s2 \in H, pc'[p] \in late => o2 \in H
      PROVE  Inherits(p)'
  BY <1>4, <1>6 DEF Inherits
<1>7. /\ cacheIP \in [Pools -> Seq(Elements(Hosts, IPs))] /\ cacheHost \in [Pools -> Seq(Elements(IPs, Hosts))]
      /\ slot \in [Pools -> IPs \cup {NoIP}] /\ offset \in [Pools -> IPs] /\ DOMAIN pc = Pools
      /\ NextOffset(p) \in H /\ (Storing(p) => req[p] \in Hosts)
  BY InheritableFacts DEF Types, CachesTyped, ControlTyped, AtHand
<1> HIDE DEF H, S, R
<1>8. ASSUME NEW h \in Hosts, Lookup(p, h) PROVE Inherits(p)'
  BY <1>1, <1>2, <1>6, <1>7, <1>8 DEF Lookup, Goto, GetIP, position
<1>9. ASSUME TouchHost(p) PROVE Inherits(p)'
  BY <1>1, <1>2, <1>6, <1>7, <1>9 DEF TouchHost, Goto, GetHost, Finish, position
<1>10. ASSUME NEW i \in IPs, LookBack(p, i) PROVE Inherits(p)'
  BY <1>1, <1>2, <1>6, <1>7, <1>10 DEF LookBack, Goto, GetHost, position
<1>11. ASSUME TouchIP(p) PROVE Inherits(p)'
  BY <1>1, <1>2, <1>6, <1>7, <1>11 DEF TouchIP, Goto, GetIP, Finish, position
<1>12. ASSUME Advance(p) PROVE Inherits(p)'
  BY <1>1, <1>2, <1>6, <1>7, <1>12 DEF Advance, Goto, caches
<1>13. ASSUME ReadVictim(p) PROVE Inherits(p)'
  BY <1>1, <1>2, <1>6, <1>7, <1>13 DEF ReadVictim, Goto, GetHost, position
<1>14. ASSUME DeleteVictim(p) PROVE Inherits(p)'
  BY <1>1, <1>2, <1>6, <1>7, <1>14 DEF DeleteVictim, Goto, position
<1>15. ASSUME DeleteSlot(p) PROVE Inherits(p)'
  BY <1>1, <1>2, <1>6, <1>7, <1>15 DEF DeleteSlot, Goto, position
<1>16. ASSUME PutByIP(p) PROVE Inherits(p)'
  BY <1>1, <1>2, <1>6, <1>7, <1>16 DEF PutByIP, Goto, position, Storing
<1>17. ASSUME ReturnIP(p) PROVE Inherits(p)'
  BY <1>1, <1>2, <1>6, <1>7, <1>17 DEF ReturnIP, Goto, position, caches
<1>18. ASSUME PutByHost(p) PROVE Inherits(p)'
  BY <1>1, <1>2, <1>6, <1>7, <1>18 DEF PutByHost, Goto, Finish, position, Storing
<1>19. Inherits(p)'
  BY <1>8, <1>9, <1>10, <1>11, <1>12, <1>13, <1>14, <1>15, <1>16, <1>17, <1>18 DEF LookupAny, LookupStep
<1>20. QED BY <1>5, <1>19 DEF Inherited

(* Neither a flush nor a reload brings in an address from elsewhere.       *)
LEMMA InheritedStep ==
    ASSUME Types, Inherited, [Next]_vars
    PROVE  Inherited'
<1>1. ControlTyped /\ AtHand /\ flushes \in Nat
  BY DEF Types, ControlTyped
<1>2. \A p \in Pools : Inherits(p)
  BY DEF Inherited
<1>3. ASSUME NEW p \in Pools, LookupAny(p) PROVE Inherited'
  BY <1>3, LookupInherits
(* What is to be shown of each other step. *)
<1>4. ASSUME range' = range, flushes' = flushes \/ flushes' # 0, NEW p \in Pools,
             cacheIP'[p] \in Seq(Elements(Hosts, Inheritable(p))),
             cacheHost'[p] \in Seq(Elements(Inheritable(p), Hosts)),
             \/ pc'[p] = pc[p] /\ slot'[p] = slot[p] /\ offset'[p] = offset[p]
             \/ pc'[p] = "idle" /\ slot'[p] = NoIP
             \/ /\ pc'[p] = pc[p] /\ slot'[p] = slot[p] /\ offset'[p] \in Inheritable(p)
      PROVE  Inherits(p)'
  <2> DEFINE H == Inheritable(p)
             H2 == Inheritable(p)'
  <2>1. H \subseteq H2
    BY <1>4, InheritableFacts
  <2>2. /\ cacheIP'[p] \in Seq(Elements(Hosts, H2)) /\ cacheHost'[p] \in Seq(Elements(H2, Hosts))
    BY <1>4, <2>1, WiderCaches
  <2>3. /\ slot[p] \in H \cup {NoIP} /\ (pc[p] = "putHost" => slot[p] \in H)
        /\ pc[p] \in {"read", "delIP", "delHost", "putIP", "ret"} => offset[p] \in H
    BY <1>2 DEF Inherits
  <2> HIDE DEF H
  <2>4. /\ slot'[p] \in H2 \cup {NoIP} /\ (pc'[p] = "putHost" => slot'[p] \in H2)
        /\ pc'[p] \in {"read", "delIP", "delHost", "putIP", "ret"} => offset'[p] \in H2
    BY <1>4, <2>1, <2>3 DEF H
  <2>5. QED BY <2>2, <2>4 DEF Inherits
<1>5. /\ \A p \in Pools : /\ Clear(cacheIP[p]) \in Seq(Elements(Hosts, Inheritable(p)))
                          /\ Clear(cacheHost[p]) \in Seq(Elements(Inheritable(p), Hosts))
                          /\ Clone(cacheIP[p]) \in Seq(Elements(Hosts, Inheritable(p)))
                          /\ Clone(cacheHost[p]) \in Seq(Elements(Inheritable(p), Hosts))
      /\ \A T : EmptyCache \in Seq(T)
  BY <1>2, ClearCloneType, EmptySeq DEF Inherits, EmptyCache
<1>6. /\ cacheIP \in [Pools -> Seq(Elements(Hosts, IPs))] /\ cacheHost \in [Pools -> Seq(Elements(IPs, Hosts))]
  BY DEF Types, CachesTyped
<1>7. ASSUME NEW p \in Pools, Flush(p) PROVE Inherited'
  <2>1. p = cur /\ flushes' # 0 /\ range' = range /\ pc' = pc /\ slot' = slot
    BY <1>7, FlushFrame DEF Flush, FlushIP, FlushHost, FlushReset, lookup
  <2>2. ASSUME NEW q \in Pools PROVE Inherits(q)'
    <3>1. cacheIP'[q] \in {cacheIP[q], Clear(cacheIP[q])} /\ cacheHost'[q] \in {cacheHost[q], Clear(cacheHost[q])}
      BY <1>6, <1>7 DEF Flush, FlushIP, FlushHost, FlushReset, caches
    <3>2. cacheIP'[q] \in Seq(Elements(Hosts, Inheritable(q))) /\ cacheHost'[q] \in Seq(Elements(Inheritable(q), Hosts))
      BY <1>2, <1>5, <3>1 DEF Inherits
    <3>3. offset'[q] = offset[q] \/ offset'[q] \in Inheritable(q)
      <4>1. CASE FlushIP(p) \/ FlushHost(p)
        BY <4>1 DEF FlushIP, FlushHost, position
      <4>2. CASE FlushReset(p)
        <5>1. flushes # 0
          BY <1>1, <2>1, <4>2 DEF AtHand, FlushReset
        <5>2. range[p].first - 1 \in Inheritable(p)
          BY <5>1, InheritableFacts
        <5>3. QED BY <1>1, <4>2, <5>2 DEF FlushReset, ControlTyped
      <4>3. QED BY <1>7, <4>1, <4>2 DEF Flush
    <3>4. QED BY <1>4, <2>1, <3>2, <3>3
  <2>3. QED BY <2>2 DEF Inherited
<1>8. CASE CloneIP \/ CloneHost
  <2>1. /\ cur \in Pools /\ cur + 1 \in Pools /\ cur <= cur + 1
        /\ range' = range /\ flushes' = flushes /\ pc' = pc /\ slot' = slot /\ offset' = offset
    BY <1>1, <1>8, RangeFacts DEF CloneIP, CloneHost, lookup, position, AtHand, ControlTyped
  <2>2. /\ Clone(cacheIP[cur]) \in Seq(Elements(Hosts, Inheritable(cur + 1)))
        /\ Clone(cacheHost[cur]) \in Seq(Elements(Inheritable(cur + 1), Hosts))
    <3>1. Inheritable(cur) \subseteq Inheritable(cur + 1)
      BY <2>1, InheritableFacts
    <3>2. QED BY <1>5, <2>1, <3>1, WiderCaches
  <2>3. ASSUME NEW q \in Pools PROVE Inherits(q)'
    <3>1. /\ cacheIP'[q] = cacheIP[q] \/ (q = cur + 1 /\ cacheIP'[q] = Clone(cacheIP[cur]))
          /\ cacheHost'[q] = cacheHost[q] \/ (q = cur + 1 /\ cacheHost'[q] = Clone(cacheHost[cur]))
      BY <1>6, <1>8, <2>1 DEF CloneIP, CloneHost
    <3>2. cacheIP'[q] \in Seq(Elements(Hosts, Inheritable(q))) /\ cacheHost'[q] \in Seq(Elements(Inheritable(q), Hosts))
      BY <1>2, <2>2, <3>1 DEF Inherits
    <3>3. QED BY <1>4, <2>1, <3>2
  <2>4. QED BY <2>3 DEF Inherited
<1>9. CASE Publish
  <2>1. range' = range /\ flushes' = flushes
    BY <1>9 DEF Publish
  <2>2. ASSUME NEW q \in Pools PROVE Inherits(q)'
    <3>1. /\ cacheIP'[q] = IF q = cur THEN EmptyCache ELSE cacheIP[q]
          /\ cacheHost'[q] = IF q = cur THEN EmptyCache ELSE cacheHost[q]
          /\ pc'[q] = IF q = cur THEN "idle" ELSE pc[q]
          /\ slot'[q] = IF q = cur THEN NoIP ELSE slot[q]
          /\ q # cur => offset'[q] = offset[q]
      BY <1>1, <1>6, <1>9 DEF Publish, ControlTyped
    <3>2. cacheIP'[q] \in Seq(Elements(Hosts, Inheritable(q))) /\ cacheHost'[q] \in Seq(Elements(Inheritable(q), Hosts))
      BY <1>2, <1>5, <3>1 DEF Inherits
    <3>3. QED BY <1>4, <2>1, <3>1, <3>2
  <2>3. QED BY <2>2 DEF Inherited
<1>10. CASE UNCHANGED vars
  <2>1. /\ range' = range /\ flushes' = flushes /\ pc' = pc /\ slot' = slot /\ offset' = offset
        /\ cacheIP' = cacheIP /\ cacheHost' = cacheHost
    BY <1>10 DEF vars, caches, position, lookup, others
  <2>2. ASSUME NEW q \in Pools PROVE Inherits(q)'
    <3>1. cacheIP[q] \in Seq(Elements(Hosts, Inheritable(q))) /\ cacheHost[q] \in Seq(Elements(Inheritable(q), Hosts))
      BY <1>2 DEF Inherits
    <3>2. QED BY <1>4, <2>1, <3>1
  <2>3. QED BY <2>2 DEF Inherited
<1>11. QED BY <1>3, <1>7, <1>8, <1>9, <1>10, NextCases

-----------------------------------------------------------------------------
LEMMA CurFitsStep ==
    ASSUME Types, CurFits, CloneFits, [Next]_vars
    PROVE  CurFits'
<1> SUFFICES ASSUME flushes' = 0, cur' = 1 \/ ~raced' PROVE PoolFits(cur)'
  BY DEF CurFits
<1>1. ASSUME NEW p \in Pools, LookupAny(p) PROVE PoolFits(cur)'
  <2>1. p = cur /\ cur' = cur /\ flushes' = flushes /\ raced' = raced
    BY <1>1, LookupFrame
  <2>2. PoolFits(p)
    BY <2>1 DEF CurFits
  <2>3. PoolFits(p)'
    BY <1>1, <2>2, LookupFits DEF LookupAny
  <2>4. QED BY <2>1, <2>3 DEF PoolFits
<1>2. ASSUME NEW p \in Pools, Flush(p) PROVE FALSE
  BY <1>2, FlushFrame
<1>3. CASE CloneIP \/ CloneHost
  <2>1. PoolFits(cur)
    BY <1>3, ReloadFrame DEF CurFits
  <2>2. QED BY <1>3, <2>1, ReloadFrame DEF PoolFits, position, lookup
<1>4. CASE Publish
  <2>1. Calm /\ cloning = "publish"
    BY <1>4, ReloadFrame DEF Publish, Calm
  <2>2. /\ Sound(cacheIP[cur + 1]) /\ Sound(cacheHost[cur + 1])
        /\ Mirror(cacheIP[cur + 1], cacheHost[cur + 1])
    BY <2>1 DEF CloneFits
  <2>3. cur' = cur + 1 /\ pc'[cur'] = "idle" /\ cacheIP'[cur'] = cacheIP[cur + 1] /\ cacheHost'[cur'] = cacheHost[cur + 1]
    BY <1>4, ReloadFrame
  <2>4. QED BY <2>2, <2>3 DEF PoolFits, Fits
<1>5. CASE UNCHANGED vars
  BY <1>5 DEF vars, caches, position, lookup, others, CurFits, PoolFits
<1>6. QED BY <1>1, <1>2, <1>3, <1>4, <1>5, NextCases

(* CloneTo of a pool at rest makes the same caches again. *)
LEMMA CloneIsSame ==
    ASSUME Types, CurFits, CloneHost, Calm'
    PROVE  /\ Calm /\ AtRest(cur) /\ PoolFits(cur)
           /\ cacheIP'[cur + 1] = cacheIP[cur] /\ cacheHost'[cur + 1] = cacheHost[cur]
<1>1. Calm /\ AtRest(cur) /\ cacheIP[cur + 1] = Clone(cacheIP[cur])
  BY DEF CloneHost, Calm
<1>2. PoolFits(cur)
  BY <1>1 DEF CurFits, Calm
<1>3. Linked(cacheIP[cur]) /\ Linked(cacheHost[cur])
  BY <1>2 DEF PoolFits, Fits, Sound
<1>4. cacheIP[cur] \in Seq(Elements(Hosts, IPs)) /\ cacheHost[cur] \in Seq(Elements(IPs, Hosts)) /\ cur + 1 \in Pools
  BY DEF Types, CachesTyped, ControlTyped, AtHand, CloneHost
<1>5. Clone(cacheIP[cur]) = cacheIP[cur] /\ Clone(cacheHost[cur]) = cacheHost[cur]
  BY <1>3, <1>4, ClearCloneType
<1>6. cacheIP'[cur + 1] = cacheIP[cur + 1] /\ cacheHost'[cur + 1] = Clone(cacheHost[cur])
  BY <1>4 DEF CloneHost, Types, CachesTyped
<1>7. QED BY <1>1, <1>2, <1>5, <1>6

LEMMA CloneFitsStep ==
    ASSUME Types, CurFits, CloneFits, [Next]_vars
    PROVE  CloneFits'
<1> SUFFICES ASSUME Calm', cloning' = "publish"
             PROVE  /\ Sound(cacheIP'[cur' + 1]) /\ Sound(cacheHost'[cur' + 1])
                    /\ Mirror(cacheIP'[cur' + 1], cacheHost'[cur' + 1])
  BY DEF CloneFits
<1>1. ASSUME NEW p \in Pools, LookupAny(p)
      PROVE  /\ Sound(cacheIP'[cur' + 1]) /\ Sound(cacheHost'[cur' + 1])
             /\ Mirror(cacheIP'[cur' + 1], cacheHost'[cur' + 1])
  <2>1. p = cur /\ cur' = cur /\ flushes' = flushes /\ raced' = raced /\ cloning' = cloning
    BY <1>1, LookupFrame
  <2>2. cur + 1 \in Pools /\ cur + 1 # p
    BY <2>1 DEF Types, ControlTyped, AtHand, Pools
  <2>3. cacheIP'[cur + 1] = cacheIP[cur + 1] /\ cacheHost'[cur + 1] = cacheHost[cur + 1]
    BY <1>1, <2>2, LookupFrame
  <2>4. QED BY <2>1, <2>3 DEF CloneFits, Calm
<1>2. ASSUME NEW p \in Pools, Flush(p) PROVE FALSE
  BY <1>2, FlushFrame DEF Calm
<1>3. CASE CloneIP
  BY <1>3 DEF CloneIP
<1>4. CASE CloneHost
  <2>1. PoolFits(cur) /\ pc[cur] = "idle" /\ cur' = cur
        /\ cacheIP'[cur + 1] = cacheIP[cur] /\ cacheHost'[cur + 1] = cacheHost[cur]
    BY <1>4, CloneIsSame, ReloadFrame DEF AtRest
  <2>2. QED BY <2>1 DEF PoolFits, Fits
<1>5. CASE Publish
  BY <1>5, ReloadFrame
<1>6. CASE UNCHANGED vars
  BY <1>6 DEF vars, caches, others, CloneFits, Calm
<1>7. QED BY <1>1, <1>2, <1>3, <1>4, <1>5, <1>6, NextCases

LEMMA InOrderStep ==
    ASSUME Types, CurFits, InOrder, [Next]_vars
    PROVE  InOrder'
<1> SUFFICES ASSUME cur' = 1, flushes' = 0, ~cycle'[cur']
             PROVE  Ordered(pc'[cur'], cacheHost'[cur'], offset'[cur'])
  BY DEF InOrder
<1>1. ASSUME NEW p \in Pools, LookupAny(p)
      PROVE  Ordered(pc'[p], cacheHost'[p], offset'[p])
  <2> DEFINE c == cacheIP[p]
             d == cacheHost[p]
             o == offset[p]
  <2>1. p = cur /\ cur' = cur /\ flushes' = flushes
    BY <1>1, LookupFrame
  <2>2. /\ ControlTyped /\ AtHand /\ d \in Seq(Elements(IPs, Hosts))
        /\ cacheHost \in [Pools -> Seq(Elements(IPs, Hosts))]
    BY DEF Types, CachesTyped
  <2>3. PoolFits(p) /\ Sound(d) /\ Linked(d)
    BY <2>1 DEF CurFits, PoolFits, Fits, Sound
  <2>4. ~cycle[p]
    <3>1. cycle' = cycle \/ Advance(p)
      BY <1>1 DEF LookupAny, LookupStep, Lookup, LookBack, TouchHost, TouchIP, ReadVictim,
             DeleteVictim, DeleteSlot, PutByIP, ReturnIP, PutByHost, position
    <3>2. QED BY <2>1, <2>2, <3>1 DEF Advance, ControlTyped
  <2>5. Ordered(pc[p], d, o)
    BY <2>1, <2>4 DEF InOrder
  <2>6. o \in Nat /\ \A i \in 1 .. Len(d) : d[i].key \in Nat
    <3>1. \A i \in 1 .. Len(d) : d[i] \in Elements(IPs, Hosts)
      BY <2>2, ElementOfSeq
    <3>2. QED BY <2>2, <3>1, RangeFacts DEF Elements, ControlTyped
  <2>7. CASE \/ (\E h \in Hosts : Lookup(p, h)) \/ TouchIP(p) \/ ReturnIP(p) \/ PutByHost(p)
    <3>1. cacheHost'[p] = d /\ offset'[p] = o /\ pc'[p] \in {"idle", "touchHost", "get", "putHost"}
      BY <2>2, <2>7 DEF Lookup, TouchIP, ReturnIP, PutByHost, Goto, caches, position, ControlTyped
    <3>2. QED BY <2>5, <3>1 DEF Ordered
  <2>8. CASE TouchHost(p) \/ \E i \in IPs : LookBack(p, i)
    <3>1. PICK i : cacheHost'[p] = Get(d, Opt, i, 0) /\ offset'[p] = o /\ pc'[p] \in {"idle", "touchIP"}
      BY <2>2, <2>8 DEF TouchHost, LookBack, Goto, GetHost, position, ControlTyped
    <3>2. Within(Get(d, Opt, i, 0), d)
      BY <2>2, <2>3, GetSound
    <3> HIDE DEF d
    <3>3. QED BY <2>5, <3>1, <3>2 DEF Ordered, Within
  <2>9. CASE Advance(p)
    <3>1. ~Wraps(p) /\ NextOffset(p) = o + 1 /\ offset'[p] = o + 1 /\ cacheHost'[p] = d
      BY <2>1, <2>2, <2>9 DEF Advance, NextOffset, caches, ControlTyped
    <3>2. o + 1 \notin Keys(d)
      <4>1. o + 1 \in Keys(d) => \E i \in 1 .. Len(d) : d[i].key = o + 1
        BY <2>2, <2>3, SoundIndex
      <4>2. QED BY <2>5, <2>6, <4>1 DEF Ordered
    <3>3. pc'[p] = "putIP"
      BY <2>2, <2>4, <2>9, <3>1, <3>2 DEF Advance, Goto, Taken, ControlTyped
    <3>4. QED BY <2>5, <2>6, <3>1, <3>3 DEF Ordered
  <2>10. CASE ReadVictim(p) \/ DeleteVictim(p) \/ DeleteSlot(p)
    BY <2>5, <2>10 DEF Ordered, ReadVictim, DeleteVictim, DeleteSlot, Goto
  <2>11. CASE PutByIP(p)
    <3>1. /\ pc[p] = "putIP" /\ pc'[p] = "ret" /\ offset'[p] = o
          /\ cacheHost'[p] = Set(d, Opt, o, req[p], 0)
      BY <2>2, <2>11 DEF PutByIP, Goto, position, ControlTyped
    <3>2. o \in IPs /\ req[p] \in Hosts /\ o \notin Keys(d)
      BY <2>2, <2>3, <3>1 DEF ControlTyped, AtHand, Storing, PoolFits, Fits
    <3>3. \A j \in 1 .. Len(cacheHost'[p]) :
              cacheHost'[p][j] = Entry(o, req[p], 0) \/ \E i \in 1 .. Len(d) : cacheHost'[p][j] = d[i]
      BY <2>2, <2>3, <3>1, <3>2, SetSound
    <3> HIDE DEF d
    <3>4. QED BY <2>5, <2>6, <3>1, <3>3 DEF Ordered, Entry
  <2>12. QED
    BY <1>1, <2>7, <2>8, <2>9, <2>10, <2>11 DEF LookupAny, LookupStep
<1>2. ASSUME NEW p \in Pools, Flush(p) PROVE FALSE
  BY <1>2, FlushFrame
<1>3. CASE CloneIP \/ CloneHost
  <2>1. Ordered(pc[cur], cacheHost[cur], offset[cur])
    BY <1>3, ReloadFrame DEF InOrder, position
  <2>2. QED BY <1>3, <2>1, ReloadFrame DEF position, lookup
<1>4. CASE Publish
  BY <1>4, ReloadFrame
<1>5. CASE UNCHANGED vars
  BY <1>5 DEF vars, caches, position, lookup, others, InOrder
<1>6. ASSUME NEW p \in Pools, LookupAny(p) PROVE p = cur'
  BY <1>6, LookupFrame
<1>7. QED BY <1>1, <1>2, <1>3, <1>4, <1>5, <1>6, NextCases

-----------------------------------------------------------------------------
(* The inductive invariant of the pool. *)
THEOREM Invariance == Spec => []PoolInvariant
<1>1. Init => PoolInvariant
  <2> SUFFICES ASSUME Init PROVE PoolInvariant
    OBVIOUS
  <2>1. Types
    BY TypesInit
  <2>2. 1 \in Pools /\ cur = 1 /\ cacheIP[1] = <<>> /\ cacheHost[1] = <<>> /\ pc[1] = "idle" /\ cloning = "no"
    BY RangeFacts DEF Init, EmptyCache
  <2>3. Sound(<<>>) /\ Mirror(<<>>, <<>>) /\ \A o : Ordered("idle", <<>>, o)
    BY OptFacts DEF Sound, Linked, Mirror, Ordered
  <2>4. CurFits
    BY <2>2, <2>3 DEF CurFits, PoolFits, Fits
  <2>5. CloneFits /\ InOrder
    BY <2>2, <2>3 DEF CloneFits, InOrder
  <2>6. Inherited
    <3>1. \A T : EmptyCache \in Seq(T)
      BY EmptySeq DEF EmptyCache
    <3>2. QED BY <3>1 DEF Init, Inherited, Inherits
  <2>7. QED BY <2>1, <2>4, <2>5, <2>6 DEF PoolInvariant
<1>2. PoolInvariant /\ [Next]_vars => PoolInvariant'
  BY TypesStep, InheritedStep, CurFitsStep, CloneFitsStep, InOrderStep DEF PoolInvariant
<1>3. QED BY <1>1, <1>2, PTL DEF Spec

(* Whatever Lookup, FlushFakeIP and CloneFrom do at the same time, and     *)
(* whatever range each reload chooses, a pool holds no address but one     *)
(* that it or a pool before it could hand out: the first pool is confined  *)
(* to its own range, and until a flush neither the gateway nor the         *)
(* broadcast address of any range enters by a lookup under that range.     *)
THEOREM TypeCorrect == Spec => []TypeOK
<1>1. PoolInvariant => TypeOK
  BY TypesGiveTypeOK DEF PoolInvariant
<1>2. QED BY <1>1, Invariance, PTL

(* At rest cacheIP and cacheHost are mirror images in the same order of    *)
(* use: each Lookup, LookBack, recycled slot and eviction of the pool      *)
(* leaves them so, and so does the clone of a pool at rest.                *)
THEOREM MirrorCorrect == Spec => []CachesMirror
<1>1. PoolInvariant => CachesMirror
  <2> SUFFICES ASSUME PoolInvariant, Calm, AtRest(cur)
               PROVE  /\ Len(cacheIP[cur]) = Len(cacheHost[cur])
                      /\ \A i \in DOMAIN cacheIP[cur] : /\ cacheIP[cur][i].key = cacheHost[cur][i].value
                                                       /\ cacheHost[cur][i].key = cacheIP[cur][i].value
    BY DEF CachesMirror
  <2>1. Mirror(cacheIP[cur], cacheHost[cur])
    BY DEF PoolInvariant, CurFits, PoolFits, Fits, AtRest, Calm
  <2>2. DOMAIN cacheIP[cur] = 1 .. Len(cacheIP[cur])
    BY LenProperties DEF PoolInvariant, Types, CachesTyped, ControlTyped
  <2>3. QED BY <2>1, <2>2 DEF Mirror
<1>2. QED BY <1>1, Invariance, PTL

(* LookBack of the address that Lookup would answer from the cache gives   *)
(* the host back, whenever no operation of the pool is under way.          *)
THEOREM LookBackCorrect == Spec => []LookBackUndoesLookup
<1>1. PoolInvariant => LookBackUndoesLookup
  <2> SUFFICES ASSUME PoolInvariant, Calm, AtRest(cur), NEW h \in Keys(cacheIP[cur])
               PROVE  /\ ValueOf(cacheIP[cur], h) \in Keys(cacheHost[cur])
                      /\ ValueOf(cacheHost[cur], ValueOf(cacheIP[cur], h)) = h
    BY DEF LookBackUndoesLookup
  <2>1. /\ Mirror(cacheIP[cur], cacheHost[cur]) /\ Linked(cacheIP[cur]) /\ Linked(cacheHost[cur])
    BY DEF PoolInvariant, CurFits, PoolFits, Fits, Sound, AtRest, Calm
  <2>2. cacheIP[cur] \in Seq(Elements(Hosts, IPs)) /\ cacheHost[cur] \in Seq(Elements(IPs, Hosts))
    BY DEF PoolInvariant, Types, CachesTyped, ControlTyped
  <2>3. QED BY <2>1, <2>2, MirrorIndex
<1>2. QED BY <1>1, Invariance, PTL

-----------------------------------------------------------------------------
(* The same mappings, in whatever order of use. *)
SameMappings(m, c) == Keys(m) = Keys(c) /\ \A k \in Keys(c) : ValueOf(m, k) = ValueOf(c, k)

(* What a step of a lookup does to the mappings of cacheIP: nothing, but   *)
(* for the one that takes an address away and the one that gives one.      *)
LEMMA LookupMappings ==
    ASSUME Types, NEW p \in Pools, PoolFits(p), LookupAny(p)
    PROVE  \/ SameMappings(cacheIP'[p], cacheIP[p])
           \/ pc[p] = "delIP" /\ cacheIP'[p] = Delete(cacheIP[p], victim[p])
           \/ pc[p] = "putHost" /\ cacheIP'[p] = Set(cacheIP[p], Opt, req[p], slot[p], 0)
<1> DEFINE S == Seq(Elements(Hosts, IPs))
           c == cacheIP[p]
<1>1. cacheIP \in [Pools -> S]
  BY DEF Types, CachesTyped
<1>2. c \in Seq(Elements(Hosts, IPs)) /\ Linked(c)
  BY <1>1 DEF PoolFits, Fits, Sound, S
<1> HIDE DEF S
<1>3. CASE (\E h \in Hosts : Lookup(p, h)) \/ TouchIP(p)
  <2>1. PICK k : cacheIP'[p] = Get(c, Opt, k, 0)
    BY <1>1, <1>3 DEF Lookup, TouchIP, GetIP
  <2> HIDE DEF c
  <2>2. Keys(Get(c, Opt, k, 0)) = Keys(c) /\ \A l \in Keys(c) : ValueOf(Get(c, Opt, k, 0), l) = ValueOf(c, l)
    BY <1>2, GetSound
  <2>3. SameMappings(cacheIP'[p], c)
    BY <2>1, <2>2 DEF SameMappings
  <2>4. QED BY <2>3 DEF c
<1>4. CASE DeleteVictim(p)
  BY <1>1, <1>4 DEF DeleteVictim, Goto
<1>5. CASE PutByHost(p)
  BY <1>1, <1>5 DEF PutByHost, Goto
<1>6. CASE \/ TouchHost(p) \/ Advance(p) \/ ReadVictim(p) \/ DeleteSlot(p) \/ PutByIP(p) \/ ReturnIP(p)
           \/ \E i \in IPs : LookBack(p, i)
  <2>1. cacheIP'[p] = cacheIP[p]
    BY <1>6 DEF TouchHost, Advance, ReadVictim, DeleteSlot, PutByIP, ReturnIP, LookBack, caches
  <2>2. QED BY <2>1 DEF SameMappings
<1>7. QED BY <1>3, <1>4, <1>5, <1>6 DEF LookupAny, LookupStep

(* In the first pool a host keeps its address until the addresses wrap,    *)
(* or the cache is full and it is its least recently used one: the slot    *)
(* that get takes is never another host's before that.                     *)
THEOREM ColdCorrect == Spec => FirstPoolDropsOnlyCold
<1>1. ASSUME PoolInvariant, [Next]_vars, NEW h \in Keys(cacheIP[cur]), h \notin Keys(cacheIP'[cur]),
             ~cycle[cur], flushes' = 0, cur' = cur, cur = 1
      PROVE  Len(cacheIP[cur]) = Size /\ cacheIP[cur][1].key = h
  <2>1. Types /\ CurFits /\ InOrder /\ ControlTyped /\ AtHand
    BY <1>1 DEF PoolInvariant, Types
  <2>2. CASE \E p \in Pools : LookupAny(p)
    <3>1. LookupAny(cur) /\ cur \in Pools /\ flushes = 0
      BY <1>1, <2>1, <2>2, LookupFrame
    <3>2. PoolFits(cur) /\ Ordered(pc[cur], cacheHost[cur], offset[cur])
      BY <1>1, <2>1, <3>1 DEF CurFits, InOrder
    <3>3. pc[cur] # "delIP"
      BY <3>2 DEF Ordered
    <3>4. ~SameMappings(cacheIP'[cur], cacheIP[cur])
      BY <1>1 DEF SameMappings
    <3>5. pc[cur] = "putHost" /\ cacheIP'[cur] = Set(cacheIP[cur], Opt, req[cur], slot[cur], 0)
      BY <2>1, <3>1, <3>2, <3>3, <3>4, LookupMappings
    <3>6. /\ req[cur] \in Hosts /\ slot[cur] \in IPs /\ Sound(cacheIP[cur]) /\ req[cur] \notin Keys(cacheIP[cur])
          /\ cacheIP[cur] \in Seq(Elements(Hosts, IPs))
      BY <2>1, <3>1, <3>2, <3>5 DEF AtHand, Storing, PoolFits, Fits, Types, CachesTyped
    <3> DEFINE c == cacheIP[cur]
    <3>7. \A l \in Keys(c) : l \notin Keys(Set(c, Opt, req[cur], slot[cur], 0)) => Len(c) = Size /\ c[1].key = l
      BY <3>6, SetSound
    <3>8. QED BY <1>1, <3>5, <3>7
  <2>3. CASE \E p \in Pools : Flush(p)
    BY <1>1, <2>1, <2>3, FlushFrame
  <2>4. CASE CloneIP \/ CloneHost
    BY <1>1, <2>1, <2>4, ReloadFrame
  <2>5. CASE Publish
    BY <1>1, <2>1, <2>5, ReloadFrame
  <2>6. CASE UNCHANGED vars
    BY <1>1, <2>6 DEF vars, caches
  <2>7. QED BY <1>1, <2>2, <2>3, <2>4, <2>5, <2>6, NextCases
<1>2. PoolInvariant /\ [Next]_vars =>
          [\A h \in Keys(cacheIP[cur]) :
              h \notin Keys(cacheIP'[cur]) /\ ~cycle[cur] /\ flushes' = 0 /\ cur' = cur /\ cur = 1
                => Len(cacheIP[cur]) = Size /\ cacheIP[cur][1].key = h]_vars
  BY <1>1
<1>3. QED BY <1>2, Invariance, PTL DEF Spec, FirstPoolDropsOnlyCold

-----------------------------------------------------------------------------
(* The leases that a cache holds. *)
LeasesOf(c) == [h \in Hosts |-> IF h \in Keys(c) THEN ValueOf(c, h) ELSE NoIP]

LEMMA SameLeases == ASSUME NEW c, NEW m, SameMappings(m, c) PROVE LeasesOf(m) = LeasesOf(c)
BY DEF SameMappings, LeasesOf

(* From the cache c to the cache m some hosts lose their addresses, and in *)
(* GrantsOne k gets v, which was nobody's.                                 *)
RevokesSome(c, m) ==
    \E U \in SUBSET Hosts : LeasesOf(m) = [h \in Hosts |-> IF h \in U THEN NoIP ELSE LeasesOf(c)[h]]
GrantsOne(c, m, k, v) ==
    /\ LeasesOf(c)[k] = NoIP /\ \A h \in Hosts : LeasesOf(c)[h] # v
    /\ \E U \in SUBSET Hosts :
           LeasesOf(m) = [h \in Hosts |-> IF h = k THEN v ELSE IF h \in U THEN NoIP ELSE LeasesOf(c)[h]]

LEMMA DeleteRevokes ==
    ASSUME NEW c \in Seq(Elements(Hosts, IPs)), Linked(c), NEW k
    PROVE  RevokesSome(c, Delete(c, k))
<1> DEFINE m == Delete(c, k)
           U == {h \in Hosts : h = k}
<1>1. Keys(m) = Keys(c) \ {k} /\ \A l \in Keys(m) : ValueOf(m, l) = ValueOf(c, l)
  BY DeleteSound
<1> HIDE DEF m
<1>2. LeasesOf(m) = [h \in Hosts |-> IF h \in U THEN NoIP ELSE LeasesOf(c)[h]]
  BY <1>1 DEF LeasesOf
<1>3. U \in SUBSET Hosts
  OBVIOUS
<1>4. QED BY <1>2, <1>3 DEF m, RevokesSome

LEMMA SetGrants ==
    ASSUME NEW c \in Seq(Elements(Hosts, IPs)), Sound(c), NEW k \in Hosts, NEW v \in IPs, k \notin Keys(c),
           \A i \in 1 .. Len(c) : c[i].value # v
    PROVE  GrantsOne(c, Set(c, Opt, k, v, 0), k, v)
<1> DEFINE m == Set(c, Opt, k, v, 0)
           U == {h \in Hosts : h \notin Keys(m)}
<1>1. /\ k \in Keys(m) /\ ValueOf(m, k) = v /\ Keys(m) \subseteq Keys(c) \cup {k}
      /\ \A l \in Keys(m) : l # k => ValueOf(m, l) = ValueOf(c, l)
  BY SetSound
<1> HIDE DEF m
<1>2. LeasesOf(m) = [h \in Hosts |-> IF h = k THEN v ELSE IF h \in U THEN NoIP ELSE LeasesOf(c)[h]]
  BY <1>1 DEF LeasesOf
<1>3. \A h \in Keys(c) : ValueOf(c, h) # v
  BY SoundIndex DEF Sound
<1>4. LeasesOf(c)[k] = NoIP /\ \A h \in Hosts : LeasesOf(c)[h] # v
  BY <1>3, RangeFacts DEF LeasesOf, NoIP
<1>5. U \in SUBSET Hosts
  OBVIOUS
<1>6. QED BY <1>2, <1>4, <1>5 DEF m, GrantsOne

(* While the promise stands, the leases are those of one cache.            *)
Serving == IF cloning = "publish" THEN cur + 1 ELSE cur

LEMMA LeasesAre ==
    /\ Calm => Leases = LeasesOf(cacheIP[Serving])
    /\ ~Calm => Leases = [h \in Hosts |-> NoIP]
BY DEF Leases, LeasesOf, Serving

(* Each step that keeps the promise grants one lease, revokes some, or     *)
(* leaves them all; the hand-over to the clone leaves them.                *)
LEMMA CalmStep ==
    ASSUME PoolInvariant, [Next]_vars, Calm'
    PROVE  /\ Calm
           /\ \/ LeasesOf(cacheIP'[Serving']) = LeasesOf(cacheIP[Serving])
              \/ RevokesSome(cacheIP[Serving], cacheIP'[Serving'])
              \/ \E k \in Hosts, v \in IPs : GrantsOne(cacheIP[Serving], cacheIP'[Serving'], k, v)
<1> DEFINE c == cacheIP[Serving]
           m == cacheIP'[Serving']
<1> SUFFICES Calm /\ \/ LeasesOf(m) = LeasesOf(c) \/ RevokesSome(c, m)
                     \/ \E k \in Hosts, v \in IPs : GrantsOne(c, m, k, v)
  OBVIOUS
<1>1. Types /\ CurFits /\ CloneFits /\ ControlTyped /\ AtHand /\ cur \in Nat /\ cur \in Pools
  BY DEF PoolInvariant, Types, ControlTyped, Pools
<1>2. CASE \E p \in Pools : LookupAny(p)
  <2>1. LookupAny(cur) /\ Calm /\ cur' = cur /\ cloning' = cloning
    BY <1>1, <1>2, LookupFrame DEF Calm
  <2>2. PoolFits(cur)
    BY <1>1, <2>1 DEF CurFits, Calm
  <2>3. CASE cloning = "publish"
    <3>1. cur + 1 \in Pools /\ cur + 1 # cur /\ Serving = cur + 1 /\ Serving' = cur + 1
      BY <1>1, <2>1, <2>3 DEF AtHand, Serving
    <3>2. m = c
      BY <1>1, <2>1, <3>1, LookupFrame
    <3> HIDE DEF m, c
    <3>3. QED BY <2>1, <3>2
  <2>4. CASE cloning # "publish"
    <3>1. c = cacheIP[cur] /\ m = cacheIP'[cur]
      BY <2>1, <2>4 DEF Serving
    <3>2. c \in Seq(Elements(Hosts, IPs)) /\ Sound(c) /\ Linked(c)
      BY <1>1, <2>2, <3>1 DEF PoolFits, Fits, Sound, Types, CachesTyped
    <3>3. \/ SameMappings(m, c)
          \/ pc[cur] = "delIP" /\ m = Delete(c, victim[cur])
          \/ pc[cur] = "putHost" /\ m = Set(c, Opt, req[cur], slot[cur], 0)
      BY <1>1, <2>1, <2>2, <3>1, LookupMappings
    <3> HIDE DEF c, m
    <3>4. CASE SameMappings(m, c)
      BY <2>1, <3>4, SameLeases
    <3>5. CASE m = Delete(c, victim[cur])
      BY <2>1, <3>2, <3>5, DeleteRevokes
    <3>6. CASE pc[cur] = "putHost" /\ m = Set(c, Opt, req[cur], slot[cur], 0)
      <4>1. /\ req[cur] \in Hosts /\ slot[cur] \in IPs /\ req[cur] \notin Keys(c)
            /\ \A i \in 1 .. Len(c) : c[i].value # slot[cur]
        BY <1>1, <2>2, <3>1, <3>6 DEF AtHand, Storing, PoolFits, Fits
      <4>2. PICK k \in Hosts, v \in IPs : k = req[cur] /\ v = slot[cur]
        BY <4>1
      <4>3. k \notin Keys(c) /\ \A i \in 1 .. Len(c) : c[i].value # v
        BY <4>1, <4>2
      <4>4. m = Set(c, Opt, k, v, 0)
        BY <3>6, <4>2
      <4>5. GrantsOne(c, m, k, v)
        BY <3>2, <4>3, <4>4, SetGrants
      <4>6. QED BY <2>1, <4>5
    <3>7. QED BY <3>3, <3>4, <3>5, <3>6
  <2>5. QED BY <2>3, <2>4
<1>3. CASE \E p \in Pools : Flush(p)
  BY <1>1, <1>3, FlushFrame DEF Calm
<1>4. CASE CloneIP
  <2>1. Calm /\ Serving = cur /\ Serving' = cur /\ cacheIP'[cur] = cacheIP[cur]
    BY <1>1, <1>4, ReloadFrame DEF CloneIP, Calm, Serving
  <2>2. m = c
    BY <2>1
  <2> HIDE DEF m, c
  <2>3. QED BY <2>1, <2>2
<1>5. CASE CloneHost
  <2>1. Calm /\ Serving = cur /\ Serving' = cur + 1 /\ cacheIP'[cur + 1] = cacheIP[cur]
    BY <1>1, <1>5, CloneIsSame, ReloadFrame DEF CloneHost, Serving
  <2>2. m = c
    BY <2>1
  <2> HIDE DEF m, c
  <2>3. QED BY <2>1, <2>2
<1>6. CASE Publish
  <2>1. Calm /\ Serving = cur + 1 /\ Serving' = cur + 1 /\ cacheIP'[cur + 1] = cacheIP[cur + 1]
    BY <1>1, <1>6, ReloadFrame DEF Publish, Calm, Serving
  <2>2. m = c
    BY <2>1
  <2> HIDE DEF m, c
  <2>3. QED BY <2>1, <2>2
<1>7. CASE UNCHANGED vars
  <2>1. Calm /\ m = c
    BY <1>7 DEF vars, caches, others, Calm, Serving
  <2> HIDE DEF m, c
  <2>2. QED BY <2>1
<1>8. QED BY <1>2, <1>3, <1>4, <1>5, <1>6, <1>7, NextCases

(* The pool is a name service, for every number of hosts and reloads: an   *)
(* address goes to a host that has none and after its last owner has lost  *)
(* it, across the steps of the two caches and the hand-over to the clone.  *)
THEOREM Refinement == Spec => ImplementsNameService
<1>1. Init => NS!Init
  <2> SUFFICES ASSUME Init PROVE NS!Init
    OBVIOUS
  <2>1. Serving = 1 /\ 1 \in Pools /\ cacheIP[1] = <<>>
    BY RangeFacts DEF Init, Serving, EmptyCache
  <2>2. Keys(<<>>) = {}
    BY DEF Keys
  <2>3. LeasesOf(cacheIP[Serving]) = [h \in Hosts |-> NoIP]
    BY <2>1, <2>2 DEF LeasesOf
  <2>4. QED BY <2>3, LeasesAre DEF NS!Init
<1>2. PoolInvariant /\ [Next]_vars => [NS!Next]_Leases
  <2> SUFFICES ASSUME PoolInvariant, [Next]_vars PROVE NS!Next \/ Leases' = Leases
    OBVIOUS
  <2>1. /\ Calm' => Leases' = LeasesOf(cacheIP'[Serving'])
        /\ ~Calm' => Leases' = [h \in Hosts |-> NoIP]
    BY DEF Leases, LeasesOf, Serving
  <2>2. CASE ~Calm'
    <3>1. Hosts \in SUBSET Hosts /\ Leases' = [h \in Hosts |-> IF h \in Hosts THEN NoIP ELSE Leases[h]]
      BY <2>1, <2>2
    <3>2. NS!Revoke(Hosts)
      BY <3>1 DEF NS!Revoke, NS!Revoked
    <3>3. QED BY <3>1, <3>2 DEF NS!Next
  <2>3. CASE Calm'
    <3>1. Calm /\ Leases = LeasesOf(cacheIP[Serving]) /\ Leases' = LeasesOf(cacheIP'[Serving'])
      BY <2>1, <2>3, CalmStep, LeasesAre
    <3>2. CASE RevokesSome(cacheIP[Serving], cacheIP'[Serving'])
      <4>1. PICK U \in SUBSET Hosts : Leases' = [h \in Hosts |-> IF h \in U THEN NoIP ELSE Leases[h]]
        BY <3>1, <3>2 DEF RevokesSome
      <4>2. NS!Revoke(U)
        BY <4>1 DEF NS!Revoke, NS!Revoked
      <4>3. QED BY <4>2 DEF NS!Next
    <3>3. ASSUME NEW k \in Hosts, NEW v \in IPs, GrantsOne(cacheIP[Serving], cacheIP'[Serving'], k, v)
          PROVE  NS!Next
      <4>1. /\ Leases[k] = NoIP /\ \A h \in Hosts : Leases[h] # v
            /\ \E U \in SUBSET Hosts :
                   Leases' = [h \in Hosts |-> IF h = k THEN v ELSE IF h \in U THEN NoIP ELSE Leases[h]]
        BY <3>1, <3>3 DEF GrantsOne
      <4>2. PICK U \in SUBSET Hosts :
                Leases' = [h \in Hosts |-> IF h = k THEN v ELSE IF h \in U THEN NoIP ELSE Leases[h]]
        BY <4>1
      <4>3. NS!Grant(k, v, U)
        BY <4>1, <4>2 DEF NS!Grant, NS!Revoked
      <4>4. QED BY <4>3 DEF NS!Next
    <3>4. \/ Leases' = Leases
          \/ RevokesSome(cacheIP[Serving], cacheIP'[Serving'])
          \/ \E k \in Hosts, v \in IPs : GrantsOne(cacheIP[Serving], cacheIP'[Serving'], k, v)
      BY <2>3, <3>1, CalmStep
    <3>5. QED BY <3>2, <3>3, <3>4
  <2>4. QED BY <2>2, <2>3
<1>3. QED BY <1>1, <1>2, Invariance, PTL DEF Spec, ImplementsNameService, NS!Spec

-----------------------------------------------------------------------------
(* One LruCache under every sequence of its operations, for every option   *)
(* set, number of keys, and clock (LruCacheUse).                           *)

(* In the order o no key stands twice; a stands before b.                  *)
Once(o) == \A i, j \in 1 .. Len(o) : o[i] = o[j] => i = j
Before(o, a, b) == \E i, j \in 1 .. Len(o) : i < j /\ o[i] = a /\ o[j] = b

Lasts(s, t, k) == s[k] # Nothing /\ (Expires(options) => t < s[k].until)

(* The cache c agrees with what its client remembers, the values s, the    *)
(* order o and the time t, but for keys that are not in K: its elements    *)
(* are what was stored, in the order in which they were touched, and a     *)
(* key it should have and has not was touched before all of them.          *)
InStep(c, s, o, t, K) ==
    /\ Linked(c) /\ Once(o)
    /\ \A i \in 1 .. Len(c) : /\ Touched(o, c[i].key) /\ s[c[i].key] # Nothing
                              /\ s[c[i].key].value = c[i].value
                              /\ Expires(options) => s[c[i].key].until = c[i].expires
    /\ \A i, j \in 1 .. Len(c) : i < j => Before(o, c[i].key, c[j].key)
    /\ \A k \in K : Lasts(s, t, k) /\ k \notin Keys(c) =>
           Touched(o, k) /\ \A i \in 1 .. Len(c) : Before(o, k, c[i].key)

NoLonger(c) == options.maxSize > 0 => Len(c) <= options.maxSize

UseTyped ==
    /\ options \in Opts /\ now \in Nat /\ clears \in Nat
    /\ cache \in Seq(Elements(Key, Val)) /\ order \in Seq(Key) /\ DOMAIN stored = Key
    /\ Once(order)
    /\ clears = 0 => stored \in [Key -> {Nothing} \cup [value : Val, until : Nat]]

CacheInvariant ==
    UseTyped /\ NoLonger(cache) /\ (clears = 0 => InStep(cache, stored, order, now, Key))

LEMMA Something == \A r \in [value : Val, until : Nat] : r # Nothing
<1> SUFFICES ASSUME NEW r \in [value : Val, until : Nat], r = Nothing PROVE FALSE
  OBVIOUS
<1>1. DOMAIN r = {"value", "until"} /\ DOMAIN Nothing = {"none"}
  BY DEF Nothing
<1>2. QED BY <1>1

LEMMA OptionFacts ==
    ASSUME options \in Opts
    PROVE  /\ options.maxSize \in Nat /\ options.maxAge \in Nat
           /\ \A t \in Nat : ExpiresAfter(options, t) \in Nat
           /\ Expires(options) => \A t \in Nat : ExpiresAfter(options, t) = t + options.maxAge
BY OptAssumption DEF ExpiresAfter, Expires

(* A key touched goes behind all others, which keep their order.           *)
LEMMA TouchProperties ==
    ASSUME NEW K, NEW o \in Seq(K), Once(o), NEW k \in K
    PROVE  LET u == Touch(o, k)
           IN  /\ u \in Seq(K) /\ Once(u) /\ Touched(u, k)
               /\ \A x : x # k /\ Touched(o, x) => Touched(u, x) /\ Before(u, x, k)
               /\ \A x, y : x # k /\ y # k /\ Before(o, x, y) => Before(u, x, y)
<1> DEFINE there == Touched(o, k)
           n == IF there THEN Rank(o, k) ELSE Len(o) + 1
           r == IF there THEN Remove(o, Rank(o, k)) ELSE o
           u == Append(r, k)
<1>1. DOMAIN o = 1 .. Len(o) /\ Len(o) \in Nat
  BY LenProperties
<1>2. there => n \in 1 .. Len(o) /\ o[n] = k
  BY <1>1 DEF Touched, Rank
<1>3. ~there => n = Len(o) + 1 /\ \A j \in 1 .. Len(o) : o[j] # k
  BY <1>1 DEF Touched
<1>0. Len(o) \in Nat
  BY LenProperties
<1>4. /\ r \in Seq(K) /\ Len(r) = IF there THEN Len(o) - 1 ELSE Len(o)
      /\ \A j \in 1 .. Len(r) : r[j] = IF j < n THEN o[j] ELSE o[j + 1]
  <2>1. CASE there
    <3>1. n \in 1 .. Len(o) /\ r = Remove(o, n)
      BY <1>2, <2>1
    <3> HIDE DEF n, r
    <3>2. QED BY <2>1, <3>1, RemoveProperties
  <2>2. CASE ~there
    BY <1>1, <1>3, <2>2
  <2>3. QED BY <2>1, <2>2
<1> HIDE DEF there, n, r
<1>5. /\ n \in 1 .. Len(o) + 1 /\ Len(r) \in Nat
      /\ \/ n = Len(o) + 1 /\ Len(r) = Len(o)
         \/ n <= Len(o) /\ Len(r) = Len(o) - 1
  <2>1. CASE there
    BY <1>0, <1>2, <1>4, <2>1
  <2>2. CASE ~there
    BY <1>0, <1>3, <1>4, <2>2
  <2>3. QED BY <2>1, <2>2
<1>6. /\ u \in Seq(K) /\ Len(u) = Len(r) + 1 /\ Len(r) \in Nat /\ u[Len(r) + 1] = k
      /\ \A j \in 1 .. Len(r) : u[j] = r[j]
  BY <1>4, AppendProperties, LenProperties
<1>7. Touch(o, k) = u
  BY DEF Touch, r, there
<1> HIDE DEF u
<1>8. \A i, j \in 1 .. Len(o) : o[i] = o[j] => i = j
  BY DEF Once
<1>9. \A j \in 1 .. Len(r) : \E l \in 1 .. Len(o) : u[j] = o[l] /\ l # n /\ l = IF j < n THEN j ELSE j + 1
  <2> SUFFICES ASSUME NEW j \in 1 .. Len(r)
               PROVE  \E l \in 1 .. Len(o) : u[j] = o[l] /\ l # n /\ l = IF j < n THEN j ELSE j + 1
    OBVIOUS
  <2>1. u[j] = IF j < n THEN o[j] ELSE o[j + 1]
    BY <1>4, <1>6
  <2>2. CASE j < n
    <3>1. j \in 1 .. Len(o)
      BY <1>0, <1>5, <2>2
    <3>2. QED BY <2>1, <2>2, <3>1
  <2>3. CASE ~(j < n)
    <3>1. j + 1 \in 1 .. Len(o) /\ j + 1 # n
      BY <1>0, <1>5, <2>3
    <3>2. QED BY <2>1, <2>3, <3>1
  <2>4. QED BY <2>2, <2>3
<1>10. \A l \in 1 .. Len(o) : l # n =>
          \E j \in 1 .. Len(r) : u[j] = o[l] /\ j = IF l < n THEN l ELSE l - 1
  <2> SUFFICES ASSUME NEW l \in 1 .. Len(o), l # n
               PROVE  \E j \in 1 .. Len(r) : u[j] = o[l] /\ j = IF l < n THEN l ELSE l - 1
    OBVIOUS
  <2>1. CASE l < n
    <3>1. l \in 1 .. Len(r)
      BY <1>0, <1>5, <2>1
    <3>2. u[l] = o[l]
      BY <1>4, <1>6, <2>1, <3>1
    <3>3. QED BY <2>1, <3>1, <3>2
  <2>2. CASE l > n
    <3>1. l - 1 \in 1 .. Len(r) /\ ~(l < n) /\ ~(l - 1 < n)
      BY <1>0, <1>5, <2>2
    <3>2. u[l - 1] = o[l - 1 + 1]
      BY <1>4, <1>6, <3>1
    <3>3. QED BY <1>1, <3>1, <3>2
  <2>3. QED BY <1>0, <1>5, <2>1, <2>2
<1>11. \A j \in 1 .. Len(r) : u[j] # k
  BY <1>2, <1>3, <1>8, <1>9
<1>12. Once(u)
  <2> SUFFICES ASSUME NEW i \in 1 .. Len(u), NEW j \in 1 .. Len(u), u[i] = u[j] PROVE i = j
    BY DEF Once
  <2>1. CASE i = Len(r) + 1 \/ j = Len(r) + 1
    BY <1>6, <1>11, <2>1
  <2>2. CASE i \in 1 .. Len(r) /\ j \in 1 .. Len(r)
    BY <1>0, <1>5, <1>8, <1>9, <2>2
  <2>3. QED BY <1>6, <2>1, <2>2
<1>13. DOMAIN u = 1 .. Len(u)
  BY <1>6, LenProperties
<1>14. ASSUME NEW x, x # k, Touched(o, x) PROVE Touched(u, x) /\ Before(u, x, k)
  <2>1. PICK l \in 1 .. Len(o) : o[l] = x
    BY <1>1, <1>14 DEF Touched
  <2>2. l # n
    BY <1>1, <1>2, <1>3, <1>14, <2>1
  <2>3. PICK j \in 1 .. Len(r) : u[j] = x
    BY <1>10, <2>1, <2>2
  <2>4. QED BY <1>6, <1>13, <2>3 DEF Touched, Before
<1>15. ASSUME NEW x, NEW y, x # k, y # k, Before(o, x, y) PROVE Before(u, x, y)
  <2>1. PICK i \in 1 .. Len(o), j \in 1 .. Len(o) : i < j /\ o[i] = x /\ o[j] = y
    BY <1>15 DEF Before
  <2>2. i # n /\ j # n
    BY <1>1, <1>2, <1>3, <1>15, <2>1
  <2>3. PICK a \in 1 .. Len(r) : u[a] = x /\ a = IF i < n THEN i ELSE i - 1
    BY <1>10, <2>1, <2>2
  <2>4. PICK b \in 1 .. Len(r) : u[b] = y /\ b = IF j < n THEN j ELSE j - 1
    BY <1>10, <2>1, <2>2
  <2>5. a < b /\ a \in 1 .. Len(u) /\ b \in 1 .. Len(u)
    BY <1>0, <1>5, <1>6, <2>1, <2>2, <2>3, <2>4
  <2>6. QED BY <2>3, <2>4, <2>5 DEF Before
<1>16. Touched(u, k)
  BY <1>6, <1>13 DEF Touched
<1>17. QED BY <1>6, <1>7, <1>12, <1>14, <1>15, <1>16

(* The cache d is c with some elements left out. *)
Thinned(d, c) ==
    /\ Within(d, c)
    /\ \A i, j \in 1 .. Len(d) : i < j => \E m, n \in 1 .. Len(c) : m < n /\ d[i] = c[m] /\ d[j] = c[n]

(* Every n-th element of the cache c is out. *)
LEMMA WithoutThinned ==
    ASSUME NEW c, Len(c) \in Nat, NEW i \in 1 .. Len(c), NEW d, Without(d, c, i)
    PROVE  Thinned(d, c) /\ \A j \in 1 .. Len(c) : j # i => \E l \in 1 .. Len(d) : d[l] = c[j]
<1>1. \A j \in 1 .. Len(d) : \E l \in 1 .. Len(c) : d[j] = c[l] /\ l = IF j < i THEN j ELSE j + 1
  BY DEF Without
<1>2. Within(d, c)
  BY <1>1 DEF Within
<1>3. ASSUME NEW a \in 1 .. Len(d), NEW b \in 1 .. Len(d), a < b
      PROVE  \E m, n \in 1 .. Len(c) : m < n /\ d[a] = c[m] /\ d[b] = c[n]
  <2>1. PICK m \in 1 .. Len(c) : d[a] = c[m] /\ m = IF a < i THEN a ELSE a + 1
    BY <1>1
  <2>2. PICK n \in 1 .. Len(c) : d[b] = c[n] /\ n = IF b < i THEN b ELSE b + 1
    BY <1>1
  <2>3. m < n
    BY <1>3, <2>1, <2>2 DEF Without
  <2>4. QED BY <2>1, <2>2, <2>3
<1>4. ASSUME NEW j \in 1 .. Len(c), j # i PROVE \E l \in 1 .. Len(d) : d[l] = c[j]
  <2>1. CASE j < i
    BY <2>1 DEF Without
  <2>2. CASE j > i
    <3>1. j - 1 \in 1 .. Len(d) /\ d[j - 1] = c[j]
      BY <2>2 DEF Without
    <3>2. QED BY <3>1
  <2>3. QED BY <1>4, <2>1, <2>2
<1>5. QED BY <1>2, <1>3, <1>4 DEF Thinned

(* A cache in step stays so without elements that need not be there: their *)
(* keys do not last, or all the other keys were touched after them.        *)
LEMMA ThinnedInStep ==
    ASSUME NEW c \in Seq(Elements(Key, Val)), NEW d \in Seq(Elements(Key, Val)),
           NEW s, NEW o, NEW t, NEW A, InStep(c, s, o, t, A), Thinned(d, c),
           \A i \in 1 .. Len(c) : \/ \E l \in 1 .. Len(d) : d[l] = c[i]
                                  \/ c[i].key \notin A
                                  \/ ~Lasts(s, t, c[i].key)
                                  \/ \A l \in 1 .. Len(d) : Before(o, c[i].key, d[l].key)
    PROVE  InStep(d, s, o, t, A)
<1>1. Linked(c) /\ Once(o)
  BY DEF InStep
<1>2. Len(c) \in Nat /\ Len(d) \in Nat
  BY LenProperties
<1>3. Linked(d)
  <2>1. \A i \in 1 .. Len(d) : d[i].live
    BY <1>1 DEF Linked, Thinned, Within
  <2>2. ASSUME NEW i \in 1 .. Len(d), NEW j \in 1 .. Len(d), i < j PROVE d[i].key # d[j].key
    <3>1. PICK m \in 1 .. Len(c), n \in 1 .. Len(c) : m < n /\ d[i] = c[m] /\ d[j] = c[n]
      BY <2>2 DEF Thinned
    <3>2. m # n
      BY <1>2, <3>1
    <3>3. QED BY <1>1, <3>1, <3>2 DEF Linked
  <2>3. ASSUME NEW i \in 1 .. Len(d), NEW j \in 1 .. Len(d), d[i].key = d[j].key PROVE i = j
    <3>1. ~(i < j) /\ ~(j < i)
      BY <2>2, <2>3
    <3>2. QED BY <1>2, <3>1
  <2>4. QED BY <2>1, <2>3 DEF Linked
<1>4. \A i \in 1 .. Len(d) : /\ Touched(o, d[i].key) /\ s[d[i].key] # Nothing
                             /\ s[d[i].key].value = d[i].value
                             /\ Expires(options) => s[d[i].key].until = d[i].expires
  <2> SUFFICES ASSUME NEW i \in 1 .. Len(d)
               PROVE  /\ Touched(o, d[i].key) /\ s[d[i].key] # Nothing
                      /\ s[d[i].key].value = d[i].value
                      /\ Expires(options) => s[d[i].key].until = d[i].expires
    OBVIOUS
  <2>1. PICK m \in 1 .. Len(c) : d[i] = c[m]
    BY DEF Thinned, Within
  <2>2. QED BY <2>1 DEF InStep
<1>5. ASSUME NEW i \in 1 .. Len(d), NEW j \in 1 .. Len(d), i < j
      PROVE  Before(o, d[i].key, d[j].key)
  <2>1. PICK m \in 1 .. Len(c), n \in 1 .. Len(c) : m < n /\ d[i] = c[m] /\ d[j] = c[n]
    BY <1>5 DEF Thinned
  <2>2. Before(o, c[m].key, c[n].key)
    BY <2>1 DEF InStep
  <2>3. QED BY <2>1, <2>2
<1>6. ASSUME NEW k \in A, Lasts(s, t, k), k \notin Keys(d)
      PROVE  Touched(o, k) /\ \A l \in 1 .. Len(d) : Before(o, k, d[l].key)
  <2>1. CASE k \notin Keys(c)
    <3>1. Touched(o, k) /\ \A m \in 1 .. Len(c) : Before(o, k, c[m].key)
      BY <1>6, <2>1 DEF InStep
    <3>2. QED BY <3>1 DEF Thinned, Within
  <2>2. CASE k \in Keys(c)
    <3>1. PICK i \in 1 .. Len(c) : c[i].key = k
      BY <1>1, <2>2, SoundIndex
    <3>2. ~ \E l \in 1 .. Len(d) : d[l] = c[i]
      BY <1>3, <1>6, <3>1, SoundIndex
    <3>3. \A l \in 1 .. Len(d) : Before(o, k, d[l].key)
      BY <1>6, <3>1, <3>2
    <3>4. Touched(o, k)
      BY <3>1 DEF InStep
    <3>5. QED BY <3>3, <3>4
  <2>3. QED BY <2>1, <2>2
<1>7. QED BY <1>1, <1>3, <1>4, <1>5, <1>6 DEF InStep

(* The element of a key goes: the cache is in step but for that key.       *)
LEMMA WithoutInStep ==
    ASSUME NEW c \in Seq(Elements(Key, Val)), NEW d \in Seq(Elements(Key, Val)),
           NEW i \in 1 .. Len(c), Without(d, c, i),
           NEW s, NEW o, NEW t, NEW A, InStep(c, s, o, t, A)
    PROVE  /\ InStep(d, s, o, t, A \ {c[i].key}) /\ c[i].key \notin Keys(d)
           /\ ~Lasts(s, t, c[i].key) => InStep(d, s, o, t, A)
           /\ i = 1 => InStep(d, s, o, t, A)
<1>1. Len(c) \in Nat /\ Len(d) \in Nat
  BY LenProperties
<1>2. Thinned(d, c) /\ \A j \in 1 .. Len(c) : j # i => \E l \in 1 .. Len(d) : d[l] = c[j]
  BY <1>1, WithoutThinned
<1>3. ASSUME NEW B, B \subseteq A,
             \/ c[i].key \notin B
             \/ ~Lasts(s, t, c[i].key)
             \/ \A l \in 1 .. Len(d) : Before(o, c[i].key, d[l].key)
      PROVE  InStep(d, s, o, t, B)
  <2>1. InStep(c, s, o, t, B)
    BY <1>3 DEF InStep
  <2>2. \A j \in 1 .. Len(c) : \/ \E l \in 1 .. Len(d) : d[l] = c[j]
                               \/ c[j].key \notin B
                               \/ ~Lasts(s, t, c[j].key)
                               \/ \A l \in 1 .. Len(d) : Before(o, c[j].key, d[l].key)
    BY <1>2, <1>3
  <2>3. QED BY <1>2, <2>1, <2>2, ThinnedInStep
<1>4. InStep(d, s, o, t, A \ {c[i].key})
  BY <1>3
<1>5. c[i].key \notin Keys(d)
  <2>1. \A l \in 1 .. Len(d) : \E m \in 1 .. Len(c) : m # i /\ d[l] = c[m]
    <3> SUFFICES ASSUME NEW l \in 1 .. Len(d) PROVE \E m \in 1 .. Len(c) : m # i /\ d[l] = c[m]
      OBVIOUS
    <3>1. CASE l < i
      BY <1>1, <3>1 DEF Without
    <3>2. CASE ~(l < i)
      <4>1. l + 1 \in 1 .. Len(c) /\ l + 1 # i /\ d[l] = c[l + 1]
        BY <1>1, <3>2 DEF Without
      <4>2. QED BY <4>1
    <3>3. QED BY <3>1, <3>2
  <2>2. \A l \in 1 .. Len(d) : d[l].key # c[i].key
    BY <2>1 DEF InStep, Linked
  <2>3. Linked(d)
    BY <1>4 DEF InStep
  <2>4. QED BY <2>2, <2>3, SoundIndex
<1>6. ~Lasts(s, t, c[i].key) => InStep(d, s, o, t, A)
  BY <1>3
<1>7. ASSUME i = 1 PROVE InStep(d, s, o, t, A)
  <2>1. \A l \in 1 .. Len(d) : l + 1 \in 1 .. Len(c) /\ 1 < l + 1 /\ d[l] = c[l + 1]
    BY <1>1, <1>7 DEF Without
  <2>2. \A l \in 1 .. Len(d) : Before(o, c[1].key, c[l + 1].key)
    BY <1>7, <2>1 DEF InStep
  <2>3. \A l \in 1 .. Len(d) : Before(o, c[i].key, d[l].key)
    BY <1>7, <2>1, <2>2
  <2>4. QED BY <1>3, <2>3
<1>8. QED BY <1>4, <1>5, <1>6, <1>7

(* An element is pushed for a key that is not there, and remembered.       *)
LEMMA PushInStep ==
    ASSUME NEW c \in Seq(Elements(Key, Val)), NEW k \in Key, k \notin Keys(c),
           NEW e \in Elements(Key, Val), e.key = k, e.live,
           NEW s, NEW o \in Seq(Key), NEW t, InStep(c, s, o, t, Key \ {k}),
           NEW s2, \A x \in Key : x # k => s2[x] = s[x],
           s2[k] # Nothing, s2[k].value = e.value, Expires(options) => s2[k].until = e.expires
    PROVE  InStep(Append(c, e), s2, Touch(o, k), t, Key)
<1> DEFINE d == Append(c, e)
           u == Touch(o, k)
<1>1. /\ d \in Seq(Elements(Key, Val)) /\ Len(d) = Len(c) + 1 /\ Len(c) \in Nat
      /\ \A j \in 1 .. Len(c) : d[j] = c[j]
      /\ d[Len(c) + 1] = e
  BY AppendProperties, LenProperties
<1>2. Linked(c) /\ Once(o)
  BY DEF InStep
<1>3. /\ u \in Seq(Key) /\ Once(u) /\ Touched(u, k)
      /\ \A x : x # k /\ Touched(o, x) => Touched(u, x) /\ Before(u, x, k)
      /\ \A x, y : x # k /\ y # k /\ Before(o, x, y) => Before(u, x, y)
  BY <1>2, TouchProperties
<1> HIDE DEF d, u
<1>4. \A j \in 1 .. Len(c) : c[j].key # k /\ c[j].key \in Key
  <2> SUFFICES ASSUME NEW j \in 1 .. Len(c) PROVE c[j].key # k /\ c[j].key \in Key
    OBVIOUS
  <2>1. c[j] \in Elements(Key, Val) /\ c[j].key \in Keys(c)
    BY <1>2, SoundIndex, ElementOfSeq
  <2>2. QED BY <2>1 DEF Elements
<1>5. \A j \in 1 .. Len(d) : (j \in 1 .. Len(c) /\ d[j] = c[j]) \/ (j = Len(c) + 1 /\ d[j] = e)
  BY <1>1
<1>6. Linked(d)
  <2>1. \A j \in 1 .. Len(d) : d[j].live
    BY <1>2, <1>5 DEF Linked
  <2>2. \A i, j \in 1 .. Len(d) : d[i].key = d[j].key => i = j
    BY <1>2, <1>4, <1>5 DEF Linked
  <2>3. QED BY <2>1, <2>2 DEF Linked
<1>7. ASSUME NEW j \in 1 .. Len(d)
      PROVE  /\ Touched(u, d[j].key) /\ s2[d[j].key] # Nothing
             /\ s2[d[j].key].value = d[j].value
             /\ Expires(options) => s2[d[j].key].until = d[j].expires
  <2>1. CASE j \in 1 .. Len(c) /\ d[j] = c[j]
    <3>1. /\ Touched(o, c[j].key) /\ s[c[j].key] # Nothing
          /\ s[c[j].key].value = c[j].value
          /\ Expires(options) => s[c[j].key].until = c[j].expires
      BY <2>1 DEF InStep
    <3>2. s2[c[j].key] = s[c[j].key] /\ Touched(u, c[j].key)
      BY <1>3, <1>4, <2>1, <3>1
    <3>3. QED BY <2>1, <3>1, <3>2
  <2>2. CASE j = Len(c) + 1 /\ d[j] = e
    BY <1>3, <2>2
  <2>3. QED BY <1>5, <2>1, <2>2
<1>8. ASSUME NEW i \in 1 .. Len(d), NEW j \in 1 .. Len(d), i < j
      PROVE  Before(u, d[i].key, d[j].key)
  <2>1. i \in 1 .. Len(c) /\ d[i] = c[i] /\ c[i].key # k
    BY <1>1, <1>4, <1>8
  <2>2. CASE j \in 1 .. Len(c) /\ d[j] = c[j]
    <3>1. Before(o, c[i].key, c[j].key) /\ c[j].key # k
      BY <1>4, <1>8, <2>1, <2>2 DEF InStep
    <3>2. QED BY <1>3, <2>1, <2>2, <3>1
  <2>3. CASE j = Len(c) + 1 /\ d[j] = e
    <3>1. Touched(o, c[i].key)
      BY <2>1 DEF InStep
    <3>2. QED BY <1>3, <2>1, <2>3, <3>1
  <2>4. QED BY <1>5, <2>2, <2>3
<1>9. ASSUME NEW a \in Key, Lasts(s2, t, a), a \notin Keys(d)
      PROVE  Touched(u, a) /\ \A j \in 1 .. Len(d) : Before(u, a, d[j].key)
  <2>1. Len(c) + 1 \in 1 .. Len(d) /\ k \in Keys(d)
    <3>1. Len(c) + 1 \in 1 .. Len(d)
      BY <1>1
    <3>2. QED BY <1>1, <1>6, <3>1, SoundIndex
  <2>2. a # k /\ s2[a] = s[a] /\ Lasts(s, t, a)
    BY <1>9, <2>1 DEF Lasts
  <2>3. a \notin Keys(c)
    <3>1. ASSUME a \in Keys(c) PROVE FALSE
      <4>1. PICK i \in 1 .. Len(c) : c[i].key = a
        BY <1>2, <3>1, SoundIndex
      <4>2. i \in 1 .. Len(d) /\ d[i].key = a
        BY <1>1, <4>1
      <4>3. QED BY <1>1, <1>6, <1>9, <4>2, SoundIndex
    <3>2. QED BY <3>1
  <2>4. Touched(o, a) /\ \A i \in 1 .. Len(c) : Before(o, a, c[i].key)
    BY <2>2, <2>3 DEF InStep
  <2>5. Touched(u, a) /\ Before(u, a, k) /\ \A i \in 1 .. Len(c) : Before(u, a, c[i].key)
    BY <1>3, <1>4, <2>2, <2>4
  <2>6. QED BY <1>5, <2>5
<1>10. InStep(d, s2, u, t, Key)
  BY <1>3, <1>6, <1>7, <1>8, <1>9 DEF InStep
<1>11. QED BY <1>10 DEF d, u

LEMMA LeastExists == ASSUME NEW S, S \subseteq Nat, S # {} PROVE \E i \in S : \A j \in S : i <= j
<1>1. PICK i \in S : \A j \in S : <<j, i>> \notin OpToRel(<, Nat)
  BY NatLessThanWellFounded, WFMin
<1>2. \A j \in S : ~(j < i)
  BY <1>1 DEF OpToRel
<1>3. QED BY <1>2

(* maybeDeleteOldest takes away no more than the expired elements at the   *)
(* front of the list.                                                      *)
LEMMA OldestProperties ==
    ASSUME NEW K, NEW V, NEW c \in Seq(Elements(K, V)), NEW t
    PROVE  LET d == MaybeDeleteOldest(c, options, t)
           IN  /\ d \in Seq(Elements(K, V)) /\ Len(d) <= Len(c)
               /\ Linked(c) => \E f \in 1 .. Len(c) + 1 :
                      /\ \A j \in 1 .. Len(d) : f + j - 1 \in 1 .. Len(c) /\ d[j] = c[f + j - 1]
                      /\ Len(d) = Len(c) - f + 1
                      /\ \A i \in 1 .. f - 1 : Expires(options) /\ ~(c[i].expires > t)
<1> DEFINE d == MaybeDeleteOldest(c, options, t)
           fresh == {i \in DOMAIN c : c[i].expires > t}
           f == IF fresh = {} THEN Len(c) + 1 ELSE CHOOSE i \in fresh : \A j \in fresh : i <= j
           gone == {c[i].key : i \in 1 .. f - 1}
           m == [i \in 1 .. Len(c) - f + 1 |->
                    IF c[f + i - 1].key \in gone THEN [c[f + i - 1] EXCEPT !.live = FALSE]
                    ELSE c[f + i - 1]]
<1>1. DOMAIN c = 1 .. Len(c)
  BY LenProperties
<1>2. Len(c) \in Nat /\ \A j \in 1 .. Len(c) : c[j] \in Elements(K, V)
  BY LenProperties, ElementOfSeq
<1>3. CASE ~Expires(options)
  <2>1. d = c
    BY <1>3 DEF MaybeDeleteOldest
  <2> HIDE DEF d
  <2>2. 1 \in 1 .. Len(c) + 1 /\ \A j \in 1 .. Len(d) : 1 + j - 1 \in 1 .. Len(c) /\ d[j] = c[1 + j - 1]
    BY <1>2, <2>1
  <2>3. Len(d) = Len(c) - 1 + 1 /\ \A i \in 1 .. 1 - 1 : Expires(options) /\ ~(c[i].expires > t)
    BY <1>2, <2>1
  <2>4. d \in Seq(Elements(K, V)) /\ Len(d) <= Len(c)
    BY <1>2, <2>1
  <2>5. QED BY <2>2, <2>3, <2>4 DEF d
<1>4. CASE Expires(options)
  <2>1. d = m
    BY <1>4 DEF MaybeDeleteOldest
  <2>2. f \in 1 .. Len(c) + 1 /\ \A i \in 1 .. Len(c) : i < f => ~(c[i].expires > t)
    <3>1. CASE fresh = {}
      BY <1>1, <1>2, <3>1
    <3>2. CASE fresh # {}
      <4>1. fresh \subseteq 1 .. Len(c) /\ fresh \subseteq Nat
        BY <1>1
      <4>2. \E i \in fresh : \A j \in fresh : i <= j
        <5> HIDE DEF fresh
        <5>1. QED BY <3>2, <4>1, LeastExists
      <4>3. f \in fresh /\ \A j \in fresh : f <= j
        BY <3>2, <4>2
      <4> HIDE DEF f
      <4>4. \A i \in 1 .. Len(c) : i < f => i \notin fresh
        BY <1>2, <4>1, <4>3
      <4>5. QED BY <1>1, <1>2, <4>1, <4>3, <4>4
    <3>3. QED BY <3>1, <3>2
  <2> HIDE DEF f
  <2>3. \A i \in 1 .. Len(c) - f + 1 : f + i - 1 \in 1 .. Len(c)
    BY <1>2, <2>2
  <2>4. m \in [1 .. Len(c) - f + 1 -> Elements(K, V)]
    BY <1>2, <2>3 DEF Elements
  <2>5. m \in Seq(Elements(K, V)) /\ Len(m) = Len(c) - f + 1
    <3>1. Len(c) - f + 1 \in Nat
      BY <1>2, <2>2
    <3> HIDE DEF m
    <3>2. QED BY <2>4, <3>1, LenProperties, SeqDef
  <2>6. Linked(c) => \A j \in 1 .. Len(m) : m[j] = c[f + j - 1]
    <3> SUFFICES ASSUME Linked(c), NEW j \in 1 .. Len(c) - f + 1 PROVE m[j] = c[f + j - 1]
      BY <2>5
    <3>1. f + j - 1 \in 1 .. Len(c) /\ \A i \in 1 .. f - 1 : i \in 1 .. Len(c) /\ i # f + j - 1
      BY <1>2, <2>2, <2>3
    <3>2. c[f + j - 1].key \notin gone
      BY <3>1 DEF Linked
    <3> HIDE DEF gone
    <3>3. QED BY <3>2
  <2> HIDE DEF m
  <2>7. Len(m) <= Len(c) /\ \A j \in 1 .. Len(m) : f + j - 1 \in 1 .. Len(c)
    BY <1>2, <2>2, <2>3, <2>5
  <2>8. \A i \in 1 .. f - 1 : Expires(options) /\ ~(c[i].expires > t)
    BY <1>2, <1>4, <2>2
  <2> HIDE DEF d
  <2>9. QED BY <2>1, <2>2, <2>5, <2>6, <2>7, <2>8 DEF d
<1>5. QED BY <1>3, <1>4

LEMMA OldestInStep ==
    ASSUME NEW c \in Seq(Elements(Key, Val)), NEW s, NEW o, NEW t \in Nat, NEW A, InStep(c, s, o, t, A)
    PROVE  InStep(MaybeDeleteOldest(c, options, t), s, o, t, A)
<1> DEFINE d == MaybeDeleteOldest(c, options, t)
<1>1. Linked(c)
  BY DEF InStep
<1>2. PICK f \in 1 .. Len(c) + 1 :
          /\ \A j \in 1 .. Len(d) : f + j - 1 \in 1 .. Len(c) /\ d[j] = c[f + j - 1]
          /\ Len(d) = Len(c) - f + 1
          /\ \A i \in 1 .. f - 1 : Expires(options) /\ ~(c[i].expires > t)
  BY <1>1, OldestProperties
<1>3. d \in Seq(Elements(Key, Val)) /\ Len(c) \in Nat
  BY OldestProperties, LenProperties
<1> HIDE DEF d
<1>4. Thinned(d, c)
  <2>1. Within(d, c)
    BY <1>2 DEF Within
  <2>2. ASSUME NEW i \in 1 .. Len(d), NEW j \in 1 .. Len(d), i < j
        PROVE  \E m, n \in 1 .. Len(c) : m < n /\ d[i] = c[m] /\ d[j] = c[n]
    <3>1. f + i - 1 < f + j - 1
      BY <1>2, <1>3, <2>2
    <3>2. QED BY <1>2, <3>1
  <2>3. QED BY <2>1, <2>2 DEF Thinned
<1>5. ASSUME NEW i \in 1 .. Len(c)
      PROVE  (\E l \in 1 .. Len(d) : d[l] = c[i]) \/ ~Lasts(s, t, c[i].key)
  <2>1. CASE i < f
    <3>1. Expires(options) /\ ~(c[i].expires > t) /\ s[c[i].key].until = c[i].expires
      BY <1>2, <1>3, <2>1 DEF InStep
    <3>2. c[i].expires \in Nat
      <4>1. c[i] \in Elements(Key, Val)
        BY ElementOfSeq
      <4>2. QED BY <4>1 DEF Elements
    <3>3. QED BY <3>1, <3>2 DEF Lasts
  <2>2. CASE ~(i < f)
    <3>1. i - f + 1 \in 1 .. Len(d) /\ f + (i - f + 1) - 1 = i
      BY <1>2, <1>3, <2>2
    <3>2. d[i - f + 1] = c[i]
      BY <1>2, <3>1
    <3>3. QED BY <3>1, <3>2
  <2>3. QED BY <2>1, <2>2
<1>6. InStep(d, s, o, t, A)
  BY <1>3, <1>4, <1>5, ThinnedInStep
<1>7. QED BY <1>6 DEF d

-----------------------------------------------------------------------------
(* What Set puts into the cache before it drops what is too old.           *)
Placed(c, k, e) ==
    IF k \in Keys(c) THEN MoveToBack(c, Index(c, k), e)
    ELSE IF Full(Append(c, e), options) THEN DeleteElement(Append(c, e), 1) ELSE Append(c, e)

LEMMA PlacedTypes ==
    ASSUME options \in Opts, NEW c \in Seq(Elements(Key, Val)), NoLonger(c),
           NEW k, NEW e \in Elements(Key, Val)
    PROVE  Placed(c, k, e) \in Seq(Elements(Key, Val)) /\ NoLonger(Placed(c, k, e))
<1> DEFINE a == Append(c, e)
<1>1. /\ a \in Seq(Elements(Key, Val)) /\ Len(a) = Len(c) + 1 /\ Len(c) \in Nat
      /\ options.maxSize \in Nat
  BY AppendProperties, LenProperties, OptionFacts
<1> HIDE DEF a
<1>2. CASE k \in Keys(c)
  <2>1. PICK i \in 1 .. Len(c) : i = Index(c, k)
    BY <1>2, IndexFound
  <2>2. MoveToBack(c, i, e) \in Seq(Elements(Key, Val)) /\ Len(MoveToBack(c, i, e)) = Len(c)
    BY MoveProperties DEF Moved
  <2>3. Placed(c, k, e) = MoveToBack(c, i, e)
    BY <1>2, <2>1 DEF Placed
  <2>4. QED BY <2>2, <2>3 DEF NoLonger
<1>3. CASE k \notin Keys(c) /\ Full(a, options)
  <2>1. 1 \in 1 .. Len(a)
    BY <1>1
  <2>2. DeleteElement(a, 1) \in Seq(Elements(Key, Val)) /\ Len(DeleteElement(a, 1)) = Len(a) - 1
    BY <1>1, <2>1, DeleteElementCases
  <2>3. Placed(c, k, e) = DeleteElement(a, 1)
    BY <1>3 DEF Placed, a
  <2>4. QED BY <1>1, <2>2, <2>3 DEF NoLonger
<1>4. CASE k \notin Keys(c) /\ ~Full(a, options)
  <2>1. Placed(c, k, e) = a
    BY <1>4 DEF Placed, a
  <2>2. NoLonger(a)
    BY <1>1, <1>4 DEF NoLonger, Full
  <2>3. QED BY <1>1, <2>1, <2>2
<1>5. QED BY <1>2, <1>3, <1>4

(* The element of a key, as it was or with another value or time, moves to *)
(* the back when the key is touched.                                       *)
LEMMA MovedInStep ==
    ASSUME NEW c \in Seq(Elements(Key, Val)), NEW k \in Keys(c),
           NEW e \in Elements(Key, Val), e.key = k, e.live,
           NEW s, NEW o \in Seq(Key), NEW t, InStep(c, s, o, t, Key),
           NEW s2, \A x \in Key : x # k => s2[x] = s[x],
           s2[k] # Nothing, s2[k].value = e.value, Expires(options) => s2[k].until = e.expires
    PROVE  InStep(MoveToBack(c, Index(c, k), e), s2, Touch(o, k), t, Key)
<1>1. PICK i \in 1 .. Len(c) : i = Index(c, k) /\ c[i].key = k
  BY IndexFound
<1>2. k \in Key
  BY IndexFound
<1> DEFINE r == Remove(c, i)
<1>3. r \in Seq(Elements(Key, Val)) /\ Without(r, c, i)
  BY RemoveProperties DEF Without
<1>4. MoveToBack(c, Index(c, k), e) = Append(r, e)
  BY <1>1 DEF MoveToBack
<1> HIDE DEF r
<1>5. InStep(r, s, o, t, Key \ {k}) /\ k \notin Keys(r)
  BY <1>1, <1>3, WithoutInStep
<1>6. InStep(Append(r, e), s2, Touch(o, k), t, Key)
  BY <1>2, <1>3, <1>5, PushInStep
<1>7. QED BY <1>4, <1>6

LEMMA PlacedInStep ==
    ASSUME NEW c \in Seq(Elements(Key, Val)), NEW k \in Key,
           NEW e \in Elements(Key, Val), e.key = k, e.live,
           NEW s, NEW o \in Seq(Key), NEW t, InStep(c, s, o, t, Key),
           NEW s2, \A x \in Key : x # k => s2[x] = s[x],
           s2[k] # Nothing, s2[k].value = e.value, Expires(options) => s2[k].until = e.expires
    PROVE  InStep(Placed(c, k, e), s2, Touch(o, k), t, Key)
<1> DEFINE a == Append(c, e)
<1>1. a \in Seq(Elements(Key, Val)) /\ Len(a) = Len(c) + 1 /\ Len(c) \in Nat
  BY AppendProperties, LenProperties
<1>2. CASE k \in Keys(c)
  <2>1. InStep(MoveToBack(c, Index(c, k), e), s2, Touch(o, k), t, Key)
    BY <1>2, MovedInStep
  <2>2. QED BY <1>2, <2>1 DEF Placed
<1>3. CASE k \notin Keys(c)
  <2>1. InStep(c, s, o, t, Key \ {k})
    BY DEF InStep
  <2>2. InStep(a, s2, Touch(o, k), t, Key)
    BY <1>3, <2>1, PushInStep
  <2> HIDE DEF a
  <2>3. Linked(a) /\ 1 \in 1 .. Len(a)
    BY <1>1, <2>2 DEF InStep
  <2>4. DeleteElement(a, 1) \in Seq(Elements(Key, Val)) /\ Without(DeleteElement(a, 1), a, 1)
    BY <1>1, <2>3, DeleteElementCases
  <2>5. InStep(DeleteElement(a, 1), s2, Touch(o, k), t, Key)
    BY <1>1, <2>2, <2>3, <2>4, WithoutInStep
  <2>6. QED BY <1>3, <2>2, <2>5 DEF Placed, a
<1>4. QED BY <1>2, <1>3

(* Set, for every option set. *)
LEMMA SetUse ==
    ASSUME options \in Opts, NEW c \in Seq(Elements(Key, Val)), NoLonger(c),
           NEW k \in Key, NEW v \in Val, NEW t \in Nat
    PROVE  LET m == Set(c, options, k, v, t)
           IN  /\ m \in Seq(Elements(Key, Val)) /\ NoLonger(m)
               /\ \A s, s2 : \A o \in Seq(Key) :
                      /\ InStep(c, s, o, t, Key)
                      /\ \A x \in Key : x # k => s2[x] = s[x]
                      /\ s2[k] # Nothing /\ s2[k].value = v /\ s2[k].until = t + options.maxAge
                      => InStep(m, s2, Touch(o, k), t, Key)
<1> DEFINE e == Entry(k, v, ExpiresAfter(options, t))
           b == Placed(c, k, e)
           m == MaybeDeleteOldest(b, options, t)
<1>1. Set(c, options, k, v, t) = m
  BY DEF Set, SetWithExpire, Placed
<1>2. /\ e \in Elements(Key, Val) /\ e.key = k /\ e.live /\ e.value = v
      /\ Expires(options) => e.expires = t + options.maxAge
  BY OptionFacts DEF Elements, Entry
<1> HIDE DEF e
<1>3. b \in Seq(Elements(Key, Val)) /\ NoLonger(b)
  BY <1>2, PlacedTypes
<1>4. ASSUME NEW s, NEW s2, NEW o \in Seq(Key), InStep(c, s, o, t, Key),
             \A x \in Key : x # k => s2[x] = s[x],
             s2[k] # Nothing, s2[k].value = v, s2[k].until = t + options.maxAge
      PROVE  InStep(b, s2, Touch(o, k), t, Key)
  BY <1>2, <1>4, PlacedInStep
<1> HIDE DEF b
<1>5. m \in Seq(Elements(Key, Val)) /\ Len(m) <= Len(b)
  BY <1>3, OldestProperties
<1>6. NoLonger(m)
  <2> HIDE DEF m
  <2>1. Len(m) \in Nat /\ Len(b) \in Nat /\ options.maxSize \in Nat
    BY <1>3, <1>5, LenProperties, OptionFacts
  <2>2. QED BY <1>3, <1>5, <2>1 DEF NoLonger
<1>7. ASSUME NEW s, NEW s2, NEW o \in Seq(Key), InStep(c, s, o, t, Key),
             \A x \in Key : x # k => s2[x] = s[x],
             s2[k] # Nothing, s2[k].value = v, s2[k].until = t + options.maxAge
      PROVE  InStep(m, s2, Touch(o, k), t, Key)
  <2>1. InStep(b, s2, Touch(o, k), t, Key)
    BY <1>4, <1>7
  <2>2. QED BY <1>3, <2>1, OldestInStep
<1> HIDE DEF m
<1>8. QED BY <1>1, <1>5, <1>6, <1>7

(* Get, for every option set: a hit is touched, a miss loses at most what  *)
(* does not last.                                                          *)
LEMMA GetUse ==
    ASSUME options \in Opts, NEW c \in Seq(Elements(Key, Val)), NoLonger(c), NEW k \in Key, NEW t \in Nat
    PROVE  LET m == Get(c, options, k, t)
           IN  /\ m \in Seq(Elements(Key, Val)) /\ NoLonger(m)
               /\ \A s : \A o \in Seq(Key) :
                      /\ InStep(c, s, o, t, Key)
                      /\ ~Hit(c, options, k, t)
                      => InStep(m, s, o, t, Key)
               /\ \A s, s2 : \A o \in Seq(Key) :
                      /\ InStep(c, s, o, t, Key)
                      /\ Hit(c, options, k, t)
                      /\ \A x \in Key : x # k => s2[x] = s[x]
                      /\ s2[k] # Nothing /\ s2[k].value = s[k].value
                      /\ s2[k].until = IF options.updateAgeOnGet THEN t + options.maxAge ELSE s[k].until
                      => InStep(m, s2, Touch(o, k), t, Key)
<1> DEFINE m == Get(c, options, k, t)
           i == Index(c, k)
           x1 == IF options.maxAge > 0 /\ options.updateAgeOnGet THEN t + options.maxAge ELSE c[i].expires
           e == [c[i] EXCEPT !.expires = x1]
<1>1. Len(c) \in Nat /\ options.maxSize \in Nat /\ options.maxAge \in Nat
  BY LenProperties, OptionFacts
<1>2. CASE k \notin Keys(c)
  <2>1. m = c /\ ~Hit(c, options, k, t)
    BY <1>2 DEF Get, Hit
  <2>2. QED BY <2>1
<1>3. CASE k \in Keys(c) /\ Expired(c, options, k, t)
  <2> DEFINE d == DeleteElement(c, i)
  <2>1. m = MaybeDeleteOldest(d, options, t) /\ ~Hit(c, options, k, t)
    BY <1>3 DEF Get, Hit
  <2>2. i \in 1 .. Len(c) /\ c[i].key = k
    BY <1>3, IndexFound
  <2>3. Expires(options) /\ c[i].expires <= t
    BY <1>3 DEF Expired
  <2> HIDE DEF i
  <2>4. /\ d \in Seq(Elements(Key, Val)) /\ Len(d) = Len(c) - 1
        /\ Linked(c) => Without(d, c, i)
    BY <2>2, DeleteElementCases
  <2> HIDE DEF d
  <2>5. ASSUME NEW s, NEW o \in Seq(Key), InStep(c, s, o, t, Key) PROVE InStep(m, s, o, t, Key)
    <3>1. ~Lasts(s, t, k)
      <4>1. s[k].until = c[i].expires
        BY <2>2, <2>3, <2>5 DEF InStep
      <4>2. c[i] \in Elements(Key, Val)
        BY <2>2, ElementOfSeq
      <4>3. c[i].expires \in Nat
        BY <4>2 DEF Elements
      <4>4. QED BY <2>3, <4>1, <4>3 DEF Lasts
    <3>2. Without(d, c, i)
      BY <2>4, <2>5 DEF InStep
    <3>3. InStep(d, s, o, t, Key)
      BY <2>2, <2>4, <2>5, <3>1, <3>2, WithoutInStep
    <3>4. QED BY <2>1, <2>4, <3>3, OldestInStep
  <2>6. m \in Seq(Elements(Key, Val)) /\ Len(m) <= Len(d)
    BY <2>1, <2>4, OldestProperties
  <2> HIDE DEF m
  <2>7. NoLonger(m)
    <3>1. Len(m) \in Nat
      BY <2>6, LenProperties
    <3>2. QED BY <1>1, <2>4, <2>6, <3>1 DEF NoLonger
  <2>8. QED BY <2>1, <2>5, <2>6, <2>7 DEF m
<1>4. CASE k \in Keys(c) /\ ~Expired(c, options, k, t)
  <2>1. m = MoveToBack(c, i, e) /\ Hit(c, options, k, t)
    BY <1>4 DEF Get, Hit
  <2>2. i \in 1 .. Len(c) /\ c[i].key = k /\ c[i].live /\ c[i] \in Elements(Key, Val)
    BY <1>4, IndexFound
  <2>3. c[i].expires \in Nat /\ c[i].value \in Val /\ c[i].key \in Key
    BY <2>2 DEF Elements
  <2>4. x1 \in Nat
    BY <1>1, <2>3
  <2> HIDE DEF x1
  <2>5. /\ e \in Elements(Key, Val) /\ e.key = k /\ e.live
        /\ e.value = c[i].value /\ e.expires = x1
    BY <2>2, <2>3, <2>4 DEF Elements
  <2> HIDE DEF e
  <2>6. m \in Seq(Elements(Key, Val)) /\ Len(m) = Len(c)
    <3> HIDE DEF i, m
    <3>1. QED BY <2>1, <2>2, <2>5, MoveProperties DEF Moved
  <2>7. NoLonger(m)
    BY <2>6 DEF NoLonger
  <2>8. ASSUME NEW s, NEW s2, NEW o \in Seq(Key), InStep(c, s, o, t, Key),
               \A x \in Key : x # k => s2[x] = s[x],
               s2[k] # Nothing, s2[k].value = s[k].value,
               s2[k].until = IF options.updateAgeOnGet THEN t + options.maxAge ELSE s[k].until
        PROVE  InStep(m, s2, Touch(o, k), t, Key)
    <3>1. s[k].value = c[i].value /\ (Expires(options) => s[k].until = c[i].expires)
      BY <2>2, <2>8 DEF InStep
    <3>2. Expires(options) => s2[k].until = e.expires
      BY <2>5, <2>8, <3>1 DEF Expires, x1
    <3>3. s2[k].value = e.value
      BY <2>5, <2>8, <3>1
    <3>4. QED BY <1>4, <2>1, <2>5, <2>8, <3>2, <3>3, MovedInStep
  <2> HIDE DEF m, i
  <2>9. QED BY <2>1, <2>6, <2>7, <2>8 DEF m
<1>5. QED BY <1>2, <1>3, <1>4

(* Delete, and what the client then forgets. *)
LEMMA DeleteUse ==
    ASSUME options \in Opts, NEW c \in Seq(Elements(Key, Val)), NoLonger(c), NEW k \in Key, NEW t
    PROVE  LET m == Delete(c, k)
           IN  /\ m \in Seq(Elements(Key, Val)) /\ NoLonger(m)
               /\ \A s, s2, o : /\ InStep(c, s, o, t, Key)
                                /\ \A x \in Key : x # k => s2[x] = s[x]
                                /\ s2[k] = Nothing
                                => InStep(m, s2, o, t, Key)
<1> DEFINE m == Delete(c, k)
<1>1. Len(c) \in Nat /\ options.maxSize \in Nat /\ m \in Seq(Elements(Key, Val))
  BY LenProperties, OptionFacts, DeleteCases
<1>2. NoLonger(m) /\ \A s, o : InStep(c, s, o, t, Key) => InStep(m, s, o, t, Key \ {k}) /\ k \notin Keys(m)
  <2>1. CASE k \notin Keys(c)
    <3>1. m = c
      BY <2>1, DeleteCases
    <3>2. \A s, o : InStep(c, s, o, t, Key) => InStep(c, s, o, t, Key \ {k})
      BY DEF InStep
    <3>3. QED BY <2>1, <3>1, <3>2
  <2>2. CASE k \in Keys(c)
    <3>1. PICK i \in 1 .. Len(c) : c[i].key = k /\ m = DeleteElement(c, i)
      BY <2>2, DeleteCases, IndexFound
    <3> HIDE DEF m
    <3>2. Len(m) = Len(c) - 1 /\ (Linked(c) => Without(m, c, i))
      BY <3>1, DeleteElementCases
    <3>3. ASSUME NEW s, NEW o, InStep(c, s, o, t, Key) PROVE InStep(m, s, o, t, Key \ {k}) /\ k \notin Keys(m)
      <4>1. Without(m, c, i)
        BY <3>2, <3>3 DEF InStep
      <4>2. QED BY <1>1, <3>1, <3>3, <4>1, WithoutInStep
    <3>4. NoLonger(m)
      BY <1>1, <3>2 DEF NoLonger
    <3>5. QED BY <3>3, <3>4
  <2>3. QED BY <2>1, <2>2
<1> HIDE DEF m
<1>3. ASSUME NEW s, NEW s2, NEW o, InStep(c, s, o, t, Key), s2[k] = Nothing,
             \A x \in Key : x # k => s2[x] = s[x]
      PROVE  InStep(m, s2, o, t, Key)
  <2>1. InStep(m, s, o, t, Key \ {k}) /\ k \notin Keys(m)
    BY <1>2, <1>3
  <2>2. \A j \in 1 .. Len(m) : m[j].key # k /\ m[j].key \in Key
    <3> SUFFICES ASSUME NEW j \in 1 .. Len(m) PROVE m[j].key # k /\ m[j].key \in Key
      OBVIOUS
    <3>1. m[j] \in Elements(Key, Val)
      BY <1>1, ElementOfSeq
    <3>2. m[j].key \in Keys(m)
      BY <1>1, <2>1, SoundIndex DEF InStep
    <3>3. QED BY <2>1, <3>1, <3>2 DEF Elements
  <2>3. ~Lasts(s2, t, k) /\ \A x \in Key : x # k => (Lasts(s2, t, x) <=> Lasts(s, t, x))
    BY <1>3 DEF Lasts
  <2>4. \A j \in 1 .. Len(m) : s2[m[j].key] = s[m[j].key]
    BY <1>3, <2>2
  <2>5. /\ Linked(m) /\ Once(o)
        /\ \A j \in 1 .. Len(m) : /\ Touched(o, m[j].key) /\ s2[m[j].key] # Nothing
                                  /\ s2[m[j].key].value = m[j].value
                                  /\ Expires(options) => s2[m[j].key].until = m[j].expires
        /\ \A i, j \in 1 .. Len(m) : i < j => Before(o, m[i].key, m[j].key)
    BY <2>1, <2>4 DEF InStep
  <2>6. \A x \in Key : Lasts(s2, t, x) /\ x \notin Keys(m) =>
            Touched(o, x) /\ \A j \in 1 .. Len(m) : Before(o, x, m[j].key)
    BY <2>1, <2>3 DEF InStep
  <2>7. QED BY <2>5, <2>6 DEF InStep
<1>4. QED BY <1>1, <1>2, <1>3 DEF m

LEMMA ClearCloneLen ==
    ASSUME NEW K, NEW V, NEW c \in Seq(Elements(K, V))
    PROVE  Len(Clear(c)) = Len(c) /\ Len(Clone(c)) = Len(c)
<1>1. DOMAIN c = 1 .. Len(c) /\ \A j \in 1 .. Len(c) : c[j] \in Elements(K, V)
  BY LenProperties, ElementOfSeq
<1>2. Clear(c) \in [DOMAIN c -> Elements(K, V)] /\ Clone(c) \in [DOMAIN c -> Elements(K, V)]
  BY <1>1 DEF Clear, Clone, Elements
<1>3. QED BY <1>2, MapProperties

-----------------------------------------------------------------------------
LEMMA CacheInit == InitUse => CacheInvariant
<1> SUFFICES ASSUME InitUse PROVE CacheInvariant
  OBVIOUS
<1>1. /\ options \in Opts /\ now = 0 /\ clears = 0
      /\ cache = <<>> /\ order = <<>> /\ stored = [k \in Key |-> Nothing]
  BY DEF InitUse, EmptyCache
<1>2. cache \in Seq(Elements(Key, Val)) /\ order \in Seq(Key) /\ Len(cache) = 0 /\ Len(order) = 0
  BY <1>1
<1>3. \A k \in Key : ~Lasts(stored, now, k)
  BY <1>1 DEF Lasts
<1>4. Once(order) /\ Linked(cache)
  BY <1>2 DEF Once, Linked
<1>5. InStep(cache, stored, order, now, Key)
  BY <1>2, <1>3, <1>4 DEF InStep
<1>6. NoLonger(cache)
  BY <1>1, <1>2, OptionFacts DEF NoLonger
<1>7. QED BY <1>1, <1>2, <1>4, <1>5, <1>6 DEF CacheInvariant, UseTyped

(* What Store makes of the client's memory. *)
LEMMA StoreUse ==
    ASSUME CacheInvariant, NEW k \in Key, NEW v \in Val, Store(k, v)
    PROVE  /\ options' = options /\ now' = now /\ clears' = clears
           /\ order' = Touch(order, k) /\ order' \in Seq(Key) /\ Once(order') /\ DOMAIN stored' = Key
           /\ clears = 0 => stored' \in [Key -> {Nothing} \cup [value : Val, until : Nat]]
           /\ \A x \in Key : x # k => stored'[x] = stored[x]
           /\ stored'[k] # Nothing /\ stored'[k].value = v /\ stored'[k].until = now + options.maxAge
<1> DEFINE r == [value |-> v, until |-> now + options.maxAge]
<1>1. /\ options \in Opts /\ now \in Nat /\ order \in Seq(Key) /\ Once(order) /\ DOMAIN stored = Key
      /\ clears = 0 => stored \in [Key -> {Nothing} \cup [value : Val, until : Nat]]
  BY DEF CacheInvariant, UseTyped
<1>2. /\ options' = options /\ now' = now /\ clears' = clears
      /\ order' = Touch(order, k) /\ stored' = [stored EXCEPT ![k] = r]
  BY DEF Store
<1>3. r \in [value : Val, until : Nat] /\ r.value = v /\ r.until = now + options.maxAge
  <2>1. options.maxAge \in Nat
    BY <1>1, OptionFacts
  <2>2. now + options.maxAge \in Nat
    BY <1>1, <2>1
  <2>3. QED BY <2>2
<1>4. r # Nothing
  BY <1>3, Something
<1> HIDE DEF r
<1>5. order' \in Seq(Key) /\ Once(order')
  BY <1>1, <1>2, TouchProperties
<1>6. DOMAIN stored' = Key /\ stored'[k] = r /\ \A x \in Key : x # k => stored'[x] = stored[x]
  BY <1>1, <1>2
<1>7. clears = 0 => stored' \in [Key -> {Nothing} \cup [value : Val, until : Nat]]
  BY <1>1, <1>2, <1>3
<1>8. QED BY <1>2, <1>3, <1>4, <1>5, <1>6, <1>7

LEMMA CacheStep == CacheInvariant /\ [NextUse]_useVars => CacheInvariant'
<1> SUFFICES ASSUME CacheInvariant, [NextUse]_useVars PROVE CacheInvariant'
  OBVIOUS
<1>1. /\ options \in Opts /\ now \in Nat /\ clears \in Nat
      /\ cache \in Seq(Elements(Key, Val)) /\ order \in Seq(Key) /\ DOMAIN stored = Key
      /\ Once(order) /\ NoLonger(cache)
      /\ clears = 0 => stored \in [Key -> {Nothing} \cup [value : Val, until : Nat]]
      /\ clears = 0 => InStep(cache, stored, order, now, Key)
  BY DEF CacheInvariant, UseTyped
(* What is to be shown of each action. *)
<1>2. ASSUME options' = options,
             cache' \in Seq(Elements(Key, Val)), NoLonger(cache'),
             now' \in Nat, clears' \in Nat, order' \in Seq(Key), Once(order'), DOMAIN stored' = Key,
             clears' = 0 => stored' \in [Key -> {Nothing} \cup [value : Val, until : Nat]],
             clears' = 0 => InStep(cache', stored', order', now', Key)
      PROVE  CacheInvariant'
  <2>1. UseTyped'
    BY <1>1, <1>2 DEF UseTyped, Once, Elements
  <2>2. NoLonger(cache)'
    BY <1>2 DEF NoLonger
  <2>3. InStep(cache, stored, order, now, Key)' <=> InStep(cache', stored', order', now', Key)
    BY <1>2 DEF InStep, Linked, Once, Before, Touched, Keys, Lasts, Expires
  <2>4. QED BY <1>2, <2>1, <2>2, <2>3 DEF CacheInvariant
<1>3. ASSUME NEW k \in Key, DoGet(k) PROVE CacheInvariant'
  <2> DEFINE m == Get(cache, options, k, now)
             r == [stored[k] EXCEPT !.until = now + options.maxAge]
  <2>1. /\ m \in Seq(Elements(Key, Val)) /\ NoLonger(m)
        /\ \A s : \A o \in Seq(Key) :
               /\ InStep(cache, s, o, now, Key)
               /\ ~Hit(cache, options, k, now)
               => InStep(m, s, o, now, Key)
        /\ \A s, s2 : \A o \in Seq(Key) :
               /\ InStep(cache, s, o, now, Key)
               /\ Hit(cache, options, k, now)
               /\ \A x \in Key : x # k => s2[x] = s[x]
               /\ s2[k] # Nothing /\ s2[k].value = s[k].value
               /\ s2[k].until = IF options.updateAgeOnGet THEN now + options.maxAge ELSE s[k].until
               => InStep(m, s2, Touch(o, k), now, Key)
    BY <1>1, GetUse
  <2>2. cache' = m /\ options' = options /\ now' = now /\ clears' = clears
    BY <1>3 DEF DoGet
  <2> HIDE DEF m
  <2>3. CASE ~Hit(cache, options, k, now)
    <3>1. order' = order /\ stored' = stored
      BY <1>3, <2>3 DEF DoGet
    <3>2. clears = 0 => InStep(m, stored, order, now, Key)
      BY <1>1, <2>1, <2>3
    <3>3. QED BY <1>1, <1>2, <2>1, <2>2, <3>1, <3>2
  <2>4. CASE Hit(cache, options, k, now)
    <3>1. order' = Touch(order, k)
      BY <1>3, <2>4 DEF DoGet
    <3>2. order' \in Seq(Key) /\ Once(order')
      BY <1>1, <3>1, TouchProperties
    <3>3. stored' = IF options.updateAgeOnGet THEN [stored EXCEPT ![k] = r] ELSE stored
      BY <1>3, <2>4 DEF DoGet
    <3>4. DOMAIN stored' = Key
      BY <1>1, <3>3
    <3>5. ASSUME clears = 0
          PROVE  /\ stored' \in [Key -> {Nothing} \cup [value : Val, until : Nat]]
                 /\ InStep(m, stored', order', now, Key)
      <4>1. stored[k] # Nothing /\ stored[k] \in [value : Val, until : Nat]
        <5>1. InStep(cache, stored, order, now, Key) /\ k \in Keys(cache)
          BY <1>1, <2>4, <3>5 DEF Hit
        <5>2. Linked(cache)
          BY <5>1 DEF InStep
        <5>3. PICK i \in 1 .. Len(cache) : cache[i].key = k
          BY <1>1, <5>1, <5>2, SoundIndex
        <5>4. stored[k] # Nothing
          BY <5>1, <5>3 DEF InStep
        <5>5. stored[k] \in {Nothing} \cup [value : Val, until : Nat]
          BY <1>1, <3>5
        <5>6. QED BY <5>4, <5>5
      <4>2. now + options.maxAge \in Nat
        <5>1. options.maxAge \in Nat
          BY <1>1, OptionFacts
        <5>2. QED BY <1>1, <5>1
      <4>3. r \in [value : Val, until : Nat] /\ r.value = stored[k].value /\ r.until = now + options.maxAge
        BY <4>1, <4>2
      <4>4. r # Nothing
        BY <4>3, Something
      <4> HIDE DEF r
      <4>5. stored' \in [Key -> {Nothing} \cup [value : Val, until : Nat]]
        BY <1>1, <3>3, <3>5, <4>3
      <4>6. /\ \A x \in Key : x # k => stored'[x] = stored[x]
            /\ stored'[k] # Nothing /\ stored'[k].value = stored[k].value
            /\ stored'[k].until = IF options.updateAgeOnGet THEN now + options.maxAge ELSE stored[k].until
        <5>1. CASE options.updateAgeOnGet
          BY <1>1, <3>3, <4>3, <4>4, <5>1
        <5>2. CASE ~options.updateAgeOnGet
          BY <3>3, <4>1, <5>2
        <5>3. QED BY <5>1, <5>2
      <4>7. InStep(m, stored', Touch(order, k), now, Key)
        BY <1>1, <2>1, <2>4, <3>5, <4>6
      <4>8. QED BY <3>1, <4>5, <4>7
    <3>6. QED BY <1>1, <1>2, <2>1, <2>2, <3>2, <3>4, <3>5
  <2>5. QED BY <2>3, <2>4
<1>4. ASSUME NEW k \in Key, DoDelete(k) PROVE CacheInvariant'
  <2> DEFINE m == Delete(cache, k)
  <2>1. /\ m \in Seq(Elements(Key, Val)) /\ NoLonger(m)
        /\ \A s, s2, o : /\ InStep(cache, s, o, now, Key)
                         /\ \A x \in Key : x # k => s2[x] = s[x]
                         /\ s2[k] = Nothing
                         => InStep(m, s2, o, now, Key)
    BY <1>1, DeleteUse
  <2>2. /\ cache' = m /\ options' = options /\ now' = now /\ clears' = clears /\ order' = order
        /\ stored' = [stored EXCEPT ![k] = Nothing]
    BY <1>4 DEF DoDelete
  <2> HIDE DEF m
  <2>3. /\ DOMAIN stored' = Key /\ stored'[k] = Nothing /\ \A x \in Key : x # k => stored'[x] = stored[x]
        /\ clears = 0 => stored' \in [Key -> {Nothing} \cup [value : Val, until : Nat]]
    BY <1>1, <2>2
  <2>4. clears = 0 => InStep(m, stored', order, now, Key)
    BY <1>1, <2>1, <2>3
  <2>5. QED BY <1>1, <1>2, <2>1, <2>2, <2>3, <2>4
<1>5. ASSUME NEW k \in Key, NEW v \in Val, DoSet(k, v) PROVE CacheInvariant'
  <2> DEFINE m == Set(cache, options, k, v, now)
  <2>1. /\ m \in Seq(Elements(Key, Val)) /\ NoLonger(m)
        /\ \A s, s2 : \A o \in Seq(Key) :
               /\ InStep(cache, s, o, now, Key)
               /\ \A x \in Key : x # k => s2[x] = s[x]
               /\ s2[k] # Nothing /\ s2[k].value = v /\ s2[k].until = now + options.maxAge
               => InStep(m, s2, Touch(o, k), now, Key)
    BY <1>1, SetUse
  <2>2. cache' = m /\ Store(k, v)
    BY <1>5 DEF DoSet
  <2> HIDE DEF m
  <2>3. QED BY <1>1, <1>2, <2>1, <2>2, StoreUse
<1>6. ASSUME NEW k \in Key, NEW v \in Val, DoGetOrStore(k, v) PROVE CacheInvariant'
  <2> DEFINE g == Get(cache, options, k, now)
             m == Set(g, options, k, v, now)
  <2>1. ~Hit(cache, options, k, now) /\ cache' = m /\ Store(k, v)
    BY <1>6 DEF DoGetOrStore, GetOrStore
  <2>2. g \in Seq(Elements(Key, Val)) /\ NoLonger(g) /\ (clears = 0 => InStep(g, stored, order, now, Key))
    BY <1>1, <2>1, GetUse
  <2> HIDE DEF g
  <2>3. /\ m \in Seq(Elements(Key, Val)) /\ NoLonger(m)
        /\ \A s, s2 : \A o \in Seq(Key) :
               /\ InStep(g, s, o, now, Key)
               /\ \A x \in Key : x # k => s2[x] = s[x]
               /\ s2[k] # Nothing /\ s2[k].value = v /\ s2[k].until = now + options.maxAge
               => InStep(m, s2, Touch(o, k), now, Key)
    BY <1>1, <2>2, SetUse
  <2> HIDE DEF m
  <2>4. QED BY <1>1, <1>2, <2>1, <2>2, <2>3, StoreUse
<1>7. CASE DoClear
  <2>1. /\ cache' = Clear(cache) /\ options' = options /\ now' = now /\ order' = order
        /\ clears' = clears + 1 /\ stored' = [k \in Key |-> Nothing]
    BY <1>7 DEF DoClear
  <2>2. Clear(cache) \in Seq(Elements(Key, Val)) /\ Len(Clear(cache)) = Len(cache)
    BY <1>1, ClearCloneType, ClearCloneLen
  <2>3. clears' \in Nat /\ clears' # 0 /\ NoLonger(cache') /\ DOMAIN stored' = Key
    BY <1>1, <2>1, <2>2 DEF NoLonger
  <2>4. QED BY <1>1, <1>2, <2>1, <2>2, <2>3
<1>8. CASE DoClone
  <2>1. /\ cache' = Clone(cache) /\ options' = options /\ now' = now /\ order' = order
        /\ clears' = clears /\ stored' = stored
    BY <1>8 DEF DoClone
  <2>2. Clone(cache) \in Seq(Elements(Key, Val)) /\ Len(Clone(cache)) = Len(cache)
    BY <1>1, ClearCloneType, ClearCloneLen
  <2>3. clears = 0 => Clone(cache) = cache
    BY <1>1, ClearCloneType DEF InStep
  <2>4. NoLonger(cache')
    BY <1>1, <2>1, <2>2 DEF NoLonger
  <2>5. QED BY <1>1, <1>2, <2>1, <2>2, <2>3, <2>4
<1>9. CASE Tick
  <2>1. /\ cache' = cache /\ options' = options /\ now' = now + 1 /\ order' = order
        /\ clears' = clears /\ stored' = stored
    BY <1>9 DEF Tick
  <2>2. ASSUME clears = 0 PROVE InStep(cache, stored, order, now + 1, Key)
    <3>1. \A k \in Key : Lasts(stored, now + 1, k) => Lasts(stored, now, k)
      <4> SUFFICES ASSUME NEW k \in Key, Lasts(stored, now + 1, k) PROVE Lasts(stored, now, k)
        OBVIOUS
      <4>1. stored[k] \in [value : Val, until : Nat]
        BY <1>1, <2>2 DEF Lasts
      <4>2. stored[k].until \in Nat
        BY <4>1
      <4>3. QED BY <1>1, <4>2 DEF Lasts
    <3>2. QED BY <1>1, <2>2, <3>1 DEF InStep
  <2>3. now + 1 \in Nat
    BY <1>1
  <2>4. QED BY <1>1, <1>2, <2>1, <2>2, <2>3
<1>10. CASE UNCHANGED useVars
  BY <1>1, <1>2, <1>10 DEF useVars
<1>11. QED BY <1>3, <1>4, <1>5, <1>6, <1>7, <1>8, <1>9, <1>10 DEF NextUse

LEMMA CacheInvariance == SpecUse => []CacheInvariant
BY CacheInit, CacheStep, PTL DEF SpecUse

(* A cache never cleared: its list and its map agree, whatever the         *)
(* options, and its size bounds the list even after Clear left elements    *)
(* in it that the map does not know.                                       *)
THEOREM ListIsMapCorrect == SpecUse => []ListIsMap
<1>1. CacheInvariant => ListIsMap
  <2> SUFFICES ASSUME CacheInvariant PROVE ListIsMap
    OBVIOUS
  <2>1. DOMAIN cache = 1 .. Len(cache)
    BY LenProperties DEF CacheInvariant, UseTyped
  <2>2. clears = 0 => Linked(cache)
    BY DEF CacheInvariant, InStep
  <2>3. QED BY <2>1, <2>2 DEF ListIsMap, Linked, CacheInvariant, NoLonger
<1>2. QED BY <1>1, CacheInvariance, PTL

(* Get of a cache answers nothing but what was stored last, while it is    *)
(* good.                                                                   *)
THEOREM AnswersCorrect == SpecUse => []AnswersLastStored
<1>1. CacheInvariant => AnswersLastStored
  <2> SUFFICES ASSUME CacheInvariant, clears = 0, NEW k \in Key, Hit(cache, options, k, now)
               PROVE  Good(k) /\ ValueOf(cache, k) = stored[k].value
    BY DEF AnswersLastStored
  <2>1. /\ cache \in Seq(Elements(Key, Val)) /\ InStep(cache, stored, order, now, Key) /\ now \in Nat
        /\ k \in Keys(cache) /\ ~Expired(cache, options, k, now)
    BY DEF CacheInvariant, UseTyped, Hit
  <2>2. PICK i \in 1 .. Len(cache) : /\ i = Index(cache, k) /\ cache[i].key = k
                                     /\ cache[i] \in Elements(Key, Val)
    BY <2>1, IndexFound
  <2>3. /\ stored[k] # Nothing /\ stored[k].value = cache[i].value
        /\ Expires(options) => stored[k].until = cache[i].expires
    BY <2>1, <2>2 DEF InStep
  <2>4. cache[i].expires \in Nat
    BY <2>2 DEF Elements
  <2>5. Expires(options) => now < stored[k].until
    BY <2>1, <2>2, <2>3, <2>4 DEF Expired
  <2>6. QED BY <2>2, <2>3, <2>5 DEF Good, ValueOf
<1>2. QED BY <1>1, CacheInvariance, PTL

LEMMA RankIs == ASSUME NEW K, NEW o \in Seq(K), Once(o), NEW i \in 1 .. Len(o) PROVE Rank(o, o[i]) = i
<1>1. DOMAIN o = 1 .. Len(o)
  BY LenProperties
<1>2. Rank(o, o[i]) \in 1 .. Len(o) /\ o[Rank(o, o[i])] = o[i]
  BY <1>1 DEF Rank
<1>3. QED BY <1>2 DEF Once

(* What a full cache evicts was touched before all that it keeps.          *)
THEOREM EvictionCorrect == SpecUse => []EvictsLeastRecent
<1>1. CacheInvariant => EvictsLeastRecent
  <2> SUFFICES ASSUME CacheInvariant, clears = 0, NEW a \in Key, NEW b \in Key,
                      Good(a), ~Hit(cache, options, a, now), Hit(cache, options, b, now)
               PROVE  Rank(order, a) < Rank(order, b)
    BY DEF EvictsLeastRecent
  <2>1. /\ cache \in Seq(Elements(Key, Val)) /\ InStep(cache, stored, order, now, Key) /\ now \in Nat
        /\ order \in Seq(Key) /\ Once(order) /\ b \in Keys(cache) /\ Lasts(stored, now, a)
    BY DEF CacheInvariant, UseTyped, Hit, Good, Lasts
  <2>2. a \notin Keys(cache)
    <3>1. SUFFICES ASSUME a \in Keys(cache) PROVE FALSE
      OBVIOUS
    <3>2. PICK i \in 1 .. Len(cache) : /\ i = Index(cache, a) /\ cache[i].key = a
                                       /\ cache[i] \in Elements(Key, Val)
      BY <2>1, <3>1, IndexFound
    <3>3. Expires(options) /\ cache[i].expires <= now /\ cache[i].expires \in Nat
      BY <3>1, <3>2 DEF Hit, Expired, Elements
    <3>4. stored[a].until = cache[i].expires
      BY <2>1, <3>2, <3>3 DEF InStep
    <3>5. QED BY <2>1, <3>3, <3>4 DEF Lasts
  <2>3. PICK j \in 1 .. Len(cache) : cache[j].key = b
    BY <2>1, IndexFound
  <2>4. Before(order, a, b)
    BY <2>1, <2>2, <2>3 DEF InStep
  <2>5. PICK m \in 1 .. Len(order), n \in 1 .. Len(order) : m < n /\ order[m] = a /\ order[n] = b
    BY <2>4 DEF Before
  <2>6. Rank(order, a) = m /\ Rank(order, b) = n
    BY <2>1, <2>5, RankIs
  <2>7. QED BY <2>5, <2>6
<1>2. QED BY <1>1, CacheInvariance, PTL
=============================================================================
