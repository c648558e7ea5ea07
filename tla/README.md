# Verification of the clash core and its Android client

TLA+ modules, TLC configurations and TLAPS proofs for this repository: the Go core (`src/clash-core`, a fork
of Clash.Meta), the Android app that embeds it (`src/ClashMeta_View`) and, for completeness, the server scripts
(`src/Server_For_Missav`). The modules are translations of the source at the lines `PROJECT.json` "map" names; where
the text below says "the code", it means those lines.

To check a run: `tlc -config <file>.cfg <module>`; to check the proofs of a module: `tlapm <module>Proofs.tla`.

## 1. The system

A packet or connection reaches the core through a **listener** (or the TUN device the Android **VPN service** hands
over), becomes metadata, is possibly **sniffed**, is matched against the **rules** by the **tunnel**, and leaves
through an **outbound**, alone or chosen by an **outbound group**. Names are resolved by the **DNS resolver**, which in
fake-ip mode answers with an address of the **fake-ip pool** that the tunnel later translates back. Configuration is
applied by the **executor**, on start, on reload and from the HTTP API (**hub/route**), while traffic flows.

| part | state it keeps | operations that change it | who calls it | what is hard |
|---|---|---|---|---|
| fake-ip pool (`component/fakeip`, `component/profile/cachefile`) | host→ip, ip→host, offset, cycle; saved offset | Lookup, LookBack, FlushFakeIP, StoreState, CloneFrom, New | DNS middleware, tunnel, API, executor | two keys per mapping in two transactions, operations outside the mutex, crashes, two pools on one bucket |
| LRU cache (`common/cache`) | list of entries, map | Get, Set, Delete, Clear, CloneTo, expiry | fake-ip pool, DNS cache, sniffer, TUIC, groups | list and map must agree, eviction order, expiry |
| UDP path (`tunnel/tunnel.go`, `component/nat`) | queue, NAT table, table of locks, sessions | HandleUDPPacket, handleUDPConn, the session's reader | every UDP listener and the TUN stack | creation of a session raced by packets of the same source, wake-ups, readers that delete by key |
| VPN service (`core/ClashVpnService.kt`, `mobile/mobile.go`) | running, starting and stopping flags, the interface and who owns its fd, the core and its TUN device | start, stop, revoke, destroy, preview | the app, the tile, Android | commands overlapping with coroutines, failures at each step, several instances in one process, death of the process |
| AnyTLS pool (`transport/anytls`) | sessions, idle pool, streams, hooks | CreateStream, the end of a stream or session, clean-up, Close | the AnyTLS outbound | hooks set late, sessions dying while they change hands, clean-up racing users |
| dialer (`component/dialer`) | none between calls; goroutines, channels and connections during one | DialContext | every outbound | racing families, losers' connections, goroutines left behind |
| DNS resolver (`dns`) | cache, single flight, clients | ExchangeContext, LookupIP | tunnel, dialer, DNS server | stale answers refreshed in the background, retries, timeouts against late answers, callers that leave their flight |
| outbound groups (`adapter/outboundgroup`) | current node, copies of provider lists, failure counts | selection, onDialFailed, Set | tunnel, API | delays and lists that change while a node is chosen; failures that must lead to a check, whatever they meet |
| health check, proxy state (`adapter/provider/healthcheck.go`, `adapter/adapter.go`) | alive flags, histories, loop state | check, URLTest, process, close | timers, groups, API | two loops, concurrent histories |
| providers, fetcher (`adapter/provider`, `component/resource`) | proxies, version, hash, file | Initial, Update, pullLoop, OnUpdate | executor, timers, API | concurrent updates; a file half written; what is remembered after a failure; the end of the loop |
| executor, hub (`hub`) | the published configuration | ApplyConfig, Shutdown, API patches | app, API | order of publication against traffic |
| statistics (`tunnel/statistic`) | counters | Join, Leave, push, ticker | every connection | none that matters but lost increments |
| rules, tries, geodata, sniffer, configuration, other outbounds and transports, listeners | little or none shared | parsing, matching, I/O | tunnel, executor | parsing and formats |
| tile, boot receiver, data managers, screens | shared preferences, files | user actions | Android | the tile's guess of the service's state |

`PROJECT.json` "components" lists all of these with what is modelled of each, and "hazards" the places that are hard
to test, each with the properties that cover it and, in a note, what they leave open. Places nothing covers yet are
in section 6.

## 2. Modules

Every module models one component. Abstraction is the same everywhere: names, addresses, packets and payloads are
elements of small sets; formatting, logging and wire formats are left out; every step at which another goroutine,
thread or process could observe or change the state is an action of its own.

### LruCache, LruCacheUse — `common/cache/lrucache.go`
`LruCache` is pure: a cache is the sequence of its list elements, oldest first, each marked `live` when the map points
to it; `Get`, `Set`, `GetOrStore`, `Delete`, `Clear`, `Clone` and the eviction are operators from caches to caches,
since every method holds the cache's mutex. `LruCacheUse` applies them in every order to one cache and keeps the
history a client could keep (what it stored, until when, in which order it touched the keys). `onEvict` is left out:
no caller of this repository sets it.

### FakeIPBolt — the pool over bbolt
The bucket (`ipOf`, `hostOf`, saved offset and cycle), up to two pools that the process holds (a reload opens a new
one while requests may still be in the old), and for each pool where the holder of its mutex stands in
Lookup/get/DelByIP/PutByIP/PutByHost: one action per bbolt transaction. FlushFakeIP and StoreState are actions that
do not take the mutex, as in the code. The process may die between any two steps; `Open` is `New` with
`restoreState`, which runs while a configuration is parsed, and `Publish` is `updateDNS`. One configuration is parsed
at a time; between the two steps the old pool goes on, and the rest of the configuration may be rejected
(`config.go:541-572`), which drops the pool that was opened but not what opening did to the bucket (`Retire`). A
transaction may fail: the code logs the error and goes on. Three kinds of failure are no faults, and every property
holds through them: a flush on opening that fails (`pool.go:147`, `150`), which leaves the bucket and starts the pool
below its first address, and the two saves of the position (`cache.go:84`), which leave what was saved before.
Addresses are the offsets themselves;
`Contains` and `IsFakeIP` keep the arithmetic of the range (network, gateway, first, broadcast).

### NameService — what a fake-ip pool promises
The abstract specification: every host has an address or none, and a step grants a free address to a host without
one, possibly making room by revoking others, or revokes some. No step moves an address from one host to another: an answer a client still holds may become
void but never points to somebody else without having been void in between. `FakeIPBolt` implements it
(`ImplementsNameService`) with the addresses by host as `Leases`; the first fault (a flush through the API, a failed
write of a Lookup, a pool published, flushed on opening or used while another is busy) revokes them all, and nothing
is promised after it. `FakeIPMemory` implements it too: the leases are
those of `cacheIP`, and of the clone as soon as a reload has made it, because what the old pool answers until the clone
is published is lost.

### FakeIPMemory — the pool over two LRU caches
Built on `LruCache`: one action per cache operation, Lookup and LookBack under the pool's mutex, FlushFakeIP and the
clone of a reload without it. `raced` records whether a pool was in use while it was being cloned. Each pool has the
range of its configuration (`range`), any of `Ranges`: a reload may change it, and CloneFrom copies the old addresses
all the same (`executor.go:256-258`, `enhancer.go:95-97`, `pool.go:99-101`). A cache may therefore hold addresses
outside its pool's range; `TypeOK` says that they come from a pool before it (`Inheritable`), and that the first pool
has none but its own.

### UdpNat — the UDP path
A packet goes through the queue (`Enqueue`, `Take`), `handleUDPConn` on a worker, and then, if its source address has
no session, through the creator's or a waiter's goroutine; a session has a reader that closes it and deletes its key.
`lockMap` is the table of condition variables, `cond` the one a goroutine got from GetOrCreateLock; waiting and being
woken (`Enlist`, `Broadcast`, `Wake`, `Unlock`) follow sync.Cond, whose Broadcast reaches only goroutines already on
its list. Rule matching, sniffing and the outbound are a dial that succeeds or fails. A WriteTo that fails on an open connection
loses its packet and nothing else: handleUDPConn discards the error (`connection.go:20-22`, `tunnel.go:348`) and the
session stays, so `PreparedPacketsSent` asks that a packet was given to an open connection (`wrote`), not that it left.

### VpnService — the Android service
Instances of the service one after the other, the companion object's flags, each instance's fields, the coroutines of
start, stop and preview step by step, and of the core: whether it runs, and the fd of its TUN device. `pfd` and
`closes` follow the ownership of a file descriptor between Java and Go. A cancelled scope stops a coroutine only
before its first step, because nothing in them suspends. Every step of a start may fail. `stopVpn` is one action on
the main thread; a failing start calls it from its coroutine, which is also one action here.
`overlap` records whether a command came while another was being carried out; it separates what holds for commands
one after the other from what holds always.

### AnyTLSPool — `transport/anytls/session`
CreateStream step by step (pick an idle session or dial, register, open a stream, set its hook, write the address),
the end of a stream from either side with its hook, the three steps of Session.Close, the idle clean-up, and
Client.Close. Client.Close may come at any time here, which allows more than the program does: the adapter calls it from the
finalizer of an unreachable outbound (`anytls.go:92-98`), when nobody can dial through it any more. recvLoop looks
whether its session is closed before the read that may block (`session.go:183-187`), so a frame that comes after Close
is still handled (`Known`). The watcher that closes
a session after three seconds without an answer to a SYN is one of the reasons of `SessionFails`. Two behaviours of
the code are visible in the properties: a stream that ends before CreateStream has set its hook leaves its session
outside the pool (`hurried`), and a session that dies while the hook decides is put back although closed, to be
found closed by the next CreateStream.

### DualStackDial — `component/dialer/dialer.go`
One call of DialContext after the name is resolved: a race per family or one for all, serial or concurrent, the loop
that collects results over unbuffered channels, the fallback and its timer, and the goroutines that come late. The
serial dialler takes the addresses in an order that is left open. A fallback connection that waited and was then
overtaken by the preferred family is forgotten by the code without being closed: `LosersClosed` excepts it, and
nothing else.

### DnsResolver — `dns/resolver.go`, `dns/util.go`
Calls of ExchangeContext over one name: the cache with good and expired answers, the background refresh of an expired
one, the single flight with its monitor, the retry, main and fallback servers with the filters, the servers of a
policy, and the callers' contexts, which may end at any step while the flight goes on. One lookup asks for A and AAAA
by two of those calls and waits for the latter a limited time after the former. What a server replies is left open.
The resolver of proxy server names has servers and flights of its own and shares the cache, as in the code. Left out: literal addresses, the eviction of the cache, the arithmetic of TTLs (an answer is good or
expired), and the sharing of one deadline by main and fallback servers (each may time out on its own here, which
allows more). What the code does and a reader may not expect: `retryMax` is 3 but a query is sent again once at most,
and only when no other caller shared it; LookupIP returns no address and no error when the A query fails and the
wait for AAAA ends first, which `LookupSound` excepts.

### ProxyProvider — `component/resource/fetcher.go`, `adapter/provider`, `adapter/outboundgroup/groupbase.go`
Initial (from the file or the network), Update from the pull loop and from the API, with the read, the comparison of
the hash, the parsing, the truncation and the write of the file, the hash and the new proxies as separate steps; the
version; Destroy and the end of the loop; a restart at any step; and a group that copies the list by version
(`LoadVersions`, `Swap`, `ReadList`, `StoreList`). The server may publish contents that do not parse, and the process
may die in the middle of a write, with a file left empty or cut off. Two updates at once, and a tick inside Initial, are counted as faults: they can leave hash, file
and proxies of different reads, and lose an increment of the version. Two builders of a group's list can leave an
older list under a newer version, so `ListIsOfItsVersion` speaks of one builder at a time.
`PullsLatest` has two exceptions that are the code's. An Initial that fails never starts the loop
(`fetcher.go:69-71`, `88-105`, `116-118`), so content served later comes only if the API asks for it. And once two
updates have met, the slower one may leave older proxies under the hash of newer content; every later pull then finds
nothing new, so the property promises the hash and not the proxies until the process is started again. The vehicle is
HTTP and its interval is not 0 (with 0 there is no loop).

### UrlTestGroup — `adapter/outboundgroup/urltest.go`, `groupbase.go`, `adapter/provider/healthcheck.go`, `adapter/adapter.go`
A connection that comes again and again and calls of the API go through `fast`: the selected node if it is alive, the
choice of the last ten seconds, the running choice, or a choice of one's own, which reads the proxies one by one.
Dials succeed, are refused or fail; failures are counted under the mutex that is held through the group's
healthCheck, refused dials check without it, and the provider's check is a single flight the ticker takes part in.
A node is a name with the generation of its list, because an update makes new objects. `calm` says that neither a
test nor a selection came during the running choice. The code compares nodes by name (`urltest.go:121`), so the group
may go on with an object of the old list that no check tests again: `DeadNodeLeft` speaks of a current node that is
in the list. It also leaves out the first proxy when it looks for the current node (`urltest.go:120`), so the
tolerance protects only the others; `SoundChoice` says so. Of the two stores at the end of a test, flag and history,
one step is made, since a node between them has no delay either way. The code reads two flags, the proxy's own
(`urltest.go:104`) and that of the test URL (`urltest.go:126`); the model has one flag and one history, which is exact
when provider and group have the same test URL. A test that succeeds in 0 ms (`adapter.go:309`) leaves a proxy alive
and without a delay, so `fast` finds it by no delay and falls back on it only when it is first: `DeadNodeLeft` promises
nothing for the sake of such a proxy (`Eligible`; without that conjunct TLC finds it violated). Failures more than five
seconds after the first reset the count (`groupbase.go:243-246`); only finitely many may come so late here, so a single
user who dials one after the other, each dial ending by its timeout of five seconds, is outside the property. The sum
of delay and tolerance wraps in 16 bits (`Slower`). In the run this happens when nothing is measured, which
`SoundChoice` leaves open; tests end after five seconds, so for a measured proxy it would take a configured tolerance
of about a minute, and the property is not claimed for that.

## 3. Runs

| run | checks | bounds and why they are enough |
|---|---|---|
| `fakeip_bolt` | LookBack undoes Lookup; each Lookup finds its mapping as it left it; answers are allocatable; NameService is implemented | 2 hosts, 2 disjoint ranges of 2 addresses each (so that the offset wraps at the second Lookup), `MaxBoots` 3 (a pool, its replacement, and one after a death), `MaxFaults` 1: a flush through the API, a failed write of a Lookup, or a pool published, flushed on opening or used while another is busy. After it only `AnswersAllocatable` claims something. Flushes on opening and saves may fail, and configurations may be rejected, as often as `MaxBoots` allows |
| `lru_cache` | list and map agree; Get answers what was last stored and is still good; only the least recent is evicted | 3 keys over a size of 2, 2 values, clock `MaxNow` 2 with ages of 1, `MaxClears` 1; the three option sets the program uses |
| `fakeip_memory` | no address but an inheritable one; the caches mirror each other; LookBack undoes Lookup; only cold hosts are dropped before the first reload; NameService is implemented | 3 hosts, two ranges of 3 addresses that share 2, so that a reload keeps its range or moves it and a clone holds addresses inside and outside the new one; caches of 2 entries: both eviction and wrap-around happen; `MaxPools` 2, `MaxEvents` 1 (a flush or a reload at any step) |
| `udp_nat` | one creator per source; no dead entry in the table; while no dial failed and no session ended, every packet reaches WriteTo of an open connection; whoever waits in time is served | 3 packets of one source address, 2 workers, `QueueSize` 2: a creator, a waiter and a packet that finds the session or replaces it. Other source addresses share nothing but the queue |
| `udp_nat_wakeup` | `TakenPacketsDropped`, violated under fairness | the same |
| `vpn_service` | the switch tells the truth; a stopped or failed VPN leaves nothing open; the starting flag comes down; torn down once | `MaxCommands` 3, with 3 instances, interfaces and coroutines of a kind, so that no bound but the commands is met; `MaxDeaths` 1 |
| `vpn_stop` | `StopReleasesTun`, violated | the same |
| `anytls_pool` | sessions are exclusive, accounted for, gone with their client; closed sessions have no streams; the clean-up keeps its minimum | 3 calls on 2 sessions with `MinIdle` 1: reuse by a third call while one session is being cleaned up; symmetric calls. Three sessions were checked once (17.6 million states) |
| `dual_stack_dial` | the result is open; losers are closed; an error means all failed; the preferred family is waited for; the call and its goroutines end | 2+2 addresses and every subset of them; every configuration |
| `dns_resolver` | a filtered address is never used on the word of the main servers; no question is asked twice at a time, or more than twice by one exchange; a lookup's result follows from its halves; callers and goroutines end | `MaxCalls` 2, 2 servers in a group; `Scenarios`: a query alone under every configuration of servers, one family's lookup beside another query for it, and the two halves of a lookup |
| `proxy_provider` | hash, file and proxies agree between updates that ran one after the other; a group's list is of the version it notes; a provider with a loop comes to know the last good content, and to serve it unless two updates met; a destroyed provider stops | 2 good contents and a bad one, `MaxPublishes` 2 (a bad or a good one in between), `MaxCalls` 1 from the API, 2 builders, `MaxFaults` 1: a failed read or write, a death or an overlap |
| `url_test_group` | an undisturbed choice respects speed and tolerance; a dead node of the list is left | 2 proxies, the first measured or in 0 ms, the second slower within the tolerance or beyond it; `MaxFailed` 2 for 5; `MaxEvents` 2: any two of a server that changes, an update (`MaxUpdates` 1), a call of the API and a failure too late to count; `MaxPending` 1 |

`CHECK_DEADLOCK FALSE` stands where the modelled traffic ends by itself (all packets, calls or commands used up);
in `lru_cache` and `fakeip_memory` deadlock is checked.

**Fairness.** `udp_nat`: weak fairness of the taking loop and of every goroutine, which is Go's scheduling, and of the
dial's end, which has a timeout (`C.DefaultUDPTimeout`); no packet has to arrive and no session has to end.
`dual_stack_dial`: weak fairness of the caller, the closer, each race's goroutine, and the end of each dial, by the
deadline of its context; none for the fallback timer, since the call must end without it.
`dns_resolver`: weak fairness of the resolver as a whole: goroutines run, and servers are asked with a deadline;
nobody has to give up and no answer to expire. `proxy_provider`: weak fairness of the steps of an update and of the ticker; strong fairness of the end of
the loop, since a select with both a tick and the signal ready chooses at random. `url_test_group`: connections keep
coming, goroutines run, tests end by their timeout, and time passes; no ticker has to tick, since a lazy provider
need not check: failing dials alone lead to the check. The other runs check safety.

### What the violated properties show
- `udp_nat_wakeup` — a waiter that comes to Wait after the Broadcast sleeps for ever and its packet is never
  dropped (`tunnel.go:366`).
- `vpn_stop` — a stop during a start tears down what is not there yet; the start goes on and leaves an interface
  nobody closes (`ClashVpnService.kt:457`).

The passing runs state what does hold beside these: `EnlistedPacketsServed` for goroutines on the list in time,
`Calm` in the pool's and the service's properties. Two more exceptions come from the code: Clear of the LRU cache
empties the map but keeps the list, so an orphan that is evicted later removes the live entry of the same key
(`lrucache.go:254`; the cache's properties hold until the first Clear, `clears = 0`); and a reload in memory mode
clones the caches and not the position, so the next new host takes the first address from whoever has it
(`pool.go:99`; `FirstPoolDropsOnlyCold` holds before the first reload). `VpnService` also states `ClosedOnce`, which a failing
StartTun violates (Go closes the fd and Java closes it again); no run checks it.

## 4. Proofs

TLAPS proves, for every value of the constants (any number of hosts, any set of ranges, any number of packets, calls, sessions, addresses,
servers, contents, commands):

| module | theorem | argument |
|---|---|---|
| FakeIPBoltProofs | `Refinement`: every step of the pool is a step of NameService or a stutter | from the invariant of `LookBackCorrect`: a host gets its address in PutByHost, has none before, and the slot names it and so is nobody else's; every other step takes addresses away or leaves them |
| | `TypeCorrect`: offsets stay in their ranges | `NextOffsetInRange`: get never leaves the range the pool stands in |
| | `LookBackCorrect`: LookBack undoes Lookup until the first fault, through rejected configurations and failing flushes on opening too | The property is not inductive: in the middle of a Lookup the address already names the new host while the old host is still, or no longer, in the bucket. The invariant follows the one busy pool through its steps, says what the slot being recycled may hold at each, and that no host but its owner has it (`LookupInProgress`, which `InProgressCorrect` states for itself) |
| | `AllocatableCorrect`: no answer is a gateway or broadcast address | `AllAllocatable`: offsets, saved offsets, slots and stored addresses all are. A pool may stand at the saved offset of another range; ranges are prefixes (`PrefixAssumption`), so the next offset is past the inner one's gateway or wraps before the outer one's end (`NextOffsetAllocatable`) |
| FakeIPMemoryProofs | `MirrorCorrect`, `LookBackCorrect` | One lookup touches the two caches in up to six steps, and between them they do not mirror each other. `Fits` says at each step which operations on which cache are still to come for the mirror to be whole, that a host about to be stored is not there, and that its slot is nobody's. The lemmas `GetMirror`, `DeleteMirror` and `SetMirror` say that Get, Delete and Set take mirrored caches to mirrored ones, so that both evict the same mapping. `CloneFits` carries the mirror through a reload |
| | `ColdCorrect`: the first pool drops only cold hosts | `Ordered`: until the offset wraps every address stored is at most the offset, so the next one is free and no host is ever deleted for it; there remains the eviction of Set (`SetSound`) |
| | `Refinement`: the memory pool is a NameService as well | `LookupMappings`: Get changes no mapping, Delete revokes one, Set grants one and revokes the one it evicts; `CloneIsSame`: a clone that was not raced has the same leases |
| | `TypeCorrect`: whatever ranges the reloads choose, a pool holds only addresses that it or a pool before it could hand out; the first holds none outside its range and, until a flush, neither gateway nor broadcast; a later one holds, until a flush, what its range or one before it allocates | `Types` is inductive with `AtHand`: only the pool in use works, and a lookup has its host from get to PutByHost. `Inherited` follows the addresses (`InheritedStep`): a lookup stores one of its own pool (`LookupInherits`), and a clone takes those of the pool before it to the next, whose inheritance is wider (`InheritableFacts`, `WiderCaches`) |
| | `ListIsMapCorrect`, `AnswersCorrect`, `EvictionCorrect`: one cache under all its operations (`LruCacheUse`), for every option set | `InStep` relates the cache to what its client remembers: elements are what was stored last, they stand in the order in which they were touched, and a key that lasts but is gone was touched before all that are left. Every operation is a push (`PushInStep`) or leaves out elements that may go (`ThinnedInStep`): deleted, expired, or the front of a full list |
| UdpNatProofs | `TypeCorrect`: udpQueue never exceeds its capacity | one step per action |
| | `OneCreatorCorrect` | a creator's condition variable is the one in the table of locks from GetOrCreateLock to DeleteLock, and only the goroutine that put it there becomes creator |
| | `NoDeadEntryCorrect` | a session in the table has the key of its creator and a reader that has not yet deleted, or is just about to be spawned; a session that replaces another keeps this, since its predecessor's reader deletes the key and with it the entry |
| | `PreparedPacketsCorrect`: while no dial failed and no session ended for its address, a packet is given to an open connection before it is dropped | `SessionsOpen` (an entry of a calm address is open), `LocksOwned` (a waiter waits for its own address) and `Served`: from the creator's Set on there is an entry, so the creator, a waiter that wakes and a packet that finds it all have somewhere to write |
| AnyTLSPoolProofs | `TypeCorrect` | with `CallsFit`: what a call has by the step at which it stands |
| | `ExclusiveCorrect`: nobody shares a session | `Alone`, `NobodysInPool`, `DoomedLeftPool`: users, the pool and the clean-up's list are disjoint; each hand-over moves a session from one to another in one step |
| | `ClosedSessionsCorrect`: a closed session has no streams | `Entered`: an open stream is in the map of its session, and Close empties the map when it marks the session |
| | `AccountedCorrect`: no open session is lost | `Accounted` and `HooksFit`: whoever lets go of a session hands it to the pool, the clean-up or a hook that will, save the one over before its hook was set |
| | `LetsGoCorrect`: a closed client keeps nothing | `InMap` and `AllTaken`: every open session is in Client's map, is being entered or is returning, and those that Client.Close took are closed |
| | `CleanupCorrect`: the clean-up keeps its minimum | nothing but the clean-up takes sessions from the pool of a living client (`OnlyCleanupTakes`); the newest of those it takes has `minIdleSession` pooled sessions above it, all of which it leaves (`CleanupLeaves`, with FiniteSetTheorems) |
| DualStackDialProofs | `TypeCorrect`, `ResultIsOpenCorrect`, `LosersClosedCorrect`, `ErrorCorrect`, `PrimaryCorrect` | `RacesFit` (a race's result and what its end means), `TakenFit` (what was taken belongs to a race that is over, so no late racer closes it), `HeldFits` (what is held is a result on its way or was taken) |
| DnsResolverProofs | `FilteredCorrect`: what a filter matches is never used on the word of the main servers | `FlightsFit`: no flight, channel, answer or cache entry holds a "suspect" reply, because the fallback servers' reply replaces it before the flight ends |
| | `SparedCorrect`: one flight a question, at most one retry of it | `InFlight`: group and runs of fn name each other, through DoChan, the end of a flight, and a retry that joins somebody else's flight; a retried flight is unshared |
| | `LookupCorrect`: a lookup's result follows from its halves | `LookupFits` and `Unanswered`: where the halves stand at each step of the lookup, and that an answer once given stays |
| ProxyProviderProofs | `StoresCorrect`: hash, file and proxies agree | `UpdatesFit`: while updates do not overlap one at most is under way, and its step says which of the three it has already replaced; a death leaves the file whole, empty or cut |
| | `GroupListCorrect`: a group's list is of its version | `GroupFits`: the builder has swapped the version before it read the list, so a list too new goes with a version too old and is built again |
| VpnServiceProofs | `TypeCorrect`, `StartingCorrect` | hold whatever overlaps: the flag is up only while a start is under way whose instance nobody stops (`StarterStays`) |
| | `RunningCorrect`, `StoppedCorrect`, `TornDownCorrect`: the switch tells the truth, one coroutine tears down | for commands that do not overlap, `Orderly` says for each step of the one start (`StartFits`) or stop (`StopFits`) what is open and whose it is, and between them that the VPN is up or everything released (`RestFits`) |

**Assumptions.** `HostAssumption`, `NetAssumption`, `RangeAssumption` (each of `Ranges` has an address, and room for network
and gateway below it, which `New` enforces), `PrefixAssumption` (ranges are IP prefixes: two that overlap are nested),
`SizeAssumption` (a cache has room for an entry), `OptAssumption` (a size and an age are naturals, the two switches
Booleans), the assumptions that bounds are naturals, and that the absent element is
not an element (`NoneAssumption`). TLC evaluates them in every run. The bounds on boots, faults, calls and
sessions are parameters of the theorems and not limits: they hold for every value.

Types are proved, not run, for FakeIPBolt, UdpNat, AnyTLSPool, DualStackDial, DnsResolver and ProxyProvider; the
runs of FakeIPMemory and VpnService check theirs as well.

**Only model-checked.**
- The liveness properties `EnlistedPacketsServed`, `DialEnds`, `ResolverEnds`, `PullsLatest` and `DeadNodeLeft`:
  liveness under fairness is out of this prover's reach, as is ENABLED.
- `SoundChoice` of `UrlTestGroup`: the choice compares delays that change while it reads them.

No module with theorems uses a RECURSIVE operator.

## 5. Plan

In the order in which the rest is worth doing:

1. **Proofs**: `SoundChoice` of the url-test group.
2. **More abstract specifications**: a single-flight table that UdpNat and the resolver implement; a pool of exclusive resources that AnyTLSPool implements.
3. **Executor**: publication of a configuration against lookups that hold parts of the old one, composed with the
   fake-ip pool's reload.
4. **The other groups**: fallback and selector beside url-test; the health check's ticker loop with its start and stop.
5. The tile as a client of VpnService, with its pending state.

## 6. Not modelled

Wire formats and cryptography of the transports, parsing (configuration, share links, sniffers), rule predicates,
tries and geodata (sequential, with tests of their own), listeners (accept loops), platform code (eBPF, iptables,
process lookup, NTP, DHCP), the HTTP API's handlers beyond the calls they make, the screens and data managers of the
app, and the server scripts. `PROJECT.json` gives the reason for each.

Of the parts that are modelled, these places are known to be hard and have no property: a changed fake-ip range with
a saved offset that also lies in the new one (`fakeip/pool.go:149`); a changed range in memory mode, after which the
pool answers with inherited addresses that `IsFakeIP` of the new enhancer denies (`fakeip/pool.go:100`,
`enhancer.go:37`); the fake address a UDP session puts into replies
is that of its first packet (`tunnel.go:315`); a failing StartTun closes the fd that Java closes again
(`mobile.go:528`, the property `ClosedOnce` of VpnService, which no run checks); `started` of the health check's loop
is tested and set in two steps, so two loops may run of which close ends one (`healthcheck.go:49`), and the limit on
test URLs is one too high (`healthcheck.go:108`); the fallback group clears its selection in the middle of its loop
and skips earlier proxies once (`fallback.go:115`); Shutdown closes listeners without the mutex of ApplyConfig
(`executor.go:503`); the tile trusts its last click for ten seconds (`VpnTileService.kt:38`).
