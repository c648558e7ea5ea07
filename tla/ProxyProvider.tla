--------------------------- MODULE ProxyProvider ---------------------------
(***************************************************************************)
(* A proxy provider and a group that uses it: component/resource/          *)
(* fetcher.go, adapter/provider/provider.go, and the filtered copy of the  *)
(* provider's list in adapter/outboundgroup/groupbase.go.                  *)
(*                                                                         *)
(* The same content is kept four times: as the file on disk, as the hash   *)
(* of what was read last, as the provider's proxies with a version, and as *)
(* a group's list with the version it was built for.  Initial, the pull    *)
(* loop and the API's Update write the first three, and connections being  *)
(* dispatched rebuild the last, with no lock between any of them.          *)
(*                                                                         *)
(* A content stands for itself, for its hash, for the proxies it parses to *)
(* and for what a group's filter leaves of them.  The vehicle is HTTP and  *)
(* its interval is not 0.                                                  *)
(***************************************************************************)
EXTENDS Integers

CONSTANTS
    Good, Bad,      \* contents the server may serve: that parse, that do not
    Served,         \* what the server has at first
    Builders,       \* goroutines in GetProxies of the group
    MaxPublishes,   \* bound: changes of the content at the server
    MaxCalls,       \* bound: Updates through the API
    MaxFaults       \* bound: failed reads and writes, deaths of the process, overlaps

ASSUME ContentAssumption ==
    /\ Good \cap Bad = {} /\ (Good \cup Bad) \cap {"empty", "cut", "none"} = {}
    /\ Served \in Good

ASSUME BoundAssumption == MaxPublishes \in Nat /\ MaxCalls \in Nat /\ MaxFaults \in Nat

None == "none"
Torn == {"empty", "cut"}      \* a file truncated, or cut off in the middle
Remotes == Good \cup Bad
Contents == Remotes \cup Torn

(* proxiesParseAndFilter: an empty document has no proxies; one that is    *)
(* cut off may still be a list, of fewer proxies.                          *)
Parses(c) == c \in Good \cup {"cut"}

Updaters == {"initial", "pull", "api"}

VARIABLES
    remote,                 \* what the server has
    file,                   \* what is at vehicle.Path()
    hash, proxies, version, \* of the fetcher and the provider
    loop,                   \* the pull loop: none, running, over
    destroyed, done,        \* Destroy was called; its value is in the channel
    at, buf, loaded,        \* per updater: its step, what it read, the version it loaded
    list, versions,         \* of the group: gb.proxies[i] and gb.versions[i]
    bat, seen, next, built, \* per builder: its step, its two versions, the list it read
    publishes, calls, faults,
    overlap,                \* two updates were under way at once
    crowd                   \* two builders were past the swap at once

server == <<remote, publishes>>
provider == <<hash, proxies, version, loop, destroyed, done>>
updates == <<at, buf, loaded, calls, overlap>>
group == <<list, versions, bat, seen, next, built, crowd>>
vars == <<remote, publishes, file, hash, proxies, version, loop, destroyed, done,
          at, buf, loaded, calls, overlap, list, versions, bat, seen, next, built, crowd,
          faults>>

Resting == {"new", "idle", "failed", "done"}
AtRest(u) == at[u] \in Resting

(* A fresh process: NewProxySetProvider and NewGroupBase. *)
Fresh ==
    [hash |-> None, at |-> [u \in Updaters |-> IF u = "initial" THEN "new" ELSE "idle"],
     buf |-> [u \in Updaters |-> None], loaded |-> [u \in Updaters |-> 0],
     bat |-> [b \in Builders |-> "idle"], zero |-> [b \in Builders |-> 0],
     built |-> [b \in Builders |-> None]]

Init ==
    /\ remote = Served /\ file \in {None} \cup Good
    /\ hash = None /\ proxies = None /\ version = 0
    /\ loop = "none" /\ destroyed = FALSE /\ done = FALSE
    /\ at = Fresh.at /\ buf = Fresh.buf /\ loaded = Fresh.loaded
    /\ list = None /\ versions = 0
    /\ bat = Fresh.bat /\ seen = Fresh.zero /\ next = Fresh.zero /\ built = Fresh.built
    /\ publishes = 0 /\ calls = 0 /\ faults = 0 /\ overlap = FALSE /\ crowd = FALSE

-----------------------------------------------------------------------------
(* An updater goes on with the content c, which it forgets when it is done. *)
Goto(u, from, to, c) ==
    /\ at[u] = from /\ at' = [at EXCEPT ![u] = to]
    /\ buf' = [buf EXCEPT ![u] = IF to \in Resting THEN None ELSE c]

(* I/O that works, or fails and is counted. *)
Works(ok) == IF ok THEN UNCHANGED faults ELSE faults < MaxFaults /\ faults' = faults + 1

(* Where an update ends that meets an error. *)
Fail(u) == IF u = "initial" THEN "failed" ELSE "idle"

Publish(c) ==
    /\ publishes < MaxPublishes /\ c # remote
    /\ remote' = c /\ publishes' = publishes + 1
    /\ UNCHANGED <<file, provider, updates, group, faults>>

(* An update begins, with I/O that works or not, while another is under way. *)
Meets(u) == \E w \in Updaters \ {u} : ~AtRest(w)
Begins(u, ok) == Works(ok /\ ~Meets(u)) /\ overlap' = (overlap \/ Meets(u))

(* Initial of the fetcher: the file, if there is one, which may be beyond  *)
(* reading or older than the interval.                                     *)
StartInitial(tooOld, ok) ==
    /\ file = None => ok /\ ~tooOld
    /\ Goto("initial", "new", CASE file = None -> "fetch"
                                [] ~ok -> "failed"
                                [] tooOld /\ ok -> "force"
                                [] OTHER -> "parse", file)
    /\ Begins("initial", ok)
    /\ UNCHANGED <<server, file, provider, loaded, calls, group>>

(* The refresh of an old file; when it fails the file will do. *)
ForceRefresh(ok) ==
    /\ IF ok /\ Parses(remote) THEN Goto("initial", "force", "write", remote)
                               ELSE Goto("initial", "force", "parse", buf["initial"])
    /\ Works(ok)
    /\ UNCHANGED <<server, file, provider, loaded, calls, overlap, group>>

ParseLocal ==
    /\ Goto("initial", "parse", IF Parses(buf["initial"]) THEN "hash" ELSE "fetch", buf["initial"])
    /\ UNCHANGED <<server, file, provider, loaded, calls, overlap, group, faults>>

(* There is no file, or it does not parse. *)
Fetch(ok) ==
    /\ Goto("initial", "fetch", IF ok /\ Parses(remote) THEN "write" ELSE "failed", remote)
    /\ Works(ok)
    /\ UNCHANGED <<server, file, provider, loaded, calls, overlap, group>>

-----------------------------------------------------------------------------
(* Update, in the pull loop on a tick and through the API: what the server *)
(* has when it answers, or an error.                                       *)
Read(u, ok) ==
    /\ Goto(u, "idle", IF ok THEN "compare" ELSE "idle", remote)
    /\ Begins(u, ok)

Tick(ok) ==
    /\ loop = "running" /\ Read("pull", ok)
    /\ UNCHANGED <<server, file, provider, loaded, calls, group>>

CallUpdate(ok) ==
    /\ calls < MaxCalls /\ calls' = calls + 1
    /\ ~destroyed
    /\ Read("api", ok)
    /\ UNCHANGED <<server, file, provider, loaded, group>>

(* Slip: the hash is kept before the content is known to be good. *)
HashFirst(u) ==
    /\ Goto(u, "compare", IF buf[u] # hash /\ Parses(buf[u]) THEN "write" ELSE "idle", buf[u])
    /\ hash' = buf[u]
    /\ UNCHANGED <<server, file, proxies, version, loop, destroyed, done, loaded, calls,
                   overlap, group, faults>>

(* Nothing new, or nothing that parses: leave. *)
Compare(u) ==
    /\ Goto(u, "compare", IF buf[u] # hash /\ Parses(buf[u]) THEN "write" ELSE "idle", buf[u])
    /\ UNCHANGED <<server, file, provider, loaded, calls, overlap, group, faults>>

-----------------------------------------------------------------------------
(* What Initial and Update do with a new content.  safeWrite truncates the *)
(* file, then writes it; either may fail.                                  *)
Truncate(u, ok) ==
    /\ Goto(u, "write", IF ok THEN "writing" ELSE Fail(u), buf[u])
    /\ Works(ok)
    /\ file' = IF ok THEN "empty" ELSE file
    /\ UNCHANGED <<server, provider, loaded, calls, overlap, group>>

Write(u, ok) ==
    /\ Goto(u, "writing", IF ok THEN "hash" ELSE Fail(u), buf[u])
    /\ Works(ok)
    /\ IF ok THEN file' = buf[u] ELSE file' \in Torn
    /\ UNCHANGED <<server, provider, loaded, calls, overlap, group>>

(* Initial starts the loop as soon as it has the hash. *)
SetHash(u) ==
    /\ Goto(u, "hash", "set", buf[u])
    /\ hash' = buf[u]
    /\ loop' = IF u = "initial" THEN "running" ELSE loop
    /\ UNCHANGED <<server, file, proxies, version, destroyed, done, loaded, calls, overlap,
                   group, faults>>

(* proxiesOnUpdate: the proxies, then version += 1, a load and a store. *)
SetProxies(u) ==
    /\ Goto(u, "set", "bump", None)
    /\ proxies' = buf[u] /\ loaded' = [loaded EXCEPT ![u] = version]
    /\ UNCHANGED <<server, file, hash, version, loop, destroyed, done, calls,
                   overlap, group, faults>>

BumpVersion(u) ==
    /\ Goto(u, "bump", IF u = "initial" THEN "done" ELSE "idle", None)
    /\ version' = loaded[u] + 1 /\ loaded' = [loaded EXCEPT ![u] = 0]
    /\ UNCHANGED <<server, file, hash, proxies, loop, destroyed, done, calls,
                   overlap, group, faults>>

UpdateStep(u) ==
    \/ u # "initial" /\ Compare(u)
    \/ \E ok \in BOOLEAN : Truncate(u, ok) \/ Write(u, ok)
    \/ SetHash(u) \/ SetProxies(u) \/ BumpVersion(u)

InitialStep ==
    \/ \E tooOld, ok \in BOOLEAN : StartInitial(tooOld, ok)
    \/ \E ok \in BOOLEAN : ForceRefresh(ok) \/ Fetch(ok)
    \/ ParseLocal

(* Slip: a send that does not wait, to a channel without room. *)
DestroyIfHeard ==
    /\ ~destroyed /\ at["initial"] \in {"done", "failed"}
    /\ destroyed' = TRUE /\ done' = (loop = "running" /\ AtRest("pull"))
    /\ UNCHANGED <<server, file, hash, proxies, version, loop, updates, group, faults>>

(* stopProxyProvider, the finalizer: the channel has room for one value.   *)
Destroy ==
    /\ ~destroyed /\ at["initial"] \in {"done", "failed"}
    /\ destroyed' = TRUE /\ done' = TRUE
    /\ UNCHANGED <<server, file, hash, proxies, version, loop, updates, group, faults>>

EndLoop ==
    /\ loop = "running" /\ AtRest("pull") /\ done
    /\ loop' = "over" /\ done' = FALSE
    /\ UNCHANGED <<server, file, hash, proxies, version, destroyed, updates, group, faults>>

-----------------------------------------------------------------------------
(* GetProxies of a group with a filter.  Its three loads before the swap   *)
(* are one step: the swap is their only effect, and it fails unless        *)
(* gb.versions[i] is still what was loaded.                                *)
BGoto(b, from, to) == bat[b] = from /\ bat' = [bat EXCEPT ![b] = to]

LoadVersions(b) ==
    /\ ~destroyed /\ versions # version
    /\ BGoto(b, "idle", "swap")
    /\ seen' = [seen EXCEPT ![b] = versions] /\ next' = [next EXCEPT ![b] = version]
    /\ UNCHANGED <<server, file, provider, updates, list, versions, built, crowd, faults>>

Swap(b) ==
    /\ BGoto(b, "swap", IF versions = seen[b] THEN "list" ELSE "idle")
    /\ versions' = IF versions = seen[b] THEN next[b] ELSE versions
    /\ LET meets == versions = seen[b] /\ \E a \in Builders : bat[a] \in {"list", "store"}
       IN  crowd' = (crowd \/ meets) /\ Works(~meets)
    /\ seen' = [seen EXCEPT ![b] = 0] /\ next' = [next EXCEPT ![b] = 0]
    /\ UNCHANGED <<server, file, provider, updates, list, built>>

ReadList(b) ==
    /\ BGoto(b, "list", "store")
    /\ built' = [built EXCEPT ![b] = proxies]
    /\ UNCHANGED <<server, file, provider, updates, list, versions, seen, next, crowd, faults>>

(* Slip: the version kept is the one at the end of the work. *)
StoreListAndVersion(b) ==
    /\ BGoto(b, "store", "idle")
    /\ list' = built[b] /\ versions' = version
    /\ built' = [built EXCEPT ![b] = None]
    /\ UNCHANGED <<server, file, provider, updates, seen, next, crowd, faults>>

StoreList(b) ==
    /\ BGoto(b, "store", "idle")
    /\ list' = built[b]
    /\ built' = [built EXCEPT ![b] = None]
    /\ UNCHANGED <<server, file, provider, updates, versions, seen, next, crowd, faults>>

BuildStep(b) ==
    LoadVersions(b) \/ Swap(b) \/ ReadList(b) \/ StoreList(b)

(* The process dies and is started again; the file is what it was. *)
Restart ==
    /\ Works(FALSE)
    /\ hash' = None /\ proxies' = None /\ version' = 0
    /\ loop' = "none" /\ destroyed' = FALSE /\ done' = FALSE
    /\ at' = Fresh.at /\ buf' = Fresh.buf /\ loaded' = Fresh.loaded
    /\ list' = None /\ versions' = 0
    /\ bat' = Fresh.bat /\ seen' = Fresh.zero /\ next' = Fresh.zero /\ built' = Fresh.built
    /\ overlap' = FALSE /\ crowd' = FALSE
    /\ file' \in {file} \cup {t \in Torn : \E u \in Updaters : at[u] = "writing"}
    /\ UNCHANGED <<server, calls>>

Next ==
    \/ \E c \in Remotes : Publish(c)
    \/ InitialStep
    \/ \E ok \in BOOLEAN : Tick(ok) \/ CallUpdate(ok)
    \/ \E u \in Updaters : UpdateStep(u)
    \/ Destroy \/ EndLoop
    \/ \E b \in Builders : BuildStep(b)
    \/ Restart

(* The ticker ticks and goroutines run; a loop that is offered a tick and  *)
(* the end of its life again and again takes the latter once.              *)
Fairness ==
    /\ WF_vars(InitialStep) /\ WF_vars(Tick(TRUE)) /\ SF_vars(EndLoop)
    /\ \A u \in Updaters : WF_vars(UpdateStep(u))

Spec == Init /\ [][Next]_vars /\ Fairness

-----------------------------------------------------------------------------
UpdatesRest == \A u \in Updaters : AtRest(u)

(* Updates that ran one after the other - with whatever reads and writes   *)
(* failed, and through a death in the middle of a write - leave hash and   *)
(* proxies of one content, which is also in the file unless a write of the *)
(* file failed: no content is remembered as known that the provider does   *)
(* not have.                                                               *)
StoresAgree ==
    UpdatesRest /\ ~overlap /\ hash # None => proxies = hash /\ file \in {hash} \cup Torn

(* A group whose list says it was built for the provider's version has the *)
(* provider's list, when nobody is at work, unless two updates or two      *)
(* builders met.                                                           *)
ListIsOfItsVersion ==
    UpdatesRest /\ (\A b \in Builders : bat[b] = "idle") /\ ~overlap /\ ~crowd /\ versions = version
        => list = proxies

(* Unless Initial failed, which leaves no loop, a provider nobody destroys *)
(* comes to know the good content that stays at the server, whatever was   *)
(* served before, whatever is left of the file and even if two updates     *)
(* met; and it has that content's proxies, unless they met: then the       *)
(* slower one may leave older proxies under the right hash, until the      *)
(* content changes again.  A provider that was destroyed stops pulling.    *)
PullsLatest ==
    <>[](/\ at["initial"] # "failed" /\ ~destroyed /\ Parses(remote)
                => hash = remote /\ (~overlap => proxies = remote)
         /\ destroyed => loop # "running")
=============================================================================
