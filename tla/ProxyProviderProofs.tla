------------------------ MODULE ProxyProviderProofs ------------------------
(***************************************************************************)
(* Proofs about a proxy provider and a group that uses it, for every set   *)
(* of contents and of builders and every number of updates: what is kept   *)
(* of a content agrees when updates do not overlap.                        *)
(***************************************************************************)
EXTENDS ProxyProvider, TLAPS

Steps == Resting \cup {"fetch", "force", "parse", "compare", "write", "writing", "hash", "set", "bump"}
Kept == Contents \cup {None}

(* Every field of the fetcher, the provider and the group has its type.    *)
TypeOK ==
    /\ remote \in Remotes /\ file \in Kept /\ hash \in Kept /\ proxies \in Kept /\ list \in Kept
    /\ version \in Nat /\ versions \in Nat
    /\ at \in [Updaters -> Steps] /\ buf \in [Updaters -> Kept] /\ loaded \in [Updaters -> Nat]
    /\ bat \in [Builders -> {"idle", "swap", "list", "store"}]
    /\ seen \in [Builders -> Nat] /\ next \in [Builders -> Nat] /\ built \in [Builders -> Kept]
    /\ overlap \in BOOLEAN /\ crowd \in BOOLEAN

(* No step stores anything but a content, or a version that is no number.  *)
LEMMA TypesInductive ==
    ASSUME TypeOK, [Next]_vars
    PROVE  TypeOK'
<1> USE DEF TypeOK, Steps, Resting, Kept, Contents, Torn, Remotes, Updaters, Goto, BGoto, server, provider, updates, group
<1>1. ASSUME NEW c \in Remotes, Publish(c) PROVE TypeOK'
  BY <1>1 DEF Publish
<1>2. ASSUME NEW tooOld \in BOOLEAN, NEW ok \in BOOLEAN, StartInitial(tooOld, ok) PROVE TypeOK'
  BY <1>2 DEF StartInitial, Begins, Works, Meets
<1>3. ASSUME NEW ok \in BOOLEAN, ForceRefresh(ok) PROVE TypeOK'
  BY <1>3 DEF ForceRefresh, Works
<1>4. ASSUME ParseLocal PROVE TypeOK'
  BY <1>4 DEF ParseLocal
<1>5. ASSUME NEW ok \in BOOLEAN, Fetch(ok) PROVE TypeOK'
  BY <1>5 DEF Fetch, Works
<1>6. ASSUME NEW ok \in BOOLEAN, Tick(ok) PROVE TypeOK'
  BY <1>6 DEF Tick, Read, Begins, Works, Meets
<1>7. ASSUME NEW ok \in BOOLEAN, CallUpdate(ok) PROVE TypeOK'
  BY <1>7 DEF CallUpdate, Read, Begins, Works, Meets
<1>8. ASSUME NEW u \in Updaters, Compare(u) PROVE TypeOK'
  BY <1>8 DEF Compare
<1>9. ASSUME NEW u \in Updaters, NEW ok \in BOOLEAN, Truncate(u, ok) PROVE TypeOK'
  BY <1>9 DEF Truncate, Works, Fail
<1>10. ASSUME NEW u \in Updaters, NEW ok \in BOOLEAN, Write(u, ok) PROVE TypeOK'
  BY <1>10 DEF Write, Works, Fail
<1>11. ASSUME NEW u \in Updaters, SetHash(u) PROVE TypeOK'
  BY <1>11 DEF SetHash
<1>12. ASSUME NEW u \in Updaters, SetProxies(u) PROVE TypeOK'
  BY <1>12 DEF SetProxies
<1>13. ASSUME NEW u \in Updaters, BumpVersion(u) PROVE TypeOK'
  BY <1>13 DEF BumpVersion
<1>14. ASSUME Destroy PROVE TypeOK'
  BY <1>14 DEF Destroy
<1>15. ASSUME EndLoop PROVE TypeOK'
  BY <1>15 DEF EndLoop
<1>16. ASSUME NEW b \in Builders, LoadVersions(b) PROVE TypeOK'
  BY <1>16 DEF LoadVersions
<1>17. ASSUME NEW b \in Builders, Swap(b) PROVE TypeOK'
  BY <1>17 DEF Swap, Works
<1>18. ASSUME NEW b \in Builders, ReadList(b) PROVE TypeOK'
  BY <1>18 DEF ReadList
<1>19. ASSUME NEW b \in Builders, StoreList(b) PROVE TypeOK'
  BY <1>19 DEF StoreList
<1>20. ASSUME Restart PROVE TypeOK'
  BY <1>20 DEF Restart, Fresh, Works
<1>21. ASSUME UNCHANGED vars PROVE TypeOK'
  BY <1>21 DEF vars
<1>22. QED
  BY <1>1, <1>2, <1>3, <1>4, <1>5, <1>6, <1>7, <1>8, <1>9, <1>10, <1>11, <1>12, <1>13, <1>14, <1>15, <1>16, <1>17, <1>18, <1>19, <1>20, <1>21
  DEF Next, InitialStep, UpdateStep, BuildStep

-----------------------------------------------------------------------------
(* What holds in the middle of an update: the content it read of the file, *)
(* or has written, is in the file; it has set the hash; it has loaded the  *)
(* version that is still the provider's.                                   *)
InStep(u) ==
    /\ at[u] \in {"force", "parse", "hash", "set"} => buf[u] = file
    /\ at[u] = "set" => hash = buf[u]
    /\ at[u] = "bump" => loaded[u] = version

(* Between the write of the file and that of the proxies an update leaves  *)
(* them apart; otherwise they agree.                                       *)
Agree == hash # None => proxies = hash /\ file \in {hash} \cup Torn
Between(u) == at[u] \in {"hash", "set"}

OneUpdate == \A u, w \in Updaters : u # w => AtRest(u) \/ AtRest(w)

UpdatesFit ==
    ~overlap => /\ OneUpdate
                /\ \A u \in Updaters : InStep(u)
                /\ (\A u \in Updaters : ~Between(u)) => Agree

(* A step that is not an update's. *)
LEMMA KeepsUpdates ==
    ASSUME UpdatesFit, UNCHANGED <<at, buf, loaded, overlap, file, hash, proxies, version>>
    PROVE  UpdatesFit'
BY DEF UpdatesFit, OneUpdate, InStep, Between, Agree, AtRest

(* Every step of Initial, of Update and of its parts keeps to the order in *)
(* which file, hash, proxies and version are written; a death leaves only  *)
(* the file.                                                               *)
LEMMA UpdatesFitInductive ==
    ASSUME TypeOK, UpdatesFit, [Next]_vars
    PROVE  UpdatesFit'
<1> USE DEF TypeOK, Goto, server, provider, updates, group
<1>0. /\ Resting = {"new", "idle", "failed", "done"} /\ Torn = {"empty", "cut"} /\ None = "none"
      /\ "initial" \in Updaters /\ "pull" \in Updaters /\ "api" \in Updaters
  BY DEF Resting, Torn, None, Updaters
<1>1. ASSUME NEW c \in Remotes, Publish(c) PROVE UpdatesFit'
  BY <1>1, KeepsUpdates DEF Publish
<1>2. ASSUME NEW tooOld \in BOOLEAN, NEW ok \in BOOLEAN, StartInitial(tooOld, ok) PROVE UpdatesFit'
  BY <1>2, <1>0 DEF StartInitial, Begins, Works, Meets, UpdatesFit, OneUpdate, InStep, Between, Agree, AtRest
<1>3. ASSUME NEW ok \in BOOLEAN, ForceRefresh(ok) PROVE UpdatesFit'
  BY <1>3, <1>0 DEF ForceRefresh, Works, UpdatesFit, OneUpdate, InStep, Between, Agree, AtRest
<1>4. ASSUME ParseLocal PROVE UpdatesFit'
  BY <1>4, <1>0 DEF ParseLocal, UpdatesFit, OneUpdate, InStep, Between, Agree, AtRest
<1>5. ASSUME NEW ok \in BOOLEAN, Fetch(ok) PROVE UpdatesFit'
  BY <1>5, <1>0 DEF Fetch, Works, UpdatesFit, OneUpdate, InStep, Between, Agree, AtRest
<1>6. ASSUME NEW ok \in BOOLEAN, Tick(ok) PROVE UpdatesFit'
  BY <1>6, <1>0 DEF Tick, Read, Begins, Works, Meets, UpdatesFit, OneUpdate, InStep, Between, Agree, AtRest
<1>7. ASSUME NEW ok \in BOOLEAN, CallUpdate(ok) PROVE UpdatesFit'
  BY <1>7, <1>0 DEF CallUpdate, Read, Begins, Works, Meets, UpdatesFit, OneUpdate, InStep, Between, Agree, AtRest
<1>8. ASSUME NEW u \in Updaters, Compare(u) PROVE UpdatesFit'
  BY <1>8, <1>0 DEF Compare, UpdatesFit, OneUpdate, InStep, Between, Agree, AtRest
<1>9. ASSUME NEW u \in Updaters, NEW ok \in BOOLEAN, Truncate(u, ok) PROVE UpdatesFit'
  BY <1>9, <1>0 DEF Truncate, Works, Fail, UpdatesFit, OneUpdate, InStep, Between, Agree, AtRest
<1>10. ASSUME NEW u \in Updaters, NEW ok \in BOOLEAN, Write(u, ok) PROVE UpdatesFit'
  BY <1>10, <1>0 DEF Write, Works, Fail, UpdatesFit, OneUpdate, InStep, Between, Agree, AtRest
<1>11. ASSUME NEW u \in Updaters, SetHash(u) PROVE UpdatesFit'
  BY <1>11, <1>0 DEF SetHash, UpdatesFit, OneUpdate, InStep, Between, Agree, AtRest
<1>12. ASSUME NEW u \in Updaters, SetProxies(u) PROVE UpdatesFit'
  BY <1>12, <1>0 DEF SetProxies, UpdatesFit, OneUpdate, InStep, Between, Agree, AtRest
<1>13. ASSUME NEW u \in Updaters, BumpVersion(u) PROVE UpdatesFit'
  BY <1>13, <1>0 DEF BumpVersion, UpdatesFit, OneUpdate, InStep, Between, Agree, AtRest
<1>14. ASSUME Destroy PROVE UpdatesFit'
  BY <1>14, KeepsUpdates DEF Destroy
<1>15. ASSUME EndLoop PROVE UpdatesFit'
  BY <1>15, KeepsUpdates DEF EndLoop
<1>16. ASSUME NEW b \in Builders, LoadVersions(b) PROVE UpdatesFit'
  BY <1>16, KeepsUpdates DEF LoadVersions
<1>17. ASSUME NEW b \in Builders, Swap(b) PROVE UpdatesFit'
  BY <1>17, KeepsUpdates DEF Swap, Works
<1>18. ASSUME NEW b \in Builders, ReadList(b) PROVE UpdatesFit'
  BY <1>18, KeepsUpdates DEF ReadList
<1>19. ASSUME NEW b \in Builders, StoreList(b) PROVE UpdatesFit'
  BY <1>19, KeepsUpdates DEF StoreList
<1>20. ASSUME Restart PROVE UpdatesFit'
  BY <1>20, <1>0 DEF Restart, Fresh, Works, UpdatesFit, OneUpdate, InStep, Between, Agree, AtRest
<1>21. ASSUME UNCHANGED vars PROVE UpdatesFit'
  BY <1>21, KeepsUpdates DEF vars
<1>22. QED
  BY <1>1, <1>2, <1>3, <1>4, <1>5, <1>6, <1>7, <1>8, <1>9, <1>10, <1>11, <1>12, <1>13, <1>14, <1>15, <1>16, <1>17, <1>18, <1>19, <1>20, <1>21
  DEF Next, InitialStep, UpdateStep, BuildStep

-----------------------------------------------------------------------------
(* A builder that is past the swap; the group is current when it was built *)
(* for the provider's version and that version is not about to change.     *)
Building(b) == bat[b] \in {"list", "store"}
OneBuilder == \A a, b \in Builders : Building(a) /\ Building(b) => a = b
Current == versions = version /\ \A u \in Updaters : at[u] # "bump"

(* No version is ahead of the provider's; and a current group has the      *)
(* provider's list, or a builder that has it, or has yet to read it.       *)
GroupFits ==
    ~overlap /\ ~crowd =>
        /\ OneBuilder
        /\ versions <= version /\ \A b \in Builders : bat[b] = "swap" => next[b] <= version
        /\ Current /\ (\A b \in Builders : ~Building(b)) => list = proxies
        /\ Current => \A b \in Builders : bat[b] = "store" => built[b] = proxies

(* A step that touches neither proxies, version nor the group.             *)
LEMMA KeepsGroup ==
    ASSUME GroupFits, UNCHANGED <<proxies, version, group>>, overlap => overlap',
           \A u \in Updaters : at[u] = "bump" => at'[u] = "bump"
    PROVE  GroupFits'
BY DEF GroupFits, OneBuilder, Current, Building, group

(* Every step of the builders, and every change of the list or the version *)
(* under them, keeps a current group to the provider's list.               *)
LEMMA GroupFitsInductive ==
    ASSUME TypeOK, UpdatesFit, GroupFits, [Next]_vars
    PROVE  GroupFits'
<1> USE DEF TypeOK, Goto, BGoto, server, provider, updates, group
<1>1. ASSUME NEW c \in Remotes, Publish(c) PROVE GroupFits'
  BY <1>1, KeepsGroup DEF Publish
<1>2. ASSUME NEW tooOld \in BOOLEAN, NEW ok \in BOOLEAN, StartInitial(tooOld, ok) PROVE GroupFits'
  BY <1>2, KeepsGroup DEF StartInitial, Begins, Works, Meets
<1>3. ASSUME NEW ok \in BOOLEAN, ForceRefresh(ok) PROVE GroupFits'
  BY <1>3, KeepsGroup DEF ForceRefresh, Works
<1>4. ASSUME ParseLocal PROVE GroupFits'
  BY <1>4, KeepsGroup DEF ParseLocal
<1>5. ASSUME NEW ok \in BOOLEAN, Fetch(ok) PROVE GroupFits'
  BY <1>5, KeepsGroup DEF Fetch, Works
<1>6. ASSUME NEW ok \in BOOLEAN, Tick(ok) PROVE GroupFits'
  BY <1>6, KeepsGroup DEF Tick, Read, Begins, Works, Meets
<1>7. ASSUME NEW ok \in BOOLEAN, CallUpdate(ok) PROVE GroupFits'
  BY <1>7, KeepsGroup DEF CallUpdate, Read, Begins, Works, Meets
<1>8. ASSUME NEW u \in Updaters, Compare(u) PROVE GroupFits'
  BY <1>8, KeepsGroup DEF Compare
<1>9. ASSUME NEW u \in Updaters, NEW ok \in BOOLEAN, Truncate(u, ok) PROVE GroupFits'
  BY <1>9, KeepsGroup DEF Truncate, Works, Fail
<1>10. ASSUME NEW u \in Updaters, NEW ok \in BOOLEAN, Write(u, ok) PROVE GroupFits'
  BY <1>10, KeepsGroup DEF Write, Works, Fail
<1>11. ASSUME NEW u \in Updaters, SetHash(u) PROVE GroupFits'
  BY <1>11, KeepsGroup DEF SetHash
<1>12. ASSUME NEW u \in Updaters, SetProxies(u) PROVE GroupFits'
  BY <1>12 DEF SetProxies, GroupFits, OneBuilder, Building, Current
<1>13. ASSUME NEW u \in Updaters, BumpVersion(u) PROVE GroupFits'
  BY <1>13 DEF BumpVersion, GroupFits, OneBuilder, Building, Current, UpdatesFit, InStep
<1>14. ASSUME Destroy PROVE GroupFits'
  BY <1>14, KeepsGroup DEF Destroy
<1>15. ASSUME EndLoop PROVE GroupFits'
  BY <1>15, KeepsGroup DEF EndLoop
<1>16. ASSUME NEW b \in Builders, LoadVersions(b) PROVE GroupFits'
  BY <1>16 DEF LoadVersions, GroupFits, OneBuilder, Building, Current
<1>17. ASSUME NEW b \in Builders, Swap(b) PROVE GroupFits'
  BY <1>17 DEF Swap, Works, GroupFits, OneBuilder, Building, Current
<1>18. ASSUME NEW b \in Builders, ReadList(b) PROVE GroupFits'
  BY <1>18 DEF ReadList, GroupFits, OneBuilder, Building, Current
<1>19. ASSUME NEW b \in Builders, StoreList(b) PROVE GroupFits'
  BY <1>19 DEF StoreList, GroupFits, OneBuilder, Building, Current
<1>20. ASSUME Restart PROVE GroupFits'
  BY <1>20 DEF Restart, Fresh, Works, GroupFits, OneBuilder, Building, Current
<1>21. ASSUME UNCHANGED vars PROVE GroupFits'
  BY <1>21, KeepsGroup DEF vars
<1>22. QED
  BY <1>1, <1>2, <1>3, <1>4, <1>5, <1>6, <1>7, <1>8, <1>9, <1>10, <1>11, <1>12, <1>13, <1>14, <1>15, <1>16, <1>17, <1>18, <1>19, <1>20, <1>21
  DEF Next, InitialStep, UpdateStep, BuildStep

-----------------------------------------------------------------------------
(* The invariant of the updates and of the group. *)
LEMMA Invariance == Spec => [](TypeOK /\ UpdatesFit /\ GroupFits)
<1>1. Init => TypeOK /\ UpdatesFit /\ GroupFits
  <2> SUFFICES ASSUME Init PROVE TypeOK /\ UpdatesFit /\ GroupFits
    OBVIOUS
  <2>1. TypeOK
    BY ContentAssumption DEF Init, Fresh, TypeOK, Steps, Resting, Kept, Contents, Remotes, Torn, Updaters
  <2>2. UpdatesFit
    BY DEF Init, Fresh, UpdatesFit, OneUpdate, InStep, Between, Agree, AtRest, Resting
  <2>3. GroupFits
    BY DEF Init, Fresh, GroupFits, OneBuilder, Building, Current
  <2>4. QED BY <2>1, <2>2, <2>3
<1>2. TypeOK /\ UpdatesFit /\ GroupFits /\ [Next]_vars => (TypeOK /\ UpdatesFit /\ GroupFits)'
  BY TypesInductive, UpdatesFitInductive, GroupFitsInductive
<1>3. QED BY <1>1, <1>2, PTL DEF Spec

(* When no update is under way and none has met another, the hash is that  *)
(* of the provider's proxies, and the file has them too or is a torn one:  *)
(* failed reads and writes and deaths of the process included.             *)
THEOREM StoresCorrect == Spec => []StoresAgree
<1>1. UpdatesFit => StoresAgree
  BY DEF UpdatesFit, Between, Agree, StoresAgree, UpdatesRest, AtRest, Resting
<1>2. QED BY <1>1, Invariance, PTL

(* A group at rest that says it was built for the provider's version has   *)
(* the provider's list, unless two updates or two builders met: it swaps   *)
(* the version before it reads the list.                                   *)
THEOREM GroupListCorrect == Spec => []ListIsOfItsVersion
<1>1. GroupFits => ListIsOfItsVersion
  BY DEF GroupFits, Current, Building, ListIsOfItsVersion, UpdatesRest, AtRest, Resting
<1>2. QED BY <1>1, Invariance, PTL
=============================================================================
