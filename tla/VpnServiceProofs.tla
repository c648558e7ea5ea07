------------------------- MODULE VpnServiceProofs -------------------------
(***************************************************************************)
(* Proofs about the Android VPN service, for every number of instances,    *)
(* interfaces, coroutines, commands and deaths of the process.             *)
(***************************************************************************)
EXTENDS VpnService, FiniteSetTheorems, TLAPS

(* A coroutine runs in the slot. *)
Busied(slots, s) == slots[s].at # "none"

(* The coroutines are those of instances. *)
SlotsFit ==
    /\ \A s \in Slots : Busied(starts, s) => starts[s].inst \in Instances
    /\ \A s \in Slots : Busied(stops, s) => stops[s].inst \in Instances

(* An interface to come is nobody's, and was never closed. *)
Fresh ==
    /\ \A f \in Fds : f > made => pfd[f] = "none" /\ closes[f] = 0
    /\ device # None => pfd[device] # "none"
    /\ \A i \in Instances : iface[i] # None => pfd[iface[i]] # "none"

(* While the flag is up, a start is under way whose instance nobody has    *)
(* begun to stop: its destruction would take the flag down with the start. *)
StarterStays == isStarting => \E s \in Slots : Busied(starts, s) /\ ~isStopping[starts[s].inst]

(* Nothing is open but one interface, which Java may close or Go.          *)
OnlyOpen(f) == \A g \in Fds : Open(g) => g = f
Holds(i) == iface[i] # None /\ pfd[iface[i]] = "open" /\ Open(iface[i]) /\ OnlyOpen(iface[i])
IsUp(i) == Holds(i) /\ device = iface[i] /\ core
NoTun == \A i \in Instances : ~tunStarted[i]
OnlyTun(i) == tunStarted[i] /\ \A j \in Instances : tunStarted[j] => j = i

(* The one start under way, step by step.                                  *)
StartFits(s) ==
    /\ starts[s].inst = inst /\ ~isStopping[inst] /\ ~dying
    /\ \A r \in Slots : Busied(starts, r) => r = s
    /\ isRunning <=> starts[s].at = "finish"
    /\ starts[s].at = "launched" => Released
    /\ starts[s].at \in {"check", "reload", "startCore", "applying", "startTun"} => Holds(inst) /\ device = None
    /\ starts[s].at \in {"reload", "startTun"} => core
    /\ starts[s].at \in {"mark", "publish", "finish"} => IsUp(inst)
    /\ IF starts[s].at \in {"publish", "finish"} THEN OnlyTun(inst) ELSE NoTun

(* The one stop under way: what is open before its first step is what that *)
(* step closes.                                                            *)
StopFits(s) ==
    /\ isStopping[stops[s].inst] /\ ~isRunning /\ NoTun
    /\ \A r \in Slots : Busied(stops, r) => r = s
    /\ IF stops[s].at # "release" THEN Released
       ELSE IF stops[s].native THEN device # None /\ OnlyOpen(device)
       ELSE device = None /\ \A f \in Fds : Open(f) => f = iface[stops[s].inst] /\ pfd[f] = "open"

(* Between them the VPN is up, and its instance may be stopped; or it is   *)
(* down.                                                                   *)
RestFits ==
    IF isRunning THEN inst # None /\ ~isStopping[inst] /\ IsUp(inst) /\ OnlyTun(inst)
                 ELSE Released /\ NoTun

(* Commands that do not overlap: starts, stops and previews exclude each   *)
(* other, and an instance that is being stopped is torn down already.      *)
Orderly ==
    ~overlap =>
        /\ Busy(starts) => ~Busy(stops) /\ preview = "none"
        /\ Busy(stops) \/ dying => preview = "none"
        /\ dying => ~isRunning /\ (Busy(stops) => isStopping[inst])
        /\ \A s \in Slots : Busied(starts, s) => StartFits(s)
        /\ \A s \in Slots : Busied(stops, s) => StopFits(s)
        /\ ~Busy(starts) /\ ~Busy(stops) => RestFits

(* What holds of the data whatever overlaps. *)
Types == TypeOK /\ SlotsFit /\ Fresh

-----------------------------------------------------------------------------
(* What becomes of the slots when a start goes on to its next step, when a *)
(* stop does, and when either is launched.                                 *)
StartGoes(s, step) ==
    /\ starts' \in [Slots -> Coroutines(StartSteps)]
    /\ \A r \in Slots : r # s => starts'[r] = starts[r]
    /\ starts'[s].at = step /\ (step # "none" => starts'[s].inst = starts[s].inst)

StopGoes(s, step) ==
    /\ stops' \in [Slots -> Coroutines(StopSteps)]
    /\ \A r \in Slots : r # s => stops'[r] = stops[r]
    /\ stops'[s].at = step
    /\ step # "none" => stops'[s].inst = stops[s].inst /\ stops'[s].native = stops[s].native

StopBegins(s, i) ==
    /\ stops' \in [Slots -> Coroutines(StopSteps)] /\ ~Busied(stops, s)
    /\ \A r \in Slots : r # s => stops'[r] = stops[r]
    /\ stops'[s].at = "release" /\ stops'[s].inst = i /\ stops'[s].native = tunStarted[i]

StartBegins(s, i) ==
    /\ starts' \in [Slots -> Coroutines(StartSteps)] /\ ~Busied(starts, s)
    /\ \A r \in Slots : r # s => starts'[r] = starts[r]
    /\ starts'[s].at = "launched" /\ starts'[s].inst = i

(* No coroutine is at no step. *)
LEMMA Steps ==
    /\ "none" \notin StartSteps /\ "none" \notin StopSteps /\ None \notin Instances /\ None \notin Fds
    /\ \A c \in Coroutines(StartSteps) : c.at # "none" => c.at \in StartSteps
    /\ \A c \in Coroutines(StopSteps) : c.at # "none" => c.at \in StopSteps
BY BoundAssumption DEF StartSteps, StopSteps, Coroutines, None, Instances, Fds

(* A step of a start moves its slot and no other. *)
LEMMA GotoGoes ==
    ASSUME TypeOK, SlotsFit, NEW s \in Slots, NEW step \in StartSteps \cup {"none"}, starts[s].at # "none", Goto(s, step)
    PROVE  StartGoes(s, step)
<1>1. starts \in [Slots -> Coroutines(StartSteps)]
  BY DEF TypeOK
<1>2. CASE step = "none"
  <2>1. Free \in Coroutines(StartSteps) /\ Free.at = "none"
    BY DEF Free, Coroutines
  <2>2. starts' = [starts EXCEPT ![s] = Free]
    BY <1>2 DEF Goto
  <2>3. QED BY <1>1, <1>2, <2>1, <2>2 DEF StartGoes
<1>3. CASE step # "none"
  <2> DEFINE c == [starts[s] EXCEPT !.at = step]
  <2>1. c \in Coroutines(StartSteps) /\ c.at = step /\ c.inst = starts[s].inst
    BY <1>1, <1>3 DEF Coroutines
  <2>2. starts' = [starts EXCEPT ![s] = c]
    BY <1>1, <1>3 DEF Goto
  <2> HIDE DEF c
  <2>3. QED BY <1>1, <1>3, <2>1, <2>2 DEF StartGoes
<1>4. QED BY <1>2, <1>3

(* So does a step of a stop. *)
LEMMA StopGotoGoes ==
    ASSUME TypeOK, SlotsFit, NEW s \in Slots, NEW from \in StopSteps, NEW to \in StopSteps \cup {"none"}, StopGoto(s, from, to)
    PROVE  StopGoes(s, to)
<1>1. stops \in [Slots -> Coroutines(StopSteps)]
  BY DEF TypeOK
<1>2. CASE to = "none"
  <2>1. Free \in Coroutines(StopSteps) /\ Free.at = "none"
    BY DEF Free, Coroutines
  <2>2. stops' = [stops EXCEPT ![s] = Free]
    BY <1>2 DEF StopGoto
  <2>3. QED BY <1>1, <1>2, <2>1, <2>2 DEF StopGoes
<1>3. CASE to # "none"
  <2> DEFINE c == [stops[s] EXCEPT !.at = to]
  <2>1. c \in Coroutines(StopSteps) /\ c.at = to /\ c.inst = stops[s].inst /\ c.native = stops[s].native
    BY <1>1, <1>3 DEF Coroutines
  <2>2. stops' = [stops EXCEPT ![s] = c]
    BY <1>1, <1>3 DEF StopGoto
  <2> HIDE DEF c
  <2>3. QED BY <1>1, <1>3, <2>1, <2>2 DEF StopGoes
<1>4. QED BY <1>2, <1>3

(* stopVpn tears the instance down, which switches off and launches the    *)
(* coroutine that owns what is open; or that was done before.              *)
TornDown(i) ==
    /\ ~isStopping[i] /\ isStopping' = [isStopping EXCEPT ![i] = TRUE]
    /\ isRunning' = FALSE /\ saved' = FALSE /\ tunStarted' = [tunStarted EXCEPT ![i] = FALSE]
    /\ \E s \in Slots : StopBegins(s, i)
LeftAlone(i) == isStopping[i] /\ UNCHANGED <<isRunning, saved, isStopping, tunStarted, stops>>

(* There is no third way. *)
LEMMA TearDownCases ==
    ASSUME TypeOK, NEW i \in Instances, TearDown(i)
    PROVE  TornDown(i) \/ LeftAlone(i)
<1>1. CASE AlreadyStopping(i) /\ UNCHANGED <<isRunning, saved, isStopping, tunStarted, stops>>
  BY <1>1 DEF LeftAlone, AlreadyStopping
<1>2. CASE /\ ~AlreadyStopping(i) /\ isStopping' = [isStopping EXCEPT ![i] = TRUE]
           /\ ReportStopped /\ tunStarted' = [tunStarted EXCEPT ![i] = FALSE]
           /\ \E s \in Slots : Vacant(stops, s) /\ stops' = Launch(stops, s, i, "release", NativeOwnsFd(i))
  <2>1. PICK s \in Slots : Vacant(stops, s) /\ stops' = Launch(stops, s, i, "release", NativeOwnsFd(i))
    BY <1>2
  <2> DEFINE c == [inst |-> i, at |-> "release", native |-> tunStarted[i]]
  <2>2. c \in Coroutines(StopSteps) /\ c.at = "release" /\ c.inst = i /\ c.native = tunStarted[i]
    BY DEF TypeOK, Coroutines, StopSteps
  <2>3. stops' = [stops EXCEPT ![s] = c] /\ stops \in [Slots -> Coroutines(StopSteps)] /\ ~Busied(stops, s)
    BY <2>1 DEF Launch, NativeOwnsFd, TypeOK, Vacant, Busied
  <2> HIDE DEF c
  <2>4. StopBegins(s, i)
    BY <2>2, <2>3 DEF StopBegins
  <2>5. QED BY <1>2, <2>4 DEF TornDown, ReportStopped, setRunningState, AlreadyStopping
<1>3. QED BY <1>1, <1>2 DEF TearDown

(* A start begins in a slot that was free. *)
LEMMA StartLaunched ==
    ASSUME TypeOK, NEW i \in Instances, NEW s \in Slots, Vacant(starts, s),
           starts' = Launch(starts, s, i, "launched", FALSE)
    PROVE  StartBegins(s, i)
<1> DEFINE c == [inst |-> i, at |-> "launched", native |-> FALSE]
<1>1. c \in Coroutines(StartSteps) /\ c.at = "launched" /\ c.inst = i
  BY DEF Coroutines, StartSteps
<1>2. starts' = [starts EXCEPT ![s] = c] /\ starts \in [Slots -> Coroutines(StartSteps)] /\ ~Busied(starts, s)
  BY DEF Launch, TypeOK, Vacant, Busied
<1> HIDE DEF c
<1>3. QED BY <1>1, <1>2 DEF StartBegins

(* The steps of a start, as moves in its slot. *)
LEMMA StartStepGoes ==
    ASSUME Types, NEW s \in Slots
    PROVE
      /\ Establish(s) => starts[s].at = "launched" /\ StartGoes(s, "check")
      /\ EstablishNull(s) => starts[s].at = "launched" /\ StartGoes(s, "none")
      /\ EstablishFails(s) => starts[s].at # "none" /\ StartGoes(s, "none") /\ TearDown(starts[s].inst) /\ isStarting' = FALSE
      /\ CheckCore(s) => starts[s].at = "check" /\ StartGoes(s, IF core THEN "reload" ELSE "startCore")
      /\ ReloadCore(s) => starts[s].at = "reload" /\ StartGoes(s, "startTun")
      /\ EnterCore(s) => starts[s].at = "startCore" /\ StartGoes(s, "applying")
      /\ CoreStarted(s) => starts[s].at = "applying" /\ StartGoes(s, "startTun")
      /\ ConfigFails(s) => starts[s].at # "none" /\ StartGoes(s, "none") /\ TearDown(starts[s].inst) /\ isStarting' = FALSE
      /\ StartTun(s) => starts[s].at = "startTun" /\ StartGoes(s, "mark")
      /\ SkipTun(s) => starts[s].at = "startTun" /\ StartGoes(s, "publish")
      /\ StartTunFails(s) => starts[s].at # "none" /\ StartGoes(s, "none") /\ TearDown(starts[s].inst) /\ isStarting' = FALSE
      /\ StackFails(s) => starts[s].at # "none" /\ StartGoes(s, "none") /\ TearDown(starts[s].inst) /\ isStarting' = FALSE
      /\ MarkTunStarted(s) => starts[s].at = "mark" /\ StartGoes(s, "publish")
      /\ PublishRunning(s) => starts[s].at = "publish" /\ StartGoes(s, "finish")
      /\ FinishStart(s) => starts[s].at = "finish" /\ StartGoes(s, "none")
<1>1. ASSUME Establish(s) PROVE starts[s].at = "launched" /\ StartGoes(s, "check")
  BY <1>1, GotoGoes DEF Establish, At, Types, StartSteps
<1>2. ASSUME EstablishNull(s) PROVE starts[s].at = "launched" /\ StartGoes(s, "none")
  BY <1>2, GotoGoes DEF EstablishNull, At, Types, StartSteps
<1>3. ASSUME EstablishFails(s) PROVE starts[s].at # "none" /\ StartGoes(s, "none") /\ TearDown(starts[s].inst) /\ isStarting' = FALSE
  BY <1>3, GotoGoes DEF EstablishFails, At, Throw, Mine, StartingAfterError, Types, StartSteps
<1>4. ASSUME CheckCore(s) PROVE starts[s].at = "check" /\ StartGoes(s, IF core THEN "reload" ELSE "startCore")
  BY <1>4, GotoGoes DEF CheckCore, At, Types, StartSteps
<1>5. ASSUME ReloadCore(s) PROVE starts[s].at = "reload" /\ StartGoes(s, "startTun")
  BY <1>5, GotoGoes DEF ReloadCore, At, Types, StartSteps
<1>6. ASSUME EnterCore(s) PROVE starts[s].at = "startCore" /\ StartGoes(s, "applying")
  BY <1>6, GotoGoes DEF EnterCore, At, Types, StartSteps
<1>7. ASSUME CoreStarted(s) PROVE starts[s].at = "applying" /\ StartGoes(s, "startTun")
  BY <1>7, GotoGoes DEF CoreStarted, At, Types, StartSteps
<1>8. ASSUME ConfigFails(s) PROVE starts[s].at # "none" /\ StartGoes(s, "none") /\ TearDown(starts[s].inst) /\ isStarting' = FALSE
  BY <1>8, GotoGoes DEF ConfigFails, At, Throw, Mine, StartingAfterError, Types, StartSteps
<1>9. ASSUME StartTun(s) PROVE starts[s].at = "startTun" /\ StartGoes(s, "mark")
  BY <1>9, GotoGoes DEF StartTun, At, Types, StartSteps
<1>10. ASSUME SkipTun(s) PROVE starts[s].at = "startTun" /\ StartGoes(s, "publish")
  BY <1>10, GotoGoes DEF SkipTun, At, Types, StartSteps
<1>11. ASSUME StartTunFails(s) PROVE starts[s].at # "none" /\ StartGoes(s, "none") /\ TearDown(starts[s].inst) /\ isStarting' = FALSE
  BY <1>11, GotoGoes DEF StartTunFails, At, Throw, Mine, StartingAfterError, Types, StartSteps
<1>12. ASSUME StackFails(s) PROVE starts[s].at # "none" /\ StartGoes(s, "none") /\ TearDown(starts[s].inst) /\ isStarting' = FALSE
  BY <1>12, GotoGoes DEF StackFails, At, Throw, Mine, StartingAfterError, Types, StartSteps
<1>13. ASSUME MarkTunStarted(s) PROVE starts[s].at = "mark" /\ StartGoes(s, "publish")
  BY <1>13, GotoGoes DEF MarkTunStarted, At, Types, StartSteps
<1>14. ASSUME PublishRunning(s) PROVE starts[s].at = "publish" /\ StartGoes(s, "finish")
  BY <1>14, GotoGoes DEF PublishRunning, At, Types, StartSteps
<1>15. ASSUME FinishStart(s) PROVE starts[s].at = "finish" /\ StartGoes(s, "none")
  BY <1>15, GotoGoes DEF FinishStart, At, Types, StartSteps
<1>16. QED BY <1>1, <1>2, <1>3, <1>4, <1>5, <1>6, <1>7, <1>8, <1>9, <1>10, <1>11, <1>12, <1>13, <1>14, <1>15

(* The steps of a stop, as moves in its slot. *)
LEMMA StopStepGoes ==
    ASSUME Types, NEW s \in Slots
    PROVE
      /\ StopTun(s) => stops[s].at = "release" /\ StopGoes(s, "clear")
      /\ CloseInterface(s) => stops[s].at = "release" /\ StopGoes(s, "clear")
      /\ ClearInterface(s) => stops[s].at = "clear" /\ StopGoes(s, "stopSelf")
      /\ StopSelf(s) => stops[s].at = "stopSelf" /\ StopGoes(s, "stopCore")
      /\ StopCore(s) => stops[s].at = "stopCore" /\ StopGoes(s, "none")
<1>1. ASSUME StopTun(s) PROVE stops[s].at = "release" /\ StopGoes(s, "clear")
  <2>1. "release" \in StopSteps /\ "clear" \in StopSteps \cup {"none"} /\ StopGoto(s, "release", "clear")
    BY <1>1 DEF StopTun, StopSteps
  <2>2. QED BY <2>1, StopGotoGoes DEF StopGoto, Types
<1>2. ASSUME CloseInterface(s) PROVE stops[s].at = "release" /\ StopGoes(s, "clear")
  <2>1. "release" \in StopSteps /\ "clear" \in StopSteps \cup {"none"} /\ StopGoto(s, "release", "clear")
    BY <1>2 DEF CloseInterface, StopSteps
  <2>2. QED BY <2>1, StopGotoGoes DEF StopGoto, Types
<1>3. ASSUME ClearInterface(s) PROVE stops[s].at = "clear" /\ StopGoes(s, "stopSelf")
  <2>1. "clear" \in StopSteps /\ "stopSelf" \in StopSteps \cup {"none"} /\ StopGoto(s, "clear", "stopSelf")
    BY <1>3 DEF ClearInterface, StopSteps
  <2>2. QED BY <2>1, StopGotoGoes DEF StopGoto, Types
<1>4. ASSUME StopSelf(s) PROVE stops[s].at = "stopSelf" /\ StopGoes(s, "stopCore")
  <2>1. "stopSelf" \in StopSteps /\ "stopCore" \in StopSteps \cup {"none"} /\ StopGoto(s, "stopSelf", "stopCore")
    BY <1>4 DEF StopSelf, StopSteps
  <2>2. QED BY <2>1, StopGotoGoes DEF StopGoto, Types
<1>5. ASSUME StopCore(s) PROVE stops[s].at = "stopCore" /\ StopGoes(s, "none")
  <2>1. "stopCore" \in StopSteps /\ "none" \in StopSteps \cup {"none"} /\ StopGoto(s, "stopCore", "none")
    BY <1>5 DEF StopCore, StopSteps
  <2>2. QED BY <2>1, StopGotoGoes DEF StopGoto, Types
<1>6. QED BY <1>1, <1>2, <1>3, <1>4, <1>5

-----------------------------------------------------------------------------
(* Stopped is about an instance that is there. *)
LEMMA StoppedType ==
    ASSUME TypeOK, NEW i \in Instances
    PROVE  Stopped(i) \in BOOLEAN /\ (Stopped(i) => inst # None)
BY Steps DEF TypeOK, Stopped

(* Closing counts to two. *)
LEMMA CloseCounts ==
    ASSUME TypeOK, Fresh, NEW f \in Fds, pfd[f] # "none", Close(f)
    PROVE  /\ closes' \in [Fds -> 0 .. 2] /\ closes'[f] # 0
           /\ \A g \in Fds : g # f => closes'[g] = closes[g]
<1>1. closes \in [Fds -> 0 .. 2]
  BY DEF TypeOK
<1>2. (IF closes[f] = 2 THEN 2 ELSE closes[f] + 1) \in 1 .. 2
  BY <1>1
<1>3. QED BY <1>1, <1>2 DEF Close

(* Tearing down keeps the types of what it changes. *)
LEMMA TearDownTypes ==
    ASSUME Types, NEW i \in Instances, TearDown(i)
    PROVE  /\ isRunning' \in BOOLEAN /\ saved' \in BOOLEAN
           /\ isStopping' \in [Instances -> BOOLEAN] /\ tunStarted' \in [Instances -> BOOLEAN]
           /\ stops' \in [Slots -> Coroutines(StopSteps)]
           /\ \A s \in Slots : Busied(stops, s)' => stops'[s].inst \in Instances
<1>1. CASE TornDown(i)
  BY <1>1 DEF TornDown, StopBegins, Types, TypeOK, SlotsFit, Busied
<1>2. CASE LeftAlone(i)
  BY <1>2 DEF LeftAlone, Types, TypeOK, SlotsFit, Busied
<1>3. QED BY <1>1, <1>2, TearDownCases DEF Types

(* Every step keeps the types, and never gives out an fd twice. *)
LEMMA TypesInductive ==
    ASSUME Types, [Next]_vars
    PROVE  Types'
<1> USE DEF service, companion, fields, coroutines, mobile, descriptors, history
<1>a. /\ inst \in Instances \cup {None} /\ created \in 0 .. MaxInstances /\ dying \in BOOLEAN
      /\ dying => inst # None
      /\ isRunning \in BOOLEAN /\ isStarting \in BOOLEAN /\ saved \in BOOLEAN
      /\ iface \in [Instances -> Fds \cup {None}]
      /\ isStopping \in [Instances -> BOOLEAN] /\ tunStarted \in [Instances -> BOOLEAN]
      /\ starts \in [Slots -> Coroutines(StartSteps)] /\ stops \in [Slots -> Coroutines(StopSteps)]
      /\ preview \in {"none", "check", "reload", "startCore", "applying"}
      /\ core \in BOOLEAN /\ device \in Fds \cup {None}
      /\ pfd \in [Fds -> {"none", "open", "detached", "closed"}]
      /\ closes \in [Fds -> 0 .. 2] /\ made \in 0 .. MaxFds
      /\ commands \in 0 .. MaxCommands /\ deaths \in 0 .. MaxDeaths
      /\ wanted \in {"none", "start", "stop"} /\ overlap \in BOOLEAN
  BY DEF Types, TypeOK
<1>b. /\ \A s \in Slots : starts[s].at # "none" => starts[s].inst \in Instances
      /\ \A s \in Slots : stops[s].at # "none" => stops[s].inst \in Instances
  BY DEF Types, SlotsFit, Busied
<1>c. /\ \A f \in Fds : f > made => pfd[f] = "none" /\ closes[f] = 0
      /\ device # None => pfd[device] # "none"
      /\ \A i \in Instances : iface[i] # None => pfd[iface[i]] # "none"
  BY DEF Types, Fresh
<1>d. MaxInstances \in Nat /\ MaxFds \in Nat /\ MaxCommands \in Nat /\ MaxDeaths \in Nat
  BY BoundAssumption
<1>e. /\ Instances = 1 .. MaxInstances /\ Fds = 1 .. MaxFds /\ None = 0
  BY DEF Instances, Fds, None
<1>f. ASSUME Command PROVE commands' \in 0 .. MaxCommands /\ UNCHANGED deaths /\ overlap' \in BOOLEAN
  BY <1>f, <1>a, <1>d DEF Command, InFlight, Busy
<1>1. ASSUME NEW i \in Instances, startVpn(i) PROVE Types'
  <2>1. /\ isStarting' \in BOOLEAN /\ isStopping' \in [Instances -> BOOLEAN]
        /\ starts' \in [Slots -> Coroutines(StartSteps)]
        /\ \A r \in Slots : starts'[r].at # "none" => starts'[r].inst \in Instances
    <3>1. CASE UNCHANGED <<isStarting, isStopping, starts>>
      BY <1>a, <1>b, <3>1
    <3>2. CASE /\ isStarting' = TRUE /\ isStopping' = [isStopping EXCEPT ![i] = FALSE]
               /\ \E s \in Slots : Vacant(starts, s) /\ starts' = Launch(starts, s, i, "launched", FALSE)
      <4>1. PICK s \in Slots : StartBegins(s, i)
        BY <3>2, StartLaunched DEF Types
      <4>2. QED BY <1>a, <1>b, <3>2, <4>1 DEF StartBegins
    <3>3. QED BY <1>1, <3>1, <3>2 DEF startVpn
  <2>2. /\ commands' \in 0 .. MaxCommands /\ UNCHANGED deaths /\ overlap' \in BOOLEAN /\ wanted' = "start"
        /\ UNCHANGED <<isRunning, saved, iface, tunStarted, stops, preview, mobile, descriptors>>
    BY <1>1, <1>f DEF startVpn
  <2>3. inst' \in Instances \cup {None} /\ created' \in 0 .. MaxInstances /\ dying' = FALSE
    BY <1>1, <1>a, <1>d, <1>e DEF startVpn, Deliver
  <2>4. QED BY <1>a, <1>b, <1>c, <2>1, <2>2, <2>3 DEF Types, TypeOK, SlotsFit, Fresh, Busied
<1>2. ASSUME NEW i \in Instances, StopCommand(i) PROVE Types'
  <2>1. /\ TearDown(i) /\ isStarting' \in BOOLEAN /\ commands' \in 0 .. MaxCommands /\ UNCHANGED deaths
        /\ overlap' \in BOOLEAN /\ wanted' = "stop" /\ UNCHANGED <<iface, starts, preview, mobile, descriptors>>
    BY <1>2, <1>a, <1>f DEF StopCommand, stopVpn, AlreadyStopping
  <2>2. i \in Instances /\ inst' \in Instances \cup {None} /\ created' \in 0 .. MaxInstances /\ dying' \in BOOLEAN
        /\ (dying' => inst' # None)
    BY <1>2, <1>a, <1>d, <1>e DEF StopCommand, Deliver
  <2>3. /\ isRunning' \in BOOLEAN /\ saved' \in BOOLEAN
        /\ isStopping' \in [Instances -> BOOLEAN] /\ tunStarted' \in [Instances -> BOOLEAN]
        /\ stops' \in [Slots -> Coroutines(StopSteps)]
        /\ \A r \in Slots : stops'[r].at # "none" => stops'[r].inst \in Instances
    BY <2>1, <2>2, TearDownTypes DEF Busied
  <2>4. QED BY <1>a, <1>b, <1>c, <2>1, <2>2, <2>3 DEF Types, TypeOK, SlotsFit, Fresh, Busied
<1>3. ASSUME onRevoke PROVE Types'
  <2>1. /\ TearDown(inst) /\ isStarting' \in BOOLEAN /\ commands' \in 0 .. MaxCommands /\ UNCHANGED deaths
        /\ overlap' \in BOOLEAN /\ wanted' = "stop" /\ UNCHANGED <<iface, starts, preview, mobile, descriptors>>
    BY <1>3, <1>a, <1>f DEF onRevoke, stopVpn, AlreadyStopping
  <2>2. inst \in Instances /\ inst' \in Instances \cup {None} /\ created' \in 0 .. MaxInstances /\ dying' \in BOOLEAN
        /\ (dying' => inst' # None)
    BY <1>3, <1>a, <1>d, <1>e DEF onRevoke, Deliver
  <2>3. /\ isRunning' \in BOOLEAN /\ saved' \in BOOLEAN
        /\ isStopping' \in [Instances -> BOOLEAN] /\ tunStarted' \in [Instances -> BOOLEAN]
        /\ stops' \in [Slots -> Coroutines(StopSteps)]
        /\ \A r \in Slots : stops'[r].at # "none" => stops'[r].inst \in Instances
    BY <2>1, <2>2, TearDownTypes DEF Busied
  <2>4. QED BY <1>a, <1>b, <1>c, <2>1, <2>2, <2>3 DEF Types, TypeOK, SlotsFit, Fresh, Busied
<1>4. ASSUME onDestroy PROVE Types'
  <2>1. /\ inst \in Instances /\ TearDown(inst) /\ isStarting' \in BOOLEAN /\ inst' = None /\ dying' = FALSE
        /\ starts' = [s \in Slots |-> IF starts[s].inst = inst /\ starts[s].at = "launched" THEN Free ELSE starts[s]]
        /\ UNCHANGED <<created, iface, preview, mobile, descriptors, history>>
    BY <1>4, <1>a DEF onDestroy, stopVpn, AlreadyStopping
  <2>2. /\ isRunning' \in BOOLEAN /\ saved' \in BOOLEAN
        /\ isStopping' \in [Instances -> BOOLEAN] /\ tunStarted' \in [Instances -> BOOLEAN]
        /\ stops' \in [Slots -> Coroutines(StopSteps)]
        /\ \A r \in Slots : stops'[r].at # "none" => stops'[r].inst \in Instances
    BY <2>1, TearDownTypes DEF Busied
  <2>3. Free \in Coroutines(StartSteps) /\ Free.at = "none"
    BY DEF Free, Coroutines
  <2>4. /\ starts' \in [Slots -> Coroutines(StartSteps)]
        /\ \A r \in Slots : starts'[r].at # "none" => starts'[r].inst \in Instances
    BY <1>a, <1>b, <2>1, <2>3
  <2>5. QED BY <1>a, <1>c, <2>1, <2>2, <2>4 DEF Types, TypeOK, SlotsFit, Fresh, Busied
<1>5. ASSUME NEW s \in Slots, Establish(s) PROVE Types'
  <2>1. starts[s].at = "launched" /\ StartGoes(s, "check") /\ Mine(s) \in Instances
    BY <1>5, <1>b, StartStepGoes DEF Mine
  <2>2. /\ starts' \in [Slots -> Coroutines(StartSteps)]
        /\ \A r \in Slots : starts'[r].at # "none" => starts'[r].inst \in Instances
    BY <1>b, <2>1 DEF StartGoes
  <2>3. /\ made' = made + 1 /\ made' \in Fds /\ pfd' = [pfd EXCEPT ![made + 1] = "open"]
        /\ iface' = [iface EXCEPT ![Mine(s)] = made + 1]
        /\ UNCHANGED <<service, companion, isStopping, tunStarted, stops, preview, mobile, closes, history>>
    BY <1>5, <1>a, <1>d, <1>e DEF Establish
  <2>4. pfd' \in [Fds -> {"none", "open", "detached", "closed"}] /\ iface' \in [Instances -> Fds \cup {None}] /\ made' \in 0 .. MaxFds
    BY <1>a, <1>d, <1>e, <2>1, <2>3
  <2>5. Fresh'
    BY <1>a, <1>c, <1>d, <1>e, <2>1, <2>3 DEF Fresh
  <2>6. QED BY <1>a, <1>b, <2>2, <2>3, <2>4, <2>5 DEF Types, TypeOK, SlotsFit, Busied
<1>6. ASSUME NEW s \in Slots, EstablishNull(s) PROVE Types'
  <2>1. starts[s].at = "launched" /\ StartGoes(s, "none") /\ Mine(s) \in Instances
    BY <1>6, <1>b, StartStepGoes DEF Mine
  <2>2. /\ starts' \in [Slots -> Coroutines(StartSteps)]
        /\ \A r \in Slots : starts'[r].at # "none" => starts'[r].inst \in Instances
    BY <1>b, <2>1 DEF StartGoes
  <2>3. Fresh'
    BY <1>6, <1>a, <1>c, <2>1 DEF EstablishNull, Usable, setRunningState, Fresh
  <2>4. SlotsFit'
    BY <1>6, <1>b, <2>2 DEF EstablishNull, setRunningState, SlotsFit, Busied
  <2>5. TypeOK'
    <3>1. isStarting' \in BOOLEAN /\ dying' \in BOOLEAN /\ (dying' => inst' # None) /\ iface' \in [Instances -> Fds \cup {None}]
      <4>1. isStarting' \in BOOLEAN /\ dying' = Stopped(Mine(s)) /\ inst' = inst /\ iface' = [iface EXCEPT ![Mine(s)] = None]
        BY <1>6 DEF EstablishNull
      <4>2. Stopped(Mine(s)) \in BOOLEAN /\ (Stopped(Mine(s)) => inst # None)
        BY <2>1, StoppedType DEF Types
      <4>3. QED BY <1>a, <4>1, <4>2
    <3>2. UNCHANGED <<inst, created, isRunning, saved, isStopping, tunStarted, stops, preview, mobile, descriptors, history>>
      BY <1>6 DEF EstablishNull
    <3>3. QED BY <1>a, <2>2, <3>1, <3>2 DEF TypeOK
  <2>6. QED BY <2>3, <2>4, <2>5 DEF Types
<1>7. ASSUME NEW s \in Slots, EstablishFails(s) PROVE Types'
  <2>1. starts[s].at # "none" /\ StartGoes(s, "none") /\ TearDown(starts[s].inst) /\ isStarting' = FALSE
    BY <1>7, StartStepGoes
  <2>2. /\ starts' \in [Slots -> Coroutines(StartSteps)]
        /\ \A r \in Slots : starts'[r].at # "none" => starts'[r].inst \in Instances
    BY <1>b, <2>1 DEF StartGoes
  <2>3. Mine(s) \in Instances /\ starts[s].inst = Mine(s)
    BY <1>b, <2>1 DEF Mine
  <2>4. /\ isRunning' \in BOOLEAN /\ saved' \in BOOLEAN
        /\ isStopping' \in [Instances -> BOOLEAN] /\ tunStarted' \in [Instances -> BOOLEAN]
        /\ stops' \in [Slots -> Coroutines(StopSteps)]
        /\ \A r \in Slots : stops'[r].at # "none" => stops'[r].inst \in Instances
    BY <2>1, <2>3, TearDownTypes DEF Busied
  <2>5. QED BY <1>7, <1>a, <1>c, <2>1, <2>2, <2>3, <2>4 DEF EstablishFails, Types, TypeOK, SlotsFit, Fresh, Busied
<1>8. ASSUME NEW s \in Slots, CheckCore(s) PROVE Types'
  <2>1. starts[s].at = "check" /\ StartGoes(s, IF core THEN "reload" ELSE "startCore") /\ Mine(s) \in Instances
    BY <1>8, <1>b, StartStepGoes DEF Mine
  <2>2. /\ starts' \in [Slots -> Coroutines(StartSteps)]
        /\ \A r \in Slots : starts'[r].at # "none" => starts'[r].inst \in Instances
    BY <1>b, <2>1 DEF StartGoes
  <2>3. Fresh'
    BY <1>8, <1>a, <1>c, <2>1 DEF CheckCore, Usable, setRunningState, Fresh
  <2>4. SlotsFit'
    BY <1>8, <1>b, <2>2 DEF CheckCore, setRunningState, SlotsFit, Busied
  <2>5. TypeOK'
    BY <1>8, <1>a, <1>e, <2>1, <2>2 DEF CheckCore, Usable, setRunningState, TypeOK
  <2>6. QED BY <2>3, <2>4, <2>5 DEF Types
<1>9. ASSUME NEW s \in Slots, ReloadCore(s) PROVE Types'
  <2>1. starts[s].at = "reload" /\ StartGoes(s, "startTun") /\ Mine(s) \in Instances
    BY <1>9, <1>b, StartStepGoes DEF Mine
  <2>2. /\ starts' \in [Slots -> Coroutines(StartSteps)]
        /\ \A r \in Slots : starts'[r].at # "none" => starts'[r].inst \in Instances
    BY <1>b, <2>1 DEF StartGoes
  <2>3. Fresh'
    BY <1>9, <1>a, <1>c, <2>1 DEF ReloadCore, Usable, setRunningState, Fresh
  <2>4. SlotsFit'
    BY <1>9, <1>b, <2>2 DEF ReloadCore, setRunningState, SlotsFit, Busied
  <2>5. TypeOK'
    BY <1>9, <1>a, <1>e, <2>1, <2>2 DEF ReloadCore, Usable, setRunningState, TypeOK
  <2>6. QED BY <2>3, <2>4, <2>5 DEF Types
<1>10. ASSUME NEW s \in Slots, EnterCore(s) PROVE Types'
  <2>1. starts[s].at = "startCore" /\ StartGoes(s, "applying") /\ Mine(s) \in Instances
    BY <1>10, <1>b, StartStepGoes DEF Mine
  <2>2. /\ starts' \in [Slots -> Coroutines(StartSteps)]
        /\ \A r \in Slots : starts'[r].at # "none" => starts'[r].inst \in Instances
    BY <1>b, <2>1 DEF StartGoes
  <2>3. Fresh'
    BY <1>10, <1>a, <1>c, <2>1 DEF EnterCore, Usable, setRunningState, Fresh
  <2>4. SlotsFit'
    BY <1>10, <1>b, <2>2 DEF EnterCore, setRunningState, SlotsFit, Busied
  <2>5. TypeOK'
    BY <1>10, <1>a, <1>e, <2>1, <2>2 DEF EnterCore, Usable, setRunningState, TypeOK
  <2>6. QED BY <2>3, <2>4, <2>5 DEF Types
<1>11. ASSUME NEW s \in Slots, CoreStarted(s) PROVE Types'
  <2>1. starts[s].at = "applying" /\ StartGoes(s, "startTun") /\ Mine(s) \in Instances
    BY <1>11, <1>b, StartStepGoes DEF Mine
  <2>2. /\ starts' \in [Slots -> Coroutines(StartSteps)]
        /\ \A r \in Slots : starts'[r].at # "none" => starts'[r].inst \in Instances
    BY <1>b, <2>1 DEF StartGoes
  <2>3. Fresh'
    BY <1>11, <1>a, <1>c, <2>1 DEF CoreStarted, Usable, setRunningState, Fresh
  <2>4. SlotsFit'
    BY <1>11, <1>b, <2>2 DEF CoreStarted, setRunningState, SlotsFit, Busied
  <2>5. TypeOK'
    BY <1>11, <1>a, <1>e, <2>1, <2>2 DEF CoreStarted, Usable, setRunningState, TypeOK
  <2>6. QED BY <2>3, <2>4, <2>5 DEF Types
<1>12. ASSUME NEW s \in Slots, ConfigFails(s) PROVE Types'
  <2>1. starts[s].at # "none" /\ StartGoes(s, "none") /\ TearDown(starts[s].inst) /\ isStarting' = FALSE
    BY <1>12, StartStepGoes
  <2>2. /\ starts' \in [Slots -> Coroutines(StartSteps)]
        /\ \A r \in Slots : starts'[r].at # "none" => starts'[r].inst \in Instances
    BY <1>b, <2>1 DEF StartGoes
  <2>3. Mine(s) \in Instances /\ starts[s].inst = Mine(s)
    BY <1>b, <2>1 DEF Mine
  <2>4. /\ isRunning' \in BOOLEAN /\ saved' \in BOOLEAN
        /\ isStopping' \in [Instances -> BOOLEAN] /\ tunStarted' \in [Instances -> BOOLEAN]
        /\ stops' \in [Slots -> Coroutines(StopSteps)]
        /\ \A r \in Slots : stops'[r].at # "none" => stops'[r].inst \in Instances
    BY <2>1, <2>3, TearDownTypes DEF Busied
  <2>5. QED BY <1>12, <1>a, <1>c, <2>1, <2>2, <2>3, <2>4 DEF ConfigFails, Types, TypeOK, SlotsFit, Fresh, Busied
<1>13. ASSUME NEW s \in Slots, StartTun(s) PROVE Types'
  <2>1. starts[s].at = "startTun" /\ StartGoes(s, "mark") /\ Mine(s) \in Instances
    BY <1>13, <1>b, StartStepGoes DEF Mine
  <2>2. /\ starts' \in [Slots -> Coroutines(StartSteps)]
        /\ \A r \in Slots : starts'[r].at # "none" => starts'[r].inst \in Instances
    BY <1>b, <2>1 DEF StartGoes
  <2>3. Fresh'
    BY <1>13, <1>a, <1>c, <2>1 DEF StartTun, Usable, setRunningState, Fresh
  <2>4. SlotsFit'
    BY <1>13, <1>b, <2>2 DEF StartTun, setRunningState, SlotsFit, Busied
  <2>5. TypeOK'
    BY <1>13, <1>a, <1>e, <2>1, <2>2 DEF StartTun, Usable, setRunningState, TypeOK
  <2>6. QED BY <2>3, <2>4, <2>5 DEF Types
<1>14. ASSUME NEW s \in Slots, SkipTun(s) PROVE Types'
  <2>1. starts[s].at = "startTun" /\ StartGoes(s, "publish") /\ Mine(s) \in Instances
    BY <1>14, <1>b, StartStepGoes DEF Mine
  <2>2. /\ starts' \in [Slots -> Coroutines(StartSteps)]
        /\ \A r \in Slots : starts'[r].at # "none" => starts'[r].inst \in Instances
    BY <1>b, <2>1 DEF StartGoes
  <2>3. Fresh'
    BY <1>14, <1>a, <1>c, <2>1 DEF SkipTun, Usable, setRunningState, Fresh
  <2>4. SlotsFit'
    BY <1>14, <1>b, <2>2 DEF SkipTun, setRunningState, SlotsFit, Busied
  <2>5. TypeOK'
    BY <1>14, <1>a, <1>e, <2>1, <2>2 DEF SkipTun, Usable, setRunningState, TypeOK
  <2>6. QED BY <2>3, <2>4, <2>5 DEF Types
<1>15. ASSUME NEW s \in Slots, StartTunFails(s) PROVE Types'
  <2>1. starts[s].at # "none" /\ StartGoes(s, "none") /\ TearDown(starts[s].inst) /\ isStarting' = FALSE
    BY <1>15, StartStepGoes
  <2>2. /\ starts' \in [Slots -> Coroutines(StartSteps)]
        /\ \A r \in Slots : starts'[r].at # "none" => starts'[r].inst \in Instances
    BY <1>b, <2>1 DEF StartGoes
  <2>3. Mine(s) \in Instances /\ starts[s].inst = Mine(s)
    BY <1>b, <2>1 DEF Mine
  <2>4. /\ isRunning' \in BOOLEAN /\ saved' \in BOOLEAN
        /\ isStopping' \in [Instances -> BOOLEAN] /\ tunStarted' \in [Instances -> BOOLEAN]
        /\ stops' \in [Slots -> Coroutines(StopSteps)]
        /\ \A r \in Slots : stops'[r].at # "none" => stops'[r].inst \in Instances
    BY <2>1, <2>3, TearDownTypes DEF Busied
  <2>5. QED BY <1>15, <1>a, <1>c, <2>1, <2>2, <2>3, <2>4 DEF StartTunFails, Types, TypeOK, SlotsFit, Fresh, Busied
<1>16. ASSUME NEW s \in Slots, StackFails(s) PROVE Types'
  <2>1. starts[s].at # "none" /\ StartGoes(s, "none") /\ TearDown(starts[s].inst) /\ isStarting' = FALSE
    BY <1>16, StartStepGoes
  <2>2. /\ starts' \in [Slots -> Coroutines(StartSteps)]
        /\ \A r \in Slots : starts'[r].at # "none" => starts'[r].inst \in Instances
    BY <1>b, <2>1 DEF StartGoes
  <2>3. Mine(s) \in Instances /\ starts[s].inst = Mine(s)
    BY <1>b, <2>1 DEF Mine
  <2>4. /\ isRunning' \in BOOLEAN /\ saved' \in BOOLEAN
        /\ isStopping' \in [Instances -> BOOLEAN] /\ tunStarted' \in [Instances -> BOOLEAN]
        /\ stops' \in [Slots -> Coroutines(StopSteps)]
        /\ \A r \in Slots : stops'[r].at # "none" => stops'[r].inst \in Instances
    BY <2>1, <2>3, TearDownTypes DEF Busied
  <2>5. /\ iface[Mine(s)] \in Fds /\ Close(iface[Mine(s)]) /\ device' = None
        /\ UNCHANGED <<service, iface, preview, core, pfd, made, history>>
    BY <1>16, <1>a, <2>3 DEF StackFails, Usable
  <2>6. /\ closes' \in [Fds -> 0 .. 2] /\ pfd[iface[Mine(s)]] # "none"
        /\ \A h \in Fds : h # iface[Mine(s)] => closes'[h] = closes[h]
    BY <1>c, <1>e, <2>3, <2>5, CloseCounts DEF Types
  <2>7. Fresh'
    BY <1>c, <2>5, <2>6 DEF Fresh
  <2>8. QED BY <1>a, <2>1, <2>2, <2>4, <2>5, <2>6, <2>7 DEF Types, TypeOK, SlotsFit, Busied
<1>17. ASSUME NEW s \in Slots, MarkTunStarted(s) PROVE Types'
  <2>1. starts[s].at = "mark" /\ StartGoes(s, "publish") /\ Mine(s) \in Instances
    BY <1>17, <1>b, StartStepGoes DEF Mine
  <2>2. /\ starts' \in [Slots -> Coroutines(StartSteps)]
        /\ \A r \in Slots : starts'[r].at # "none" => starts'[r].inst \in Instances
    BY <1>b, <2>1 DEF StartGoes
  <2>3. Fresh'
    BY <1>17, <1>a, <1>c, <2>1 DEF MarkTunStarted, Usable, setRunningState, Fresh
  <2>4. SlotsFit'
    BY <1>17, <1>b, <2>2 DEF MarkTunStarted, setRunningState, SlotsFit, Busied
  <2>5. TypeOK'
    BY <1>17, <1>a, <1>e, <2>1, <2>2 DEF MarkTunStarted, Usable, setRunningState, TypeOK
  <2>6. QED BY <2>3, <2>4, <2>5 DEF Types
<1>18. ASSUME NEW s \in Slots, PublishRunning(s) PROVE Types'
  <2>1. starts[s].at = "publish" /\ StartGoes(s, "finish") /\ Mine(s) \in Instances
    BY <1>18, <1>b, StartStepGoes DEF Mine
  <2>2. /\ starts' \in [Slots -> Coroutines(StartSteps)]
        /\ \A r \in Slots : starts'[r].at # "none" => starts'[r].inst \in Instances
    BY <1>b, <2>1 DEF StartGoes
  <2>3. Fresh'
    BY <1>18, <1>a, <1>c, <2>1 DEF PublishRunning, Usable, setRunningState, Fresh
  <2>4. SlotsFit'
    BY <1>18, <1>b, <2>2 DEF PublishRunning, setRunningState, SlotsFit, Busied
  <2>5. TypeOK'
    BY <1>18, <1>a, <1>e, <2>1, <2>2 DEF PublishRunning, Usable, setRunningState, TypeOK
  <2>6. QED BY <2>3, <2>4, <2>5 DEF Types
<1>19. ASSUME NEW s \in Slots, FinishStart(s) PROVE Types'
  <2>1. starts[s].at = "finish" /\ StartGoes(s, "none") /\ Mine(s) \in Instances
    BY <1>19, <1>b, StartStepGoes DEF Mine
  <2>2. /\ starts' \in [Slots -> Coroutines(StartSteps)]
        /\ \A r \in Slots : starts'[r].at # "none" => starts'[r].inst \in Instances
    BY <1>b, <2>1 DEF StartGoes
  <2>3. Fresh'
    BY <1>19, <1>a, <1>c, <2>1 DEF FinishStart, Usable, setRunningState, Fresh
  <2>4. SlotsFit'
    BY <1>19, <1>b, <2>2 DEF FinishStart, setRunningState, SlotsFit, Busied
  <2>5. TypeOK'
    <3>1. isStarting' \in BOOLEAN
      BY <1>19, <1>a DEF FinishStart, Types
    <3>2. UNCHANGED <<service, isRunning, saved, fields, stops, preview, mobile, descriptors, history>>
      BY <1>19 DEF FinishStart
    <3>3. QED BY <1>a, <2>2, <3>1, <3>2 DEF TypeOK
  <2>6. QED BY <2>3, <2>4, <2>5 DEF Types
<1>20. ASSUME NEW s \in Slots, StopTun(s) PROVE Types'
  <2>1. stops[s].at = "release" /\ StopGoes(s, "clear") /\ stops[s].inst \in Instances
    BY <1>20, <1>b, StopStepGoes
  <2>2. /\ stops' \in [Slots -> Coroutines(StopSteps)]
        /\ \A r \in Slots : stops'[r].at # "none" => stops'[r].inst \in Instances
    BY <1>b, <2>1 DEF StopGoes
  <2>3. /\ device' = None /\ UNCHANGED <<service, companion, fields, starts, preview, core, made, history>>
        /\ IF device = None THEN UNCHANGED closes ELSE Close(device)
        /\ pfd' = LET f == iface[stops[s].inst] IN IF Usable(f) THEN [pfd EXCEPT ![f] = "detached"] ELSE pfd
    BY <1>20 DEF StopTun
  <2>4. /\ closes' \in [Fds -> 0 .. 2]
        /\ \A f \in Fds : f # device => closes'[f] = closes[f]
    BY <1>a, <1>c, <2>3, CloseCounts DEF Types
  <2>5. /\ pfd' \in [Fds -> {"none", "open", "detached", "closed"}]
        /\ \A f \in Fds : pfd'[f] = "none" <=> pfd[f] = "none"
    BY <1>a, <2>1, <2>3 DEF Usable
  <2>6. Fresh'
    BY <1>a, <1>c, <2>3, <2>4, <2>5 DEF Fresh
  <2>7. QED BY <1>a, <1>b, <2>2, <2>3, <2>4, <2>5, <2>6 DEF Types, TypeOK, SlotsFit, Busied
<1>21. ASSUME NEW s \in Slots, CloseInterface(s) PROVE Types'
  <2>1. stops[s].at = "release" /\ StopGoes(s, "clear") /\ stops[s].inst \in Instances
    BY <1>21, <1>b, StopStepGoes
  <2>2. /\ stops' \in [Slots -> Coroutines(StopSteps)]
        /\ \A r \in Slots : stops'[r].at # "none" => stops'[r].inst \in Instances
    BY <1>b, <2>1 DEF StopGoes
  <2> DEFINE f == iface[stops[s].inst]
  <2>3. /\ UNCHANGED <<service, companion, fields, starts, preview, mobile, made, history>>
        /\ \/ UNCHANGED <<pfd, closes>>
           \/ f # None /\ pfd[f] = "open" /\ pfd' = [pfd EXCEPT ![f] = "closed"] /\ Close(f)
    BY <1>21 DEF CloseInterface, Usable
  <2>4. f \in Fds \cup {None}
    BY <1>a, <2>1
  <2> HIDE DEF f
  <2>5. /\ closes' \in [Fds -> 0 .. 2] /\ pfd' \in [Fds -> {"none", "open", "detached", "closed"}]
        /\ \A h \in Fds : (h # f \/ pfd[f] = "none" => closes'[h] = closes[h]) /\ (pfd'[h] = "none" <=> pfd[h] = "none")
    <3>1. CASE UNCHANGED <<pfd, closes>>
      BY <1>a, <3>1
    <3>2. CASE f # None /\ pfd[f] = "open" /\ pfd' = [pfd EXCEPT ![f] = "closed"] /\ Close(f)
      <4>1. f \in Fds
        BY <2>4, <3>2
      <4>2. closes' \in [Fds -> 0 .. 2] /\ \A h \in Fds : h # f => closes'[h] = closes[h]
        BY <3>2, <4>1, CloseCounts DEF Types
      <4>3. QED BY <1>a, <3>2, <4>1, <4>2
    <3>3. QED BY <2>3, <3>1, <3>2
  <2>6. Fresh'
    BY <1>a, <1>c, <2>3, <2>5 DEF Fresh
  <2>7. QED BY <1>a, <1>b, <2>2, <2>3, <2>5, <2>6 DEF Types, TypeOK, SlotsFit, Busied
<1>22. ASSUME NEW s \in Slots, ClearInterface(s) PROVE Types'
  <2>1. stops[s].at = "clear" /\ StopGoes(s, "stopSelf") /\ stops[s].inst \in Instances
    BY <1>22, <1>b, StopStepGoes
  <2>2. /\ stops' \in [Slots -> Coroutines(StopSteps)]
        /\ \A r \in Slots : stops'[r].at # "none" => stops'[r].inst \in Instances
    BY <1>b, <2>1 DEF StopGoes
  <2>3. Fresh' /\ SlotsFit'
    BY <1>22, <1>b, <1>c, <1>e, <2>1, <2>2 DEF ClearInterface, Fresh, SlotsFit, Busied
  <2>4. TypeOK'
    BY <1>22, <1>a, <1>e, <2>1, <2>2 DEF ClearInterface, TypeOK
  <2>5. QED BY <2>3, <2>4 DEF Types
<1>23. ASSUME NEW s \in Slots, StopSelf(s) PROVE Types'
  <2>1. stops[s].at = "stopSelf" /\ StopGoes(s, "stopCore") /\ stops[s].inst \in Instances
    BY <1>23, <1>b, StopStepGoes
  <2>2. /\ stops' \in [Slots -> Coroutines(StopSteps)]
        /\ \A r \in Slots : stops'[r].at # "none" => stops'[r].inst \in Instances
    BY <1>b, <2>1 DEF StopGoes
  <2>3. Fresh' /\ SlotsFit'
    BY <1>23, <1>b, <1>c, <1>e, <2>1, <2>2 DEF StopSelf, Fresh, SlotsFit, Busied
  <2>4. TypeOK'
    BY <1>23, StoppedType, <1>a, <1>e, <2>1, <2>2 DEF StopSelf, TypeOK
  <2>5. QED BY <2>3, <2>4 DEF Types
<1>24. ASSUME NEW s \in Slots, StopCore(s) PROVE Types'
  <2>1. stops[s].at = "stopCore" /\ StopGoes(s, "none") /\ stops[s].inst \in Instances
    BY <1>24, <1>b, StopStepGoes
  <2>2. /\ stops' \in [Slots -> Coroutines(StopSteps)]
        /\ \A r \in Slots : stops'[r].at # "none" => stops'[r].inst \in Instances
    BY <1>b, <2>1 DEF StopGoes
  <2>3. Fresh' /\ SlotsFit'
    BY <1>24, <1>b, <1>c, <1>e, <2>1, <2>2 DEF StopCore, Fresh, SlotsFit, Busied
  <2>4. TypeOK'
    <3>1. core' \in BOOLEAN
      BY <1>24, <1>a DEF StopCore, Types
    <3>2. UNCHANGED <<service, companion, fields, starts, preview, device, descriptors, history>>
      BY <1>24 DEF StopCore
    <3>3. QED BY <1>a, <2>2, <3>1, <3>2 DEF TypeOK
  <2>5. QED BY <2>3, <2>4 DEF Types
<1>25. ASSUME Preview PROVE Types'
  BY <1>25, <1>a, <1>b, <1>c, <1>f DEF Preview, PreviewGoto, Types, TypeOK, SlotsFit, Fresh, Busied
<1>26. ASSUME PreviewCheck PROVE Types'
  BY <1>26, <1>a, <1>b, <1>c, <1>f DEF PreviewCheck, PreviewGoto, Types, TypeOK, SlotsFit, Fresh, Busied
<1>27. ASSUME PreviewReload PROVE Types'
  BY <1>27, <1>a, <1>b, <1>c, <1>f DEF PreviewReload, PreviewGoto, Types, TypeOK, SlotsFit, Fresh, Busied
<1>28. ASSUME PreviewEnter PROVE Types'
  BY <1>28, <1>a, <1>b, <1>c, <1>f DEF PreviewEnter, PreviewGoto, Types, TypeOK, SlotsFit, Fresh, Busied
<1>29. ASSUME PreviewRefused PROVE Types'
  BY <1>29, <1>a, <1>b, <1>c, <1>f DEF PreviewRefused, PreviewGoto, Types, TypeOK, SlotsFit, Fresh, Busied
<1>30. ASSUME PreviewStarted PROVE Types'
  BY <1>30, <1>a, <1>b, <1>c, <1>f DEF PreviewStarted, PreviewGoto, Types, TypeOK, SlotsFit, Fresh, Busied
<1>31. ASSUME ProcessDies PROVE Types'
  <2>1. /\ NoCoroutine \in [Slots -> Coroutines(StartSteps)] /\ NoCoroutine \in [Slots -> Coroutines(StopSteps)]
        /\ \A s \in Slots : NoCoroutine[s].at = "none"
    BY DEF NoCoroutine, Free, Coroutines
  <2>2. Nothing \in [Instances -> Fds \cup {None}] /\ Unset \in [Instances -> BOOLEAN] /\ \A i \in Instances : Nothing[i] = None
    BY DEF Nothing, Unset
  <2>3. pfd' \in [Fds -> {"none", "open", "detached", "closed"}] /\ closes' \in [Fds -> 0 .. 2] /\ deaths' \in 0 .. MaxDeaths
    BY <1>31, <1>a, <1>d DEF ProcessDies
  <2>4. Fresh'
    BY <1>31, <1>c, <2>2 DEF ProcessDies, Fresh
  <2>5. QED BY <1>31, <1>a, <2>1, <2>2, <2>3, <2>4 DEF ProcessDies, Types, TypeOK, SlotsFit, Busied
<1>32. ASSUME StickyRestart PROVE Types'
  BY <1>32, <1>a, <1>b, <1>c, <1>d, <1>e DEF StickyRestart, Types, TypeOK, SlotsFit, Fresh, Busied
<1>33. ASSUME UNCHANGED vars PROVE Types'
  BY <1>33 DEF vars, Types, TypeOK, SlotsFit, Fresh, Busied
<1>34. QED
  BY <1>1, <1>2, <1>3, <1>4, <1>5, <1>6, <1>7, <1>8, <1>9, <1>10, <1>11, <1>12, <1>13, <1>14, <1>15, <1>16, <1>17, <1>18, <1>19, <1>20, <1>21, <1>22, <1>23, <1>24, <1>25, <1>26, <1>27, <1>28, <1>29, <1>30, <1>31, <1>32, <1>33
  DEF Next, StartStep, StopStep, PreviewStep

-----------------------------------------------------------------------------
(* Whatever stops, fails or is destroyed meanwhile, the flag that a start  *)
(* is under way has its start.                                             *)
LEMMA StarterInductive ==
    ASSUME Types, StarterStays, [Next]_vars
    PROVE  StarterStays'
<1> USE DEF service, companion, fields, coroutines, mobile, descriptors, history
<1>a. ASSUME UNCHANGED <<isStarting, isStopping, starts>> PROVE StarterStays'
  BY <1>a DEF StarterStays, Busied
<1>b. /\ isStopping \in [Instances -> BOOLEAN]
      /\ \A s \in Slots : starts[s].at # "none" => starts[s].inst \in Instances
  BY DEF Types, TypeOK, SlotsFit, Busied
<1>1. ASSUME NEW i \in Instances, startVpn(i) PROVE StarterStays'
  <2>1. CASE UNCHANGED <<isStarting, isStopping, starts>>
    BY <1>a, <2>1
  <2>2. CASE /\ isStarting' = TRUE /\ isStopping' = [isStopping EXCEPT ![i] = FALSE]
             /\ \E s \in Slots : Vacant(starts, s) /\ starts' = Launch(starts, s, i, "launched", FALSE)
    <3>1. PICK s \in Slots : StartBegins(s, i)
      BY <2>2, StartLaunched DEF Types
    <3>2. QED BY <1>b, <2>2, <3>1 DEF StarterStays, StartBegins, Busied
  <2>3. QED BY <1>1, <2>1, <2>2 DEF startVpn
<1>2. ASSUME NEW i \in Instances, StopCommand(i) PROVE StarterStays'
  <2>1. TearDown(i) /\ isStarting' = (isStarting /\ isStopping[i]) /\ UNCHANGED starts
    BY <1>2 DEF StopCommand, stopVpn, AlreadyStopping
  <2>2. TornDown(i) \/ LeftAlone(i)
    BY <2>1, TearDownCases DEF Types
  <2>3. QED BY <2>1, <2>2 DEF TornDown, LeftAlone, StarterStays, Busied
<1>3. ASSUME onRevoke PROVE StarterStays'
  <2>1. TearDown(inst) /\ isStarting' = (isStarting /\ isStopping[inst]) /\ UNCHANGED starts /\ inst \in Instances
    BY <1>3 DEF onRevoke, stopVpn, AlreadyStopping, Types, TypeOK
  <2>2. TornDown(inst) \/ LeftAlone(inst)
    BY <2>1, TearDownCases DEF Types
  <2>3. QED BY <2>1, <2>2 DEF TornDown, LeftAlone, StarterStays, Busied
<1>4. ASSUME onDestroy PROVE StarterStays'
  <2>1. /\ TearDown(inst) /\ isStarting' = (isStarting /\ isStopping[inst]) /\ inst \in Instances
        /\ \A s \in Slots : starts[s].inst # inst => starts'[s] = starts[s]
    BY <1>4 DEF onDestroy, stopVpn, AlreadyStopping, Types, TypeOK
  <2>2. TornDown(inst) \/ LeftAlone(inst)
    BY <2>1, TearDownCases DEF Types
  <2>3. QED BY <2>1, <2>2 DEF TornDown, LeftAlone, StarterStays, Busied
<1>5. ASSUME NEW s \in Slots, Establish(s) PROVE StarterStays'
  <2>1. starts[s].at = "launched" /\ StartGoes(s, "check") /\ UNCHANGED <<isStarting, isStopping>>
    BY <1>5, StartStepGoes DEF Establish, setRunningState
  <2>2. QED BY <2>1 DEF StarterStays, StartGoes, Busied
<1>6. ASSUME NEW s \in Slots, EstablishNull(s) PROVE StarterStays'
  BY <1>6 DEF EstablishNull, StarterStays
<1>7. ASSUME NEW s \in Slots, EstablishFails(s) PROVE StarterStays'
  BY <1>7, StartStepGoes DEF StarterStays
<1>8. ASSUME NEW s \in Slots, CheckCore(s) PROVE StarterStays'
  <2>1. starts[s].at = "check" /\ StartGoes(s, IF core THEN "reload" ELSE "startCore") /\ UNCHANGED <<isStarting, isStopping>>
    BY <1>8, StartStepGoes DEF CheckCore, setRunningState
  <2>2. QED BY <2>1 DEF StarterStays, StartGoes, Busied
<1>9. ASSUME NEW s \in Slots, ReloadCore(s) PROVE StarterStays'
  <2>1. starts[s].at = "reload" /\ StartGoes(s, "startTun") /\ UNCHANGED <<isStarting, isStopping>>
    BY <1>9, StartStepGoes DEF ReloadCore, setRunningState
  <2>2. QED BY <2>1 DEF StarterStays, StartGoes, Busied
<1>10. ASSUME NEW s \in Slots, EnterCore(s) PROVE StarterStays'
  <2>1. starts[s].at = "startCore" /\ StartGoes(s, "applying") /\ UNCHANGED <<isStarting, isStopping>>
    BY <1>10, StartStepGoes DEF EnterCore, setRunningState
  <2>2. QED BY <2>1 DEF StarterStays, StartGoes, Busied
<1>11. ASSUME NEW s \in Slots, CoreStarted(s) PROVE StarterStays'
  <2>1. starts[s].at = "applying" /\ StartGoes(s, "startTun") /\ UNCHANGED <<isStarting, isStopping>>
    BY <1>11, StartStepGoes DEF CoreStarted, setRunningState
  <2>2. QED BY <2>1 DEF StarterStays, StartGoes, Busied
<1>12. ASSUME NEW s \in Slots, ConfigFails(s) PROVE StarterStays'
  BY <1>12, StartStepGoes DEF StarterStays
<1>13. ASSUME NEW s \in Slots, StartTun(s) PROVE StarterStays'
  <2>1. starts[s].at = "startTun" /\ StartGoes(s, "mark") /\ UNCHANGED <<isStarting, isStopping>>
    BY <1>13, StartStepGoes DEF StartTun, setRunningState
  <2>2. QED BY <2>1 DEF StarterStays, StartGoes, Busied
<1>14. ASSUME NEW s \in Slots, SkipTun(s) PROVE StarterStays'
  <2>1. starts[s].at = "startTun" /\ StartGoes(s, "publish") /\ UNCHANGED <<isStarting, isStopping>>
    BY <1>14, StartStepGoes DEF SkipTun, setRunningState
  <2>2. QED BY <2>1 DEF StarterStays, StartGoes, Busied
<1>15. ASSUME NEW s \in Slots, StartTunFails(s) PROVE StarterStays'
  BY <1>15, StartStepGoes DEF StarterStays
<1>16. ASSUME NEW s \in Slots, StackFails(s) PROVE StarterStays'
  BY <1>16, StartStepGoes DEF StarterStays
<1>17. ASSUME NEW s \in Slots, MarkTunStarted(s) PROVE StarterStays'
  <2>1. starts[s].at = "mark" /\ StartGoes(s, "publish") /\ UNCHANGED <<isStarting, isStopping>>
    BY <1>17, StartStepGoes DEF MarkTunStarted, setRunningState
  <2>2. QED BY <2>1 DEF StarterStays, StartGoes, Busied
<1>18. ASSUME NEW s \in Slots, PublishRunning(s) PROVE StarterStays'
  <2>1. starts[s].at = "publish" /\ StartGoes(s, "finish") /\ UNCHANGED <<isStarting, isStopping>>
    BY <1>18, StartStepGoes DEF PublishRunning, setRunningState
  <2>2. QED BY <2>1 DEF StarterStays, StartGoes, Busied
<1>19. ASSUME NEW s \in Slots, FinishStart(s) PROVE StarterStays'
  BY <1>19 DEF FinishStart, StarterStays
<1>20. ASSUME NEW s \in Slots, StopTun(s) PROVE StarterStays'
  BY <1>20, <1>a DEF StopTun
<1>21. ASSUME NEW s \in Slots, CloseInterface(s) PROVE StarterStays'
  BY <1>21, <1>a DEF CloseInterface
<1>22. ASSUME NEW s \in Slots, ClearInterface(s) PROVE StarterStays'
  BY <1>22, <1>a DEF ClearInterface
<1>23. ASSUME NEW s \in Slots, StopSelf(s) PROVE StarterStays'
  BY <1>23, <1>a DEF StopSelf
<1>24. ASSUME NEW s \in Slots, StopCore(s) PROVE StarterStays'
  BY <1>24, <1>a DEF StopCore
<1>25. ASSUME Preview PROVE StarterStays'
  BY <1>25, <1>a DEF Preview, PreviewGoto
<1>26. ASSUME PreviewCheck PROVE StarterStays'
  BY <1>26, <1>a DEF PreviewCheck, PreviewGoto
<1>27. ASSUME PreviewReload PROVE StarterStays'
  BY <1>27, <1>a DEF PreviewReload, PreviewGoto
<1>28. ASSUME PreviewEnter PROVE StarterStays'
  BY <1>28, <1>a DEF PreviewEnter, PreviewGoto
<1>29. ASSUME PreviewRefused PROVE StarterStays'
  BY <1>29, <1>a DEF PreviewRefused, PreviewGoto
<1>30. ASSUME PreviewStarted PROVE StarterStays'
  BY <1>30, <1>a DEF PreviewStarted, PreviewGoto
<1>31. ASSUME ProcessDies PROVE StarterStays'
  BY <1>31 DEF ProcessDies, StarterStays
<1>32. ASSUME StickyRestart PROVE StarterStays'
  BY <1>32, <1>a DEF StickyRestart
<1>33. ASSUME UNCHANGED vars PROVE StarterStays'
  BY <1>33, <1>a DEF vars
<1>34. QED
  BY <1>1, <1>2, <1>3, <1>4, <1>5, <1>6, <1>7, <1>8, <1>9, <1>10, <1>11, <1>12, <1>13, <1>14, <1>15, <1>16, <1>17, <1>18, <1>19, <1>20, <1>21, <1>22, <1>23, <1>24, <1>25, <1>26, <1>27, <1>28, <1>29, <1>30, <1>31, <1>32, <1>33
  DEF Next, StartStep, StopStep, PreviewStep

-----------------------------------------------------------------------------
(* Of commands that do not overlap, a start is alone. *)
LEMMA StartAlone ==
    ASSUME Types, Orderly, ~overlap, NEW s \in Slots, starts[s].at # "none"
    PROVE  /\ StartFits(s) /\ inst \in Instances /\ starts[s].inst = inst /\ ~isStopping[inst] /\ ~dying
           /\ preview = "none" /\ \A r \in Slots : stops[r].at = "none"
           /\ \A r \in Slots : r # s => starts[r].at = "none"
BY DEF Types, SlotsFit, Orderly, StartFits, Busy, Busied

(* So is a stop. *)
LEMMA StopAlone ==
    ASSUME Types, Orderly, ~overlap, NEW s \in Slots, stops[s].at # "none"
    PROVE  /\ StopFits(s) /\ stops[s].inst \in Instances /\ preview = "none"
           /\ \A r \in Slots : starts[r].at = "none"
           /\ \A r \in Slots : r # s => stops[r].at = "none"
BY DEF Types, SlotsFit, Orderly, StopFits, Busy, Busied

(* A start goes on, and only what it is about has to be looked at. *)
LEMMA StartGoesOn ==
    ASSUME Types, Orderly, NEW s \in Slots, starts[s].at # "none", NEW step, step # "none", StartGoes(s, step),
           UNCHANGED <<stops, preview, overlap>>, ~overlap => StartFits(s)'
    PROVE  Orderly'
<1>1. SUFFICES ASSUME ~overlap PROVE Orderly'
  BY DEF Orderly
<1>2. /\ preview' = "none" /\ \A r \in Slots : stops'[r].at = "none"
      /\ \A r \in Slots : r # s => starts'[r].at = "none"
      /\ starts'[s].at # "none" /\ ~dying'
  BY <1>1, StartAlone DEF StartGoes, StartFits
<1>3. QED BY <1>1, <1>2 DEF Orderly, Busy, Busied

(* A start that fails is torn down, which closes what it has opened.       *)
LEMMA StartFailed ==
    ASSUME Types, Orderly, NEW s \in Slots, starts[s].at # "none", StartGoes(s, "none"), TearDown(starts[s].inst),
           UNCHANGED <<service, preview, iface, overlap>>, starts[s].at \notin {"publish", "finish"},
           ~overlap => device' = None /\ \A f \in Fds : Open(f)' => f = iface[inst] /\ pfd'[f] = "open"
    PROVE  Orderly'
<1>1. SUFFICES ASSUME ~overlap PROVE Orderly'
  BY DEF Orderly
<1>2. /\ StartFits(s) /\ inst \in Instances /\ starts[s].inst = inst /\ ~isStopping[inst] /\ ~dying
      /\ preview = "none" /\ \A r \in Slots : stops[r].at = "none"
      /\ \A r \in Slots : r # s => starts[r].at = "none"
  BY <1>1, StartAlone
<1>3. TornDown(inst)
  BY <1>2, TearDownCases DEF Types, LeftAlone
<1>4. PICK r \in Slots : StopBegins(r, inst)
  BY <1>3 DEF TornDown
<1>5. NoTun /\ tunStarted \in [Instances -> BOOLEAN] /\ isStopping \in [Instances -> BOOLEAN]
  BY <1>2 DEF StartFits, Types, TypeOK
<1>6. /\ \A q \in Slots : starts'[q].at = "none" /\ (q # r => stops'[q].at = "none")
      /\ preview' = "none" /\ dying' = FALSE /\ inst' = inst
  BY <1>2, <1>4 DEF StartGoes, StopBegins, service
<1>7. StopFits(r)'
  BY <1>1, <1>2, <1>3, <1>4, <1>5, <1>6 DEF StopFits, TornDown, StopBegins, NoTun, Busied
<1>8. QED BY <1>4, <1>6, <1>7 DEF Orderly, Busy, Busied, StopBegins

(* A stop goes on; when it has ended, the VPN is down.                     *)
LEMMA StopGoesOn ==
    ASSUME Types, Orderly, NEW s \in Slots, stops[s].at # "none", NEW step, StopGoes(s, step),
           UNCHANGED <<inst, companion, isStopping, tunStarted, starts, preview, overlap>>,
           dying' => dying \/ stops[s].inst = inst,
           ~overlap => /\ step # "none" => StopFits(s)'
                       /\ step = "none" => Released'
    PROVE  Orderly'
<1>1. SUFFICES ASSUME ~overlap PROVE Orderly'
  BY DEF Orderly
<1>2. /\ StopFits(s) /\ preview = "none" /\ \A r \in Slots : starts[r].at = "none"
      /\ \A r \in Slots : r # s => stops[r].at = "none"
  BY <1>1, StopAlone
<1>3. dying => isStopping[inst]
  BY <1>1 DEF Orderly, Busy
<1>4. /\ preview' = "none" /\ isRunning' = FALSE /\ NoTun' /\ (dying' => isStopping'[inst'])
      /\ \A r \in Slots : starts'[r].at = "none" /\ (r # s => stops'[r].at = "none")
  BY <1>2, <1>3 DEF StopGoes, StopFits, companion, NoTun, Types, TypeOK
<1>5. CASE step = "none"
  BY <1>1, <1>4, <1>5 DEF Orderly, Busy, Busied, RestFits, StopGoes
<1>6. CASE step # "none"
  BY <1>1, <1>4, <1>6 DEF Orderly, Busy, Busied, StopGoes
<1>7. QED BY <1>5, <1>6

(* At rest a stop finds the VPN up and closes it, or down.                 *)
LEMMA StopBegun ==
    ASSUME Types, RestFits, NEW i \in Instances, TornDown(i), UNCHANGED <<iface, mobile, descriptors>>,
           isRunning => i = inst, \A r \in Slots : stops[r].at = "none"
    PROVE  \E s \in Slots : /\ StopFits(s)' /\ stops'[s].at # "none" /\ stops'[s].inst = i
                            /\ \A r \in Slots : r # s => stops'[r].at = "none"
<1>1. PICK s \in Slots : StopBegins(s, i)
  BY DEF TornDown
<1>2. tunStarted \in [Instances -> BOOLEAN] /\ isStopping \in [Instances -> BOOLEAN]
  BY DEF Types, TypeOK
<1>3. isStopping'[i] /\ ~isRunning' /\ \A r \in Slots : r # s => stops'[r].at = "none"
  BY <1>1, <1>2 DEF TornDown, StopBegins
<1>4. NoTun'
  BY <1>2 DEF TornDown, RestFits, NoTun, OnlyTun
<1>5. stops'[s].at = "release" /\ stops'[s].inst = i /\ stops'[s].native = tunStarted[i]
  BY <1>1 DEF StopBegins
<1>6. CASE isRunning
  <2>1. tunStarted[i] /\ device' # None /\ OnlyOpen(device)'
    BY <1>6 DEF RestFits, Released, Open, Holds, IsUp, OnlyOpen, NoTun, OnlyTun, mobile, descriptors
  <2>2. QED BY <1>3, <1>4, <1>5, <2>1 DEF StopFits, Busied
<1>7. CASE ~isRunning
  <2>1. ~tunStarted[i] /\ device' = None /\ \A f \in Fds : ~Open(f)'
    BY <1>7 DEF RestFits, Released, NoTun, Open, mobile, descriptors
  <2>2. QED BY <1>3, <1>4, <1>5, <2>1 DEF StopFits, Busied
<1>8. QED BY <1>6, <1>7

(* A command that overlaps no other one finds no coroutine. *)
LEMMA CommandAtRest ==
    ASSUME Types, Orderly, Command, ~overlap'
    PROVE  /\ ~overlap /\ RestFits /\ preview = "none" /\ ~dying
           /\ \A s \in Slots : starts[s].at = "none" /\ stops[s].at = "none"
BY DEF Command, InFlight, Orderly, Busy, Types, TypeOK

(* A stop command at rest. *)
LEMMA StopsAtRest ==
    ASSUME Types, Orderly, Command, NEW i \in Instances, TearDown(i), inst # None => i = inst,
           UNCHANGED <<iface, starts, preview, mobile, descriptors>>, dying' = dying, isRunning => inst' = inst
    PROVE  Orderly'
<1>1. SUFFICES ASSUME ~overlap' PROVE Orderly'
  BY DEF Orderly
<1>2. /\ RestFits /\ preview = "none" /\ ~dying
      /\ \A s \in Slots : starts[s].at = "none" /\ stops[s].at = "none"
  BY <1>1, CommandAtRest
<1>3. isRunning => i = inst
  BY <1>2 DEF RestFits
<1>4. CASE TornDown(i)
  <2>1. PICK s \in Slots : /\ StopFits(s)' /\ stops'[s].at # "none" /\ stops'[s].inst = i
                           /\ \A r \in Slots : r # s => stops'[r].at = "none"
    BY <1>2, <1>3, <1>4, StopBegun
  <2>2. preview' = "none" /\ ~dying' /\ \A r \in Slots : starts'[r].at = "none"
    BY <1>2
  <2>3. QED BY <2>1, <2>2 DEF Orderly, Busy, Busied
<1>5. CASE LeftAlone(i)
  <2>1. ~isRunning
    BY <1>2, <1>3, <1>5 DEF LeftAlone, RestFits
  <2>2. RestFits'
    BY <1>2, <1>5, <2>1 DEF LeftAlone, RestFits, Released, NoTun, Open, mobile, descriptors
  <2>3. preview' = "none" /\ ~dying' /\ \A r \in Slots : starts'[r].at = "none" /\ stops'[r].at = "none"
    BY <1>2, <1>5 DEF LeftAlone
  <2>4. QED BY <2>2, <2>3 DEF Orderly, Busy, Busied
<1>6. QED BY <1>4, <1>5, TearDownCases DEF Types

(* However a start ends and a stop begins, commands that do not overlap    *)
(* find the VPN up or down, and leave it so.                               *)
LEMMA OrderlyInductive ==
    ASSUME Types, Orderly, [Next]_vars
    PROVE  Orderly'
<1> USE DEF service, companion, fields, coroutines, mobile, descriptors, history
<1>a. ASSUME UNCHANGED <<inst, dying, isRunning, isStopping, tunStarted, iface, starts, stops, device, pfd, closes, overlap>>,
             preview' = "none" \/ preview # "none", core => core'
      PROVE  Orderly'
  BY <1>a DEF Orderly, Busy, Busied, StartFits, StopFits, RestFits, Released, Open, Holds, IsUp, OnlyOpen, NoTun, OnlyTun
<1>b. /\ isStopping \in [Instances -> BOOLEAN] /\ tunStarted \in [Instances -> BOOLEAN]
      /\ iface \in [Instances -> Fds \cup {None}] /\ device \in Fds \cup {None}
      /\ pfd \in [Fds -> {"none", "open", "detached", "closed"}] /\ closes \in [Fds -> 0 .. 2]
      /\ None \notin Fds /\ overlap \in BOOLEAN
  BY Steps DEF Types, TypeOK
<1>1. ASSUME NEW i \in Instances, startVpn(i) PROVE Orderly'
  <2>1. SUFFICES ASSUME ~overlap' PROVE Orderly'
    BY DEF Orderly
  <2>2. /\ RestFits /\ preview = "none" /\ ~dying
        /\ \A s \in Slots : starts[s].at = "none" /\ stops[s].at = "none"
    BY <1>1, <2>1, CommandAtRest DEF startVpn
  <2>3. /\ inst' = i /\ dying' = FALSE /\ (inst # None => i = inst)
        /\ UNCHANGED <<isRunning, saved, iface, tunStarted, stops, preview, mobile, descriptors>>
    BY <1>1 DEF startVpn, Deliver
  <2>4. CASE Starts
    <3>1. PICK s \in Slots : StartBegins(s, i)
      BY <1>1, <2>4, StartLaunched DEF startVpn, Types
    <3>2. ~isRunning /\ Released /\ NoTun /\ ~isStopping'[i]
      BY <1>1, <1>b, <2>2, <2>4 DEF startVpn, Starts, RestFits
    <3>3. starts'[s].at = "launched" /\ starts'[s].inst = i /\ \A r \in Slots : r # s => starts'[r].at = "none"
      BY <2>2, <3>1 DEF StartBegins
    <3>4. StartFits(s)'
      BY <2>3, <3>2, <3>3 DEF StartFits, Released, Open, NoTun, Busied
    <3>5. QED BY <2>2, <2>3, <3>3, <3>4 DEF Orderly, Busy, Busied
  <2>5. CASE ~Starts
    <3>1. UNCHANGED <<isStopping, starts>>
      BY <1>1, <2>5 DEF startVpn
    <3>2. RestFits'
      BY <2>2, <2>3, <3>1 DEF RestFits, Released, Open, Holds, IsUp, OnlyOpen, NoTun, OnlyTun
    <3>3. QED BY <2>2, <2>3, <3>1, <3>2 DEF Orderly, Busy, Busied
  <2>6. QED BY <2>4, <2>5
<1>2. ASSUME NEW i \in Instances, StopCommand(i) PROVE Orderly'
  <2>1. /\ Command /\ TearDown(i) /\ inst' = i /\ (inst # None => i = inst) /\ dying' = dying
        /\ UNCHANGED <<iface, starts, preview, mobile, descriptors>>
    BY <1>2 DEF StopCommand, stopVpn, Deliver
  <2>2. SUFFICES ASSUME ~overlap' PROVE Orderly'
    BY DEF Orderly
  <2>3. isRunning => inst # None
    BY <2>1, <2>2, CommandAtRest DEF RestFits
  <2>4. QED BY <2>1, <2>3, StopsAtRest
<1>3. ASSUME onRevoke PROVE Orderly'
  <2>1. /\ Command /\ TearDown(inst) /\ inst' = inst /\ inst \in Instances /\ dying' = dying
        /\ UNCHANGED <<iface, starts, preview, mobile, descriptors>>
    BY <1>3 DEF onRevoke, stopVpn, Types, TypeOK
  <2>2. QED BY <2>1, StopsAtRest
<1>4. ASSUME onDestroy PROVE Orderly'
  <2>1. /\ inst \in Instances /\ dying /\ TearDown(inst) /\ inst' = None /\ dying' = FALSE
        /\ starts' = [s \in Slots |-> IF starts[s].inst = inst /\ starts[s].at = "launched" THEN Free ELSE starts[s]]
        /\ UNCHANGED <<created, iface, preview, mobile, descriptors, history>>
    BY <1>4 DEF onDestroy, stopVpn, Types, TypeOK
  <2>2. SUFFICES ASSUME ~overlap PROVE Orderly'
    BY <2>1 DEF Orderly
  <2>3. /\ preview = "none" /\ ~isRunning /\ (Busy(stops) => isStopping[inst])
        /\ \A s \in Slots : starts[s].at = "none"
    BY <2>1, <2>2, StartAlone DEF Orderly
  <2>4. \A s \in Slots : starts'[s].at = "none"
    BY <2>1, <2>3 DEF Free
  <2>5. CASE TornDown(inst)
    <3>1. RestFits /\ \A s \in Slots : stops[s].at = "none"
      BY <2>2, <2>3, <2>5 DEF TornDown, Orderly, Busy
    <3>2. PICK s \in Slots : /\ StopFits(s)' /\ stops'[s].at # "none" /\ stops'[s].inst = inst
                             /\ \A r \in Slots : r # s => stops'[r].at = "none"
      BY <2>1, <2>3, <2>5, <3>1, StopBegun
    <3>3. QED BY <2>1, <2>3, <2>4, <3>2 DEF Orderly, Busy, Busied
  <2>6. CASE LeftAlone(inst)
    <3>1. \A s \in Slots : stops[s].at # "none" => StopFits(s)'
      BY <2>1, <2>2, <2>6, StopAlone DEF LeftAlone, StopFits, Busied, NoTun, Released, Open, OnlyOpen
    <3>2. ~Busy(stops) => RestFits'
      BY <2>1, <2>2, <2>3, <2>6 DEF LeftAlone, Orderly, Busy, RestFits, NoTun, Released, Open
    <3>3. UNCHANGED stops /\ ~isRunning' /\ ~dying' /\ preview' = "none"
      BY <2>1, <2>3, <2>6 DEF LeftAlone
    <3>4. QED BY <2>4, <3>1, <3>2, <3>3 DEF Orderly, Busy, Busied
  <2>7. QED BY <2>1, <2>5, <2>6, TearDownCases DEF Types
<1>5. ASSUME NEW s \in Slots, Establish(s) PROVE Orderly'
  <2>1. starts[s].at = "launched" /\ StartGoes(s, "check")
    BY <1>5, StartStepGoes
  <2>2. ASSUME ~overlap PROVE StartFits(s)'
    <3>1. StartFits(s) /\ inst \in Instances /\ starts[s].inst = inst /\ \A r \in Slots : r # s => starts[r].at = "none"
      BY <2>1, <2>2, StartAlone
    <3>2. starts'[s].at = "check" /\ starts'[s].inst = inst /\ \A r \in Slots : r # s => starts'[r].at = "none"
      BY <2>1, <3>1 DEF StartGoes
    <3>3. /\ made \in 0 .. MaxFds /\ made + 1 \in Fds /\ pfd[made + 1] = "none" /\ closes[made + 1] = 0
      BY <1>5, BoundAssumption DEF Establish, Types, TypeOK, Fresh, Fds
    <3>4. /\ pfd' = [pfd EXCEPT ![made + 1] = "open"] /\ iface'[inst] = made + 1 /\ UNCHANGED <<inst, closes, device>>
      BY <1>5, <1>b, <3>1 DEF Establish, Mine
    <3>5. made + 1 # None
      BY <1>b, <3>3
    <3>6. Holds(inst)' /\ device' = None
      BY <1>b, <2>1, <3>1, <3>3, <3>4, <3>5 DEF StartFits, Holds, OnlyOpen, Open, Released
    <3>7. QED BY <1>5, <2>1, <3>1, <3>2, <3>6 DEF Establish, StartFits, NoTun, Busied
  <2>3. UNCHANGED <<stops, preview, overlap>>
    BY <1>5 DEF Establish
  <2>4. QED BY <2>1, <2>2, <2>3, StartGoesOn
<1>6. ASSUME NEW s \in Slots, EstablishNull(s) PROVE Orderly'
  <2>1. starts[s].at = "launched" /\ StartGoes(s, "none")
    BY <1>6, StartStepGoes
  <2>2. SUFFICES ASSUME ~overlap PROVE Orderly'
    BY <1>6 DEF EstablishNull, Orderly
  <2>3. /\ StartFits(s) /\ preview = "none" /\ \A r \in Slots : stops[r].at = "none"
        /\ \A r \in Slots : r # s => starts[r].at = "none"
    BY <2>1, <2>2, StartAlone
  <2>4. /\ ~isRunning' /\ Released' /\ NoTun' /\ preview' = "none"
        /\ \A r \in Slots : starts'[r].at = "none" /\ stops'[r].at = "none"
    BY <1>6, <2>1, <2>3 DEF EstablishNull, StartGoes, StartFits, Released, Open, NoTun
  <2>5. QED BY <2>4 DEF Orderly, Busy, Busied, RestFits
<1>7. ASSUME NEW s \in Slots, EstablishFails(s) PROVE Orderly'
  <2>1. starts[s].at # "none" /\ StartGoes(s, "none") /\ TearDown(starts[s].inst)
    BY <1>7, StartStepGoes
  <2>2. starts[s].at \in {"launched", "check", "reload", "startCore", "startTun"} /\ UNCHANGED <<service, preview, iface, overlap>>
    BY <1>7 DEF EstablishFails, At
  <2>3. ASSUME ~overlap PROVE device' = None /\ \A f \in Fds : Open(f)' => f = iface[inst] /\ pfd'[f] = "open"
    <3>1. StartFits(s) /\ inst \in Instances /\ starts[s].inst = inst
      BY <2>1, <2>3, StartAlone
    <3>2. device = None /\ device' = None /\ UNCHANGED <<pfd, closes>>
      BY <1>7, <2>2, <3>1 DEF EstablishFails, At, StartFits, Released
    <3>3. \A f \in Fds : Open(f) => f = iface[inst] /\ pfd[f] = "open"
      BY <2>2, <3>1 DEF StartFits, Released, Open, Holds, IsUp, OnlyOpen, NoTun, OnlyTun
    <3>4. QED BY <3>2, <3>3 DEF Open
  <2>4. QED BY <2>1, <2>2, <2>3, StartFailed
<1>8. ASSUME NEW s \in Slots, CheckCore(s) PROVE Orderly'
  <2>1. starts[s].at = "check" /\ StartGoes(s, IF core THEN "reload" ELSE "startCore")
    BY <1>8, StartStepGoes
  <2>2. ASSUME ~overlap PROVE StartFits(s)'
    <3>1. StartFits(s) /\ inst \in Instances /\ starts[s].inst = inst /\ \A r \in Slots : r # s => starts[r].at = "none"
      BY <2>1, <2>2, StartAlone
    <3>2. starts'[s].at = (IF core THEN "reload" ELSE "startCore") /\ starts'[s].inst = inst /\ \A r \in Slots : r # s => starts'[r].at = "none"
      BY <2>1, <3>1 DEF StartGoes
    <3>3. CASE core
      <4>1. starts'[s].at = "reload"
        BY <3>2, <3>3
      <4>2. QED BY <1>8, <2>1, <3>1, <3>2, <3>3, <4>1 DEF CheckCore, StartFits, Busied, Released, Open, Holds, IsUp, OnlyOpen, NoTun, OnlyTun
    <3>4. CASE ~core
      <4>1. starts'[s].at = "startCore"
        BY <3>2, <3>4
      <4>2. QED BY <1>8, <2>1, <3>1, <3>2, <4>1 DEF CheckCore, StartFits, Busied, Released, Open, Holds, IsUp, OnlyOpen, NoTun, OnlyTun
    <3>5. QED BY <3>3, <3>4
  <2>3. UNCHANGED <<stops, preview, overlap>>
    BY <1>8 DEF CheckCore
  <2>4. QED BY <2>1, <2>2, <2>3, StartGoesOn
<1>9. ASSUME NEW s \in Slots, ReloadCore(s) PROVE Orderly'
  <2>1. starts[s].at = "reload" /\ StartGoes(s, "startTun")
    BY <1>9, StartStepGoes
  <2>2. ASSUME ~overlap PROVE StartFits(s)'
    <3>1. StartFits(s) /\ inst \in Instances /\ starts[s].inst = inst /\ \A r \in Slots : r # s => starts[r].at = "none"
      BY <2>1, <2>2, StartAlone
    <3>2. starts'[s].at = "startTun" /\ starts'[s].inst = inst /\ \A r \in Slots : r # s => starts'[r].at = "none"
      BY <2>1, <3>1 DEF StartGoes
    <3>3. QED BY <1>9, <1>b, <2>1, <3>1, <3>2 DEF ReloadCore, StartFits, Busied, Mine, Usable, setRunningState, Released, Open, Holds, IsUp, OnlyOpen, NoTun, OnlyTun
  <2>3. UNCHANGED <<stops, preview, overlap>>
    BY <1>9 DEF ReloadCore
  <2>4. QED BY <2>1, <2>2, <2>3, StartGoesOn
<1>10. ASSUME NEW s \in Slots, EnterCore(s) PROVE Orderly'
  <2>1. starts[s].at = "startCore" /\ StartGoes(s, "applying")
    BY <1>10, StartStepGoes
  <2>2. ASSUME ~overlap PROVE StartFits(s)'
    <3>1. StartFits(s) /\ inst \in Instances /\ starts[s].inst = inst /\ \A r \in Slots : r # s => starts[r].at = "none"
      BY <2>1, <2>2, StartAlone
    <3>2. starts'[s].at = "applying" /\ starts'[s].inst = inst /\ \A r \in Slots : r # s => starts'[r].at = "none"
      BY <2>1, <3>1 DEF StartGoes
    <3>3. QED BY <1>10, <1>b, <2>1, <3>1, <3>2 DEF EnterCore, StartFits, Busied, Mine, Usable, setRunningState, Released, Open, Holds, IsUp, OnlyOpen, NoTun, OnlyTun
  <2>3. UNCHANGED <<stops, preview, overlap>>
    BY <1>10 DEF EnterCore
  <2>4. QED BY <2>1, <2>2, <2>3, StartGoesOn
<1>11. ASSUME NEW s \in Slots, CoreStarted(s) PROVE Orderly'
  <2>1. starts[s].at = "applying" /\ StartGoes(s, "startTun")
    BY <1>11, StartStepGoes
  <2>2. ASSUME ~overlap PROVE StartFits(s)'
    <3>1. StartFits(s) /\ inst \in Instances /\ starts[s].inst = inst /\ \A r \in Slots : r # s => starts[r].at = "none"
      BY <2>1, <2>2, StartAlone
    <3>2. starts'[s].at = "startTun" /\ starts'[s].inst = inst /\ \A r \in Slots : r # s => starts'[r].at = "none"
      BY <2>1, <3>1 DEF StartGoes
    <3>3. QED BY <1>11, <1>b, <2>1, <3>1, <3>2 DEF CoreStarted, StartFits, Busied, Mine, Usable, setRunningState, Released, Open, Holds, IsUp, OnlyOpen, NoTun, OnlyTun
  <2>3. UNCHANGED <<stops, preview, overlap>>
    BY <1>11 DEF CoreStarted
  <2>4. QED BY <2>1, <2>2, <2>3, StartGoesOn
<1>12. ASSUME NEW s \in Slots, ConfigFails(s) PROVE Orderly'
  <2>1. starts[s].at # "none" /\ StartGoes(s, "none") /\ TearDown(starts[s].inst)
    BY <1>12, StartStepGoes
  <2>2. starts[s].at \in {"launched", "check", "reload", "startCore", "startTun"} /\ UNCHANGED <<service, preview, iface, overlap>>
    BY <1>12 DEF ConfigFails, At
  <2>3. ASSUME ~overlap PROVE device' = None /\ \A f \in Fds : Open(f)' => f = iface[inst] /\ pfd'[f] = "open"
    <3>1. StartFits(s) /\ inst \in Instances /\ starts[s].inst = inst
      BY <2>1, <2>3, StartAlone
    <3>2. device = None /\ device' = None /\ UNCHANGED <<pfd, closes>>
      BY <1>12, <2>2, <3>1 DEF ConfigFails, At, StartFits, Released
    <3>3. \A f \in Fds : Open(f) => f = iface[inst] /\ pfd[f] = "open"
      BY <2>2, <3>1 DEF StartFits, Released, Open, Holds, IsUp, OnlyOpen, NoTun, OnlyTun
    <3>4. QED BY <3>2, <3>3 DEF Open
  <2>4. QED BY <2>1, <2>2, <2>3, StartFailed
<1>13. ASSUME NEW s \in Slots, StartTun(s) PROVE Orderly'
  <2>1. starts[s].at = "startTun" /\ StartGoes(s, "mark")
    BY <1>13, StartStepGoes
  <2>2. ASSUME ~overlap PROVE StartFits(s)'
    <3>1. StartFits(s) /\ inst \in Instances /\ starts[s].inst = inst /\ \A r \in Slots : r # s => starts[r].at = "none"
      BY <2>1, <2>2, StartAlone
    <3>2. starts'[s].at = "mark" /\ starts'[s].inst = inst /\ \A r \in Slots : r # s => starts'[r].at = "none"
      BY <2>1, <3>1 DEF StartGoes
    <3>3. QED BY <1>13, <1>b, <2>1, <3>1, <3>2 DEF StartTun, StartFits, Busied, Mine, Usable, setRunningState, Released, Open, Holds, IsUp, OnlyOpen, NoTun, OnlyTun
  <2>3. UNCHANGED <<stops, preview, overlap>>
    BY <1>13 DEF StartTun
  <2>4. QED BY <2>1, <2>2, <2>3, StartGoesOn
<1>14. ASSUME NEW s \in Slots, SkipTun(s) PROVE Orderly'
  <2>1. starts[s].at = "startTun" /\ StartGoes(s, "publish")
    BY <1>14, StartStepGoes
  <2>2. ASSUME ~overlap PROVE StartFits(s)'
    <3>1. StartFits(s) /\ inst \in Instances /\ starts[s].inst = inst /\ \A r \in Slots : r # s => starts[r].at = "none"
      BY <2>1, <2>2, StartAlone
    <3>2. starts'[s].at = "publish" /\ starts'[s].inst = inst /\ \A r \in Slots : r # s => starts'[r].at = "none"
      BY <2>1, <3>1 DEF StartGoes
    <3>3. QED BY <1>14, <1>b, <2>1, <3>1, <3>2 DEF SkipTun, StartFits, Busied, Mine, Usable, setRunningState, Released, Open, Holds, IsUp, OnlyOpen, NoTun, OnlyTun
  <2>3. UNCHANGED <<stops, preview, overlap>>
    BY <1>14 DEF SkipTun
  <2>4. QED BY <2>1, <2>2, <2>3, StartGoesOn
<1>15. ASSUME NEW s \in Slots, StartTunFails(s) PROVE Orderly'
  <2>1. starts[s].at # "none" /\ StartGoes(s, "none") /\ TearDown(starts[s].inst)
    BY <1>15, StartStepGoes
  <2>2. starts[s].at \in {"launched", "check", "reload", "startCore", "startTun"} /\ UNCHANGED <<service, preview, iface, overlap>>
    BY <1>15 DEF StartTunFails, At
  <2>3. ASSUME ~overlap PROVE device' = None /\ \A f \in Fds : Open(f)' => f = iface[inst] /\ pfd'[f] = "open"
    <3>1. StartFits(s) /\ inst \in Instances /\ starts[s].inst = inst
      BY <2>1, <2>3, StartAlone
    <3>2. device = None /\ device' = None /\ UNCHANGED <<pfd, closes>>
      BY <1>15, <2>2, <3>1 DEF StartTunFails, At, StartFits, Released
    <3>3. \A f \in Fds : Open(f) => f = iface[inst] /\ pfd[f] = "open"
      BY <2>2, <3>1 DEF StartFits, Released, Open, Holds, IsUp, OnlyOpen, NoTun, OnlyTun
    <3>4. QED BY <3>2, <3>3 DEF Open
  <2>4. QED BY <2>1, <2>2, <2>3, StartFailed
<1>16. ASSUME NEW s \in Slots, StackFails(s) PROVE Orderly'
  <2>1. starts[s].at # "none" /\ StartGoes(s, "none") /\ TearDown(starts[s].inst)
    BY <1>16, StartStepGoes
  <2>2. starts[s].at \in {"launched", "check", "reload", "startCore", "startTun"} /\ UNCHANGED <<service, preview, iface, overlap>>
    BY <1>16 DEF StackFails, At
  <2>3. ASSUME ~overlap PROVE device' = None /\ \A f \in Fds : Open(f)' => f = iface[inst] /\ pfd'[f] = "open"
    <3>1. StartFits(s) /\ inst \in Instances /\ starts[s].inst = inst
      BY <2>1, <2>3, StartAlone
    <3>2. /\ Holds(inst) /\ device' = None /\ Close(iface[inst]) /\ UNCHANGED pfd /\ iface[inst] \in Fds
      BY <1>16, <1>b, <3>1 DEF StackFails, At, Mine, StartFits, Holds
    <3>3. closes'[iface[inst]] # 0 /\ \A f \in Fds : f # iface[inst] => closes'[f] = closes[f]
      BY <3>2, CloseCounts DEF Types, Holds, Open
    <3>4. QED BY <3>2, <3>3 DEF Holds, Open, OnlyOpen
  <2>4. QED BY <2>1, <2>2, <2>3, StartFailed
<1>17. ASSUME NEW s \in Slots, MarkTunStarted(s) PROVE Orderly'
  <2>1. starts[s].at = "mark" /\ StartGoes(s, "publish")
    BY <1>17, StartStepGoes
  <2>2. ASSUME ~overlap PROVE StartFits(s)'
    <3>1. StartFits(s) /\ inst \in Instances /\ starts[s].inst = inst /\ \A r \in Slots : r # s => starts[r].at = "none"
      BY <2>1, <2>2, StartAlone
    <3>2. starts'[s].at = "publish" /\ starts'[s].inst = inst /\ \A r \in Slots : r # s => starts'[r].at = "none"
      BY <2>1, <3>1 DEF StartGoes
    <3>3. QED BY <1>17, <1>b, <2>1, <3>1, <3>2 DEF MarkTunStarted, StartFits, Busied, Mine, Usable, setRunningState, Released, Open, Holds, IsUp, OnlyOpen, NoTun, OnlyTun
  <2>3. UNCHANGED <<stops, preview, overlap>>
    BY <1>17 DEF MarkTunStarted
  <2>4. QED BY <2>1, <2>2, <2>3, StartGoesOn
<1>18. ASSUME NEW s \in Slots, PublishRunning(s) PROVE Orderly'
  <2>1. starts[s].at = "publish" /\ StartGoes(s, "finish")
    BY <1>18, StartStepGoes
  <2>2. ASSUME ~overlap PROVE StartFits(s)'
    <3>1. StartFits(s) /\ inst \in Instances /\ starts[s].inst = inst /\ \A r \in Slots : r # s => starts[r].at = "none"
      BY <2>1, <2>2, StartAlone
    <3>2. starts'[s].at = "finish" /\ starts'[s].inst = inst /\ \A r \in Slots : r # s => starts'[r].at = "none"
      BY <2>1, <3>1 DEF StartGoes
    <3>3. QED BY <1>18, <1>b, <2>1, <3>1, <3>2 DEF PublishRunning, StartFits, Busied, Mine, Usable, setRunningState, Released, Open, Holds, IsUp, OnlyOpen, NoTun, OnlyTun
  <2>3. UNCHANGED <<stops, preview, overlap>>
    BY <1>18 DEF PublishRunning
  <2>4. QED BY <2>1, <2>2, <2>3, StartGoesOn
<1>19. ASSUME NEW s \in Slots, FinishStart(s) PROVE Orderly'
  <2>1. starts[s].at = "finish" /\ StartGoes(s, "none")
    BY <1>19, StartStepGoes
  <2>2. SUFFICES ASSUME ~overlap PROVE Orderly'
    BY <1>19 DEF FinishStart, Orderly
  <2>3. /\ StartFits(s) /\ preview = "none" /\ \A r \in Slots : stops[r].at = "none"
        /\ \A r \in Slots : r # s => starts[r].at = "none"
    BY <2>1, <2>2, StartAlone
  <2>4. /\ RestFits' /\ preview' = "none" /\ ~dying'
        /\ \A r \in Slots : starts'[r].at = "none" /\ stops'[r].at = "none"
    BY <1>19, <2>1, <2>2, <2>3, StartAlone, Steps DEF FinishStart, StartGoes, StartFits, RestFits, Released, Open, Holds, IsUp, OnlyOpen, NoTun, OnlyTun
  <2>5. QED BY <2>4 DEF Orderly, Busy, Busied
<1>20. ASSUME NEW s \in Slots, StopTun(s) PROVE Orderly'
  <2>1. stops[s].at = "release" /\ StopGoes(s, "clear")
    BY <1>20, StopStepGoes
  <2>2. ASSUME ~overlap PROVE StopFits(s)'
    <3>1. StopFits(s) /\ stops[s].inst \in Instances /\ \A r \in Slots : r # s => stops[r].at = "none"
      BY <2>1, <2>2, StopAlone
    <3>2. stops'[s].at = "clear" /\ stops'[s].inst = stops[s].inst /\ \A r \in Slots : r # s => stops'[r].at = "none"
      BY <2>1, <3>1 DEF StopGoes
    <3>3. /\ device # None /\ device \in Fds /\ OnlyOpen(device) /\ Close(device) /\ device' = None
          /\ \A f \in Fds : pfd'[f] = "none" <=> pfd[f] = "none"
      BY <1>20, <1>b, <2>1, <3>1 DEF StopTun, StopFits, Usable
    <3>4. closes'[device] # 0 /\ \A f \in Fds : f # device => closes'[f] = closes[f]
      BY <3>3, CloseCounts DEF Types, Fresh
    <3>5. Released'
      BY <3>3, <3>4 DEF Released, Open, OnlyOpen
    <3>6. QED BY <1>20, <3>1, <3>2, <3>5 DEF StopTun, StopFits, NoTun, Busied
  <2>3. UNCHANGED <<inst, companion, isStopping, tunStarted, starts, preview, overlap>> /\ (dying' => dying \/ stops[s].inst = inst)
    BY <1>20 DEF StopTun, Stopped
  <2>4. QED BY <2>1, <2>2, <2>3, StopGoesOn
<1>21. ASSUME NEW s \in Slots, CloseInterface(s) PROVE Orderly'
  <2>1. stops[s].at = "release" /\ StopGoes(s, "clear")
    BY <1>21, StopStepGoes
  <2>2. ASSUME ~overlap PROVE StopFits(s)'
    <3>1. StopFits(s) /\ stops[s].inst \in Instances /\ \A r \in Slots : r # s => stops[r].at = "none"
      BY <2>1, <2>2, StopAlone
    <3>2. stops'[s].at = "clear" /\ stops'[s].inst = stops[s].inst /\ \A r \in Slots : r # s => stops'[r].at = "none"
      BY <2>1, <3>1 DEF StopGoes
    <3> DEFINE f == iface[stops[s].inst]
    <3>3. /\ device = None /\ device' = None /\ f \in Fds \cup {None}
          /\ \A h \in Fds : Open(h) => h = f /\ pfd[h] = "open"
      BY <1>21, <1>b, <2>1, <3>1 DEF CloseInterface, StopFits
    <3>4. \/ ~Usable(f) /\ UNCHANGED <<pfd, closes>>
          \/ Usable(f) /\ pfd' = [pfd EXCEPT ![f] = "closed"] /\ Close(f)
      BY <1>21 DEF CloseInterface
    <3> HIDE DEF f
    <3>5. Released'
      <4>1. CASE ~Usable(f) /\ UNCHANGED <<pfd, closes>>
        BY <1>b, <3>3, <4>1 DEF Released, Open, Usable
      <4>2. CASE Usable(f) /\ pfd' = [pfd EXCEPT ![f] = "closed"] /\ Close(f)
        <5>1. f \in Fds /\ pfd[f] # "none"
          BY <3>3, <4>2 DEF Usable
        <5>2. closes'[f] # 0 /\ \A h \in Fds : h # f => closes'[h] = closes[h]
          BY <4>2, <5>1, CloseCounts DEF Types
        <5>3. QED BY <1>b, <3>3, <4>2, <5>1, <5>2 DEF Released, Open
      <4>3. QED BY <3>4, <4>1, <4>2
    <3>6. QED BY <1>21, <3>1, <3>2, <3>5 DEF CloseInterface, StopFits, NoTun, Busied
  <2>3. UNCHANGED <<inst, companion, isStopping, tunStarted, starts, preview, overlap>> /\ (dying' => dying \/ stops[s].inst = inst)
    BY <1>21 DEF CloseInterface, Stopped
  <2>4. QED BY <2>1, <2>2, <2>3, StopGoesOn
<1>22. ASSUME NEW s \in Slots, ClearInterface(s) PROVE Orderly'
  <2>1. stops[s].at = "clear" /\ StopGoes(s, "stopSelf")
    BY <1>22, StopStepGoes
  <2>2. ASSUME ~overlap PROVE StopFits(s)'
    <3>1. StopFits(s) /\ stops[s].inst \in Instances /\ \A r \in Slots : r # s => stops[r].at = "none"
      BY <2>1, <2>2, StopAlone
    <3>2. stops'[s].at = "stopSelf" /\ stops'[s].inst = stops[s].inst /\ \A r \in Slots : r # s => stops'[r].at = "none"
      BY <2>1, <3>1 DEF StopGoes
    <3>3. Released'
      BY <1>22, <2>1, <3>1 DEF ClearInterface, StopFits, Released, Open
    <3>4. QED BY <1>22, <3>1, <3>2, <3>3 DEF ClearInterface, StopFits, NoTun, Busied
  <2>3. UNCHANGED <<inst, companion, isStopping, tunStarted, starts, preview, overlap>> /\ (dying' => dying \/ stops[s].inst = inst)
    BY <1>22 DEF ClearInterface, Stopped
  <2>4. QED BY <2>1, <2>2, <2>3, StopGoesOn
<1>23. ASSUME NEW s \in Slots, StopSelf(s) PROVE Orderly'
  <2>1. stops[s].at = "stopSelf" /\ StopGoes(s, "stopCore")
    BY <1>23, StopStepGoes
  <2>2. ASSUME ~overlap PROVE StopFits(s)'
    <3>1. StopFits(s) /\ stops[s].inst \in Instances /\ \A r \in Slots : r # s => stops[r].at = "none"
      BY <2>1, <2>2, StopAlone
    <3>2. stops'[s].at = "stopCore" /\ stops'[s].inst = stops[s].inst /\ \A r \in Slots : r # s => stops'[r].at = "none"
      BY <2>1, <3>1 DEF StopGoes
    <3>3. Released'
      BY <1>23, <2>1, <3>1 DEF StopSelf, StopFits, Released, Open
    <3>4. QED BY <1>23, <3>1, <3>2, <3>3 DEF StopSelf, StopFits, NoTun, Busied
  <2>3. UNCHANGED <<inst, companion, isStopping, tunStarted, starts, preview, overlap>> /\ (dying' => dying \/ stops[s].inst = inst)
    BY <1>23 DEF StopSelf, Stopped
  <2>4. QED BY <2>1, <2>2, <2>3, StopGoesOn
<1>24. ASSUME NEW s \in Slots, StopCore(s) PROVE Orderly'
  <2>1. stops[s].at = "stopCore" /\ StopGoes(s, "none")
    BY <1>24, StopStepGoes
  <2>2. ASSUME ~overlap PROVE Released'
    <3>1. StopFits(s) /\ stops[s].inst \in Instances /\ \A r \in Slots : r # s => stops[r].at = "none"
      BY <2>1, <2>2, StopAlone
    <3>2. \A r \in Slots : r # s => stops'[r].at = "none"
      BY <2>1, <3>1 DEF StopGoes
    <3>3. Released'
      BY <1>24, <2>1, <3>1 DEF StopCore, StopFits, Released, Open
    <3>4. QED BY <3>3
  <2>3. UNCHANGED <<inst, companion, isStopping, tunStarted, starts, preview, overlap>> /\ (dying' => dying \/ stops[s].inst = inst)
    BY <1>24 DEF StopCore, Stopped
  <2>4. QED BY <2>1, <2>2, <2>3, StopGoesOn
<1>25. ASSUME Preview PROVE Orderly'
  <2>1. SUFFICES ASSUME ~overlap' PROVE Orderly'
    BY DEF Orderly
  <2>2. /\ RestFits /\ ~dying /\ \A s \in Slots : starts[s].at = "none" /\ stops[s].at = "none"
    BY <1>25, <2>1, CommandAtRest DEF Preview
  <2>3. UNCHANGED <<inst, dying, isRunning, isStopping, tunStarted, iface, starts, stops, core, device, pfd, closes>>
    BY <1>25 DEF Preview, PreviewGoto
  <2>4. RestFits'
    BY <2>2, <2>3 DEF RestFits, Released, Open, Holds, IsUp, OnlyOpen, NoTun, OnlyTun
  <2>5. QED BY <2>2, <2>3, <2>4 DEF Orderly, Busy, Busied
<1>26. ASSUME PreviewCheck PROVE Orderly'
  BY <1>26, <1>a DEF PreviewCheck, PreviewGoto
<1>27. ASSUME PreviewReload PROVE Orderly'
  BY <1>27, <1>a DEF PreviewReload, PreviewGoto
<1>28. ASSUME PreviewEnter PROVE Orderly'
  BY <1>28, <1>a DEF PreviewEnter, PreviewGoto
<1>29. ASSUME PreviewRefused PROVE Orderly'
  BY <1>29, <1>a DEF PreviewRefused, PreviewGoto
<1>30. ASSUME PreviewStarted PROVE Orderly'
  BY <1>30, <1>a DEF PreviewStarted, PreviewGoto
<1>31. ASSUME ProcessDies PROVE Orderly'
  <2>1. /\ ~isRunning' /\ ~dying' /\ preview' = "none" /\ NoTun'
        /\ \A s \in Slots : starts'[s].at = "none" /\ stops'[s].at = "none"
    BY <1>31 DEF ProcessDies, NoTun, Unset, NoCoroutine, Free
  <2>2. Released'
    BY <1>31, <1>b DEF ProcessDies, Released, Open
  <2>3. QED BY <2>1, <2>2 DEF Orderly, Busy, Busied, RestFits
<1>32. ASSUME StickyRestart PROVE Orderly'
  <2>1. /\ inst = None /\ ~dying
        /\ UNCHANGED <<dying, isRunning, isStopping, tunStarted, iface, starts, stops, preview, core, device, pfd, closes, overlap>>
    BY <1>32 DEF StickyRestart, Types, TypeOK
  <2>2. SUFFICES ASSUME ~overlap PROVE Orderly'
    BY <2>1 DEF Orderly
  <2>3. \A s \in Slots : starts[s].at = "none"
    BY <2>1, <2>2, StartAlone, Steps
  <2>4. \A s \in Slots : stops[s].at # "none" => StopFits(s)' /\ preview = "none"
    BY <2>1, <2>2, StopAlone DEF StopFits, Busied, NoTun, Released, Open, OnlyOpen
  <2>5. ~Busy(stops) => RestFits'
    BY <2>1, <2>2, <2>3 DEF Orderly, Busy, RestFits, NoTun, Released, Open
  <2>6. QED BY <2>1, <2>3, <2>4, <2>5 DEF Orderly, Busy, Busied
<1>33. ASSUME UNCHANGED vars PROVE Orderly'
  BY <1>33, <1>a DEF vars
<1>34. QED
  BY <1>1, <1>2, <1>3, <1>4, <1>5, <1>6, <1>7, <1>8, <1>9, <1>10, <1>11, <1>12, <1>13, <1>14, <1>15, <1>16, <1>17, <1>18, <1>19, <1>20, <1>21, <1>22, <1>23, <1>24, <1>25, <1>26, <1>27, <1>28, <1>29, <1>30, <1>31, <1>32, <1>33
  DEF Next, StartStep, StopStep, PreviewStep

-----------------------------------------------------------------------------
VpnInvariant == Types /\ StarterStays /\ Orderly

(* The invariant holds before the first command, and every step keeps it.  *)
LEMMA Invariance == Spec => []VpnInvariant
<1>1. Init => VpnInvariant
  <2>1. SUFFICES ASSUME Init PROVE VpnInvariant
    OBVIOUS
  <2>2. /\ \A s \in Slots : starts[s].at = "none" /\ stops[s].at = "none"
        /\ starts \in [Slots -> Coroutines(StartSteps)] /\ stops \in [Slots -> Coroutines(StopSteps)]
    BY <2>1 DEF Init, NoCoroutine, Free, Coroutines
  <2>3. TypeOK
    <3>1. 0 \in 0 .. MaxInstances /\ 0 \in 0 .. MaxFds /\ 0 \in 0 .. MaxCommands /\ 0 \in 0 .. MaxDeaths
      BY BoundAssumption
    <3>2. /\ iface \in [Instances -> Fds \cup {None}]
          /\ isStopping \in [Instances -> BOOLEAN] /\ tunStarted \in [Instances -> BOOLEAN]
      BY <2>1 DEF Init, Nothing, Unset
    <3>3. pfd \in [Fds -> {"none", "open", "detached", "closed"}] /\ closes \in [Fds -> 0 .. 2]
      BY <2>1 DEF Init
    <3>4. QED BY <2>1, <2>2, <3>1, <3>2, <3>3 DEF Init, TypeOK
  <2>4. SlotsFit /\ Fresh /\ StarterStays
    BY <2>1, <2>2 DEF Init, Nothing, SlotsFit, Fresh, StarterStays, Busied
  <2>5. RestFits
    BY <2>1 DEF Init, RestFits, Released, Open, NoTun, Unset
  <2>6. Orderly
    BY <2>1, <2>2, <2>5 DEF Init, Orderly, Busy, Busied
  <2>7. QED BY <2>3, <2>4, <2>6 DEF VpnInvariant, Types
<1>2. ASSUME VpnInvariant, [Next]_vars PROVE VpnInvariant'
  BY <1>2, TypesInductive, StarterInductive, OrderlyInductive DEF VpnInvariant
<1>3. QED BY <1>1, <1>2, PTL DEF Spec

(* ClashVpnService: every field and coroutine has its type.                *)
THEOREM TypeCorrect == Spec => []TypeOK
<1>1. VpnInvariant => TypeOK
  BY DEF VpnInvariant, Types
<1>2. QED BY Invariance, <1>1, PTL

(* isStarting is lowered by whatever ends the start that raised it.        *)
THEOREM StartingCorrect == Spec => []StartingIsUnderWay
<1>1. VpnInvariant => StartingIsUnderWay
  BY DEF VpnInvariant, StarterStays, StartingIsUnderWay, Busy, Busied
<1>2. QED BY Invariance, <1>1, PTL

(* stopVpn: one coroutine tears down, however many stops are asked for.    *)
THEOREM TornDownCorrect == Spec => []TornDownOnce
<1>1. VpnInvariant => TornDownOnce
  <2>1. SUFFICES ASSUME VpnInvariant, ~overlap
                 PROVE  Cardinality({s \in Slots : stops[s].at # "none"}) <= 1
    BY DEF TornDownOnce
  <2>2. CASE \A s \in Slots : stops[s].at = "none"
    <3>1. {s \in Slots : stops[s].at # "none"} = {}
      BY <2>2
    <3>2. QED BY <3>1, FS_EmptySet
  <2>3. CASE \E s \in Slots : stops[s].at # "none"
    <3>1. PICK s \in Slots : stops[s].at # "none"
      BY <2>3
    <3>2. \A r \in Slots : r # s => stops[r].at = "none"
      BY <2>1, <3>1, StopAlone DEF VpnInvariant
    <3>3. {r \in Slots : stops[r].at # "none"} = {s}
      BY <3>1, <3>2
    <3>4. Cardinality({s}) = 1
      BY FS_Singleton
    <3>5. QED BY <3>3, <3>4
  <2>4. QED BY <2>2, <2>3
<1>2. QED BY Invariance, <1>1, PTL

(* The switch shows a VPN that is up: core, TUN and interface.             *)
THEOREM RunningCorrect == Spec => []RunningMeansUp
<1>1. VpnInvariant => RunningMeansUp
  <2>1. SUFFICES ASSUME VpnInvariant, Calm, isRunning
                 PROVE  inst # None /\ core /\ device # None /\ device = iface[inst] /\ Open(device)
    BY DEF RunningMeansUp
  <2>2. RestFits
    BY <2>1 DEF VpnInvariant, Calm, InFlight, Orderly
  <2>3. QED BY <2>1, <2>2 DEF RestFits, IsUp, Holds
<1>2. QED BY Invariance, <1>1, PTL

(* ... or one that is down, with no interface left open.                   *)
THEOREM StoppedCorrect == Spec => []StoppedMeansReleased
<1>1. VpnInvariant => StoppedMeansReleased
  BY DEF VpnInvariant, StoppedMeansReleased, Calm, InFlight, Orderly, RestFits
<1>2. QED BY Invariance, <1>1, PTL
=============================================================================
