----------------------------- MODULE VpnService -----------------------------
(***************************************************************************)
(* The life of the Android VPN service: core/ClashVpnService.kt, with the  *)
(* functions of the core it calls (mobile/mobile.go) and the way Android   *)
(* creates, stops and destroys its instances.                              *)
(*                                                                         *)
(* Commands, onRevoke and onDestroy run one after the other on the main    *)
(* thread; starting and stopping run in coroutines on other threads, which *)
(* a cancelled scope only stops before their first step, because nothing   *)
(* in them suspends.                                                       *)
(***************************************************************************)
EXTENDS Naturals, FiniteSets

CONSTANTS
    MaxInstances,   \* bound: instances of the service, one after the other
    MaxFds,         \* bound: VPN interfaces Android establishes
    MaxSlots,       \* bound: coroutines of a kind that run at a time
    MaxCommands,    \* bound: starts, stops, previews and revocations
    MaxDeaths       \* bound: deaths of the process

ASSUME BoundAssumption ==
    /\ MaxInstances \in Nat \ {0} /\ MaxFds \in Nat \ {0} /\ MaxSlots \in Nat \ {0}
    /\ MaxCommands \in Nat /\ MaxDeaths \in Nat

None == 0
Instances == 1 .. MaxInstances
Fds == 1 .. MaxFds
Slots == 1 .. MaxSlots

VARIABLES
    inst, created, dying,             \* the instance alive, instances so far, stopSelf was called
    isRunning, isStarting, saved,     \* the companion object, and KEY_IS_RUNNING on disk
    iface, isStopping, tunStarted,    \* the fields of each instance
    starts, stops, preview,           \* coroutines: their instance and next step
    core, device,                     \* mobile.go: isRunning, and the fd of tunDevice
    pfd, closes, made,                \* ParcelFileDescriptors; times the fd was closed; interfaces so far
    commands, deaths,
    wanted,                           \* the last command
    overlap                           \* whether a command came while another was being carried out

service == <<inst, created, dying>>
companion == <<isRunning, isStarting, saved>>
fields == <<iface, isStopping, tunStarted>>
coroutines == <<starts, stops, preview>>
mobile == <<core, device>>
descriptors == <<pfd, closes, made>>
history == <<commands, deaths, wanted, overlap>>
vars == <<service, companion, fields, coroutines, mobile, descriptors, history>>

Free == [inst |-> None, at |-> "none", native |-> FALSE]
StartSteps == {"launched", "check", "reload", "startCore", "applying", "startTun", "mark", "publish", "finish"}
StopSteps == {"release", "clear", "stopSelf", "stopCore"}
Coroutines(steps) == [inst : Instances \cup {None}, at : steps \cup {"none"}, native : BOOLEAN]

(* Every field has its type: a start and a stop stand at one of their own  *)
(* steps, for an instance that exists.                                     *)
TypeOK ==
    /\ inst \in Instances \cup {None} /\ created \in 0 .. MaxInstances /\ dying \in BOOLEAN
    /\ dying => inst # None
    /\ isRunning \in BOOLEAN /\ isStarting \in BOOLEAN /\ saved \in BOOLEAN
    /\ iface \in [Instances -> Fds \cup {None}]
    /\ isStopping \in [Instances -> BOOLEAN] /\ tunStarted \in [Instances -> BOOLEAN]
    /\ starts \in [Slots -> Coroutines(StartSteps)] /\ stops \in [Slots -> Coroutines(StopSteps)]
    /\ preview \in {"none", "check", "reload", "startCore", "applying"}
    /\ core \in BOOLEAN /\ device \in Fds \cup {None}
    /\ pfd \in [Fds -> {"none", "open", "detached", "closed"}]
    /\ closes \in [Fds -> 0 .. 2] /\ made \in 0 .. MaxFds
    /\ commands \in 0 .. MaxCommands /\ deaths \in 0 .. MaxDeaths
    /\ wanted \in {"none", "start", "stop"} /\ overlap \in BOOLEAN

NoCoroutine == [s \in Slots |-> Free]
Nothing == [i \in Instances |-> None]
Unset == [i \in Instances |-> FALSE]

Init ==
    /\ inst = None /\ created = 0 /\ dying = FALSE
    /\ isRunning = FALSE /\ isStarting = FALSE /\ saved = FALSE
    /\ iface = Nothing /\ isStopping = Unset /\ tunStarted = Unset
    /\ starts = NoCoroutine /\ stops = NoCoroutine /\ preview = "none"
    /\ core = FALSE /\ device = None
    /\ pfd = [f \in Fds |-> "none"] /\ closes = [f \in Fds |-> 0] /\ made = 0
    /\ commands = 0 /\ deaths = 0 /\ wanted = "none" /\ overlap = FALSE

-----------------------------------------------------------------------------
Busy(slots) == \E s \in Slots : slots[s].at # "none"
InFlight == Busy(starts) \/ Busy(stops) \/ preview # "none" \/ dying

(* The first free slot: which one a coroutine gets is of no consequence.   *)
Vacant(slots, s) == slots[s].at = "none" /\ \A r \in 1 .. s - 1 : slots[r].at # "none"

Launch(slots, s, i, step, owns) == [slots EXCEPT ![s] = [inst |-> i, at |-> step, native |-> owns]]

setRunningState(running) == isRunning' = running /\ saved' = running

(* Slips: the switch is left to the start that follows, every call tears   *)
(* down, and the fd is taken for Java's whoever has it.                    *)
ReportNothing == UNCHANGED <<isRunning, saved>>
NeverStopping(i) == FALSE
JavaOwnsFd(i) == FALSE

AlreadyStopping(i) == isStopping[i]
ReportStopped == setRunningState(FALSE)
NativeOwnsFd(i) == tunStarted[i]

(* stopVpn but for isStarting: once per start, take the fd's ownership     *)
(* note and leave the rest to a coroutine of stopScope.                    *)
TearDown(i) ==
    \/ AlreadyStopping(i) /\ UNCHANGED <<isRunning, saved, isStopping, tunStarted, stops>>
    \/ /\ ~AlreadyStopping(i) /\ isStopping' = [isStopping EXCEPT ![i] = TRUE]
       /\ ReportStopped
       /\ tunStarted' = [tunStarted EXCEPT ![i] = FALSE]
       /\ \E s \in Slots : Vacant(stops, s) /\ stops' = Launch(stops, s, i, "release", NativeOwnsFd(i))

stopVpn(i) == TearDown(i) /\ isStarting' = (isStarting /\ AlreadyStopping(i))

(* Slip: stopSelf of an instance that is gone reaches the one alive.       *)
StoppedByName(i) == TRUE

(* stopSelf stops the instance that calls it. *)
Stopped(i) == dying \/ inst = i

Command ==
    /\ commands < MaxCommands /\ commands' = commands + 1
    /\ overlap' = (overlap \/ InFlight)
    /\ UNCHANGED deaths

(* Android hands an intent to the instance alive, or to a new one; while   *)
(* one is being stopped the intent waits for it to be destroyed.           *)
Deliver(i) ==
    /\ ~dying
    /\ IF inst = None
         THEN i = created + 1 /\ i \in Instances /\ inst' = i /\ created' = i
         ELSE i = inst /\ UNCHANGED <<inst, created>>
    /\ UNCHANGED dying

(* Slip: asking only whether the VPN runs. *)
StartsUnlessRunning == ~isRunning

Starts == ~isRunning /\ ~isStarting

(* ACTION_START, from the activity, the tile or the boot receiver. *)
startVpn(i) ==
    /\ Command /\ Deliver(i) /\ wanted' = "start"
    /\ IF Starts
         THEN /\ isStarting' = TRUE
              /\ isStopping' = [isStopping EXCEPT ![i] = FALSE]
              /\ \E s \in Slots : Vacant(starts, s) /\ starts' = Launch(starts, s, i, "launched", FALSE)
         ELSE UNCHANGED <<isStarting, isStopping, starts>>
    /\ UNCHANGED <<isRunning, saved, iface, tunStarted, stops, preview, mobile, descriptors>>

(* ACTION_STOP, or onRevoke when the user lets another VPN take over. *)
StopCommand(i) ==
    /\ Command /\ Deliver(i) /\ wanted' = "stop"
    /\ stopVpn(i)
    /\ UNCHANGED <<iface, starts, preview, mobile, descriptors>>

onRevoke ==
    /\ inst # None /\ iface[inst] # None
    /\ Command /\ wanted' = "stop"
    /\ stopVpn(inst)
    /\ UNCHANGED <<service, iface, starts, preview, mobile, descriptors>>

(* onDestroy, after stopSelf: coroutines not yet begun are cancelled.      *)
onDestroy ==
    /\ dying /\ stopVpn(inst)
    /\ starts' = [s \in Slots |->
                    IF starts[s].inst = inst /\ starts[s].at = "launched" THEN Free ELSE starts[s]]
    /\ inst' = None /\ dying' = FALSE
    /\ UNCHANGED <<created, iface, preview, mobile, descriptors, history>>

-----------------------------------------------------------------------------
(* The coroutine of startVpn in slot s. *)
At(s, step) == starts[s].at = step
Goto(s, step) == starts' = [starts EXCEPT ![s] = IF step = "none" THEN Free ELSE [@ EXCEPT !.at = step]]
Mine(s) == starts[s].inst

(* Slip: a failed start leaves the flag up. *)
StillStarting == isStarting

(* catch: the flag down, and stopVpn. *)
StartingAfterError == FALSE

Throw(s) ==
    /\ Goto(s, "none") /\ TearDown(Mine(s))
    /\ isStarting' = StartingAfterError

(* establishVpn: an interface, null, or an exception. *)
Establish(s) ==
    /\ At(s, "launched") /\ made < MaxFds
    /\ Goto(s, "check")
    /\ made' = made + 1 /\ pfd' = [pfd EXCEPT ![made + 1] = "open"]
    /\ iface' = [iface EXCEPT ![Mine(s)] = made + 1]
    /\ UNCHANGED <<service, companion, isStopping, tunStarted, stops, preview, mobile, closes, history>>

EstablishNull(s) ==
    /\ At(s, "launched") /\ Goto(s, "none")
    /\ isStarting' = FALSE
    /\ iface' = [iface EXCEPT ![Mine(s)] = None]
    /\ dying' = Stopped(Mine(s))
    /\ UNCHANGED <<inst, created, isRunning, saved, isStopping, tunStarted, stops, preview, mobile, descriptors, history>>

EstablishFails(s) ==
    /\ At(s, "launched") /\ Throw(s)
    /\ UNCHANGED <<service, iface, preview, mobile, descriptors, history>>

(* The configuration is written (which may fail), and Mobile.isRunning() asked. *)
CheckCore(s) ==
    /\ At(s, "check") /\ Goto(s, IF core THEN "reload" ELSE "startCore")
    /\ UNCHANGED <<service, companion, fields, stops, preview, mobile, descriptors, history>>

ReloadCore(s) ==
    /\ At(s, "reload") /\ Goto(s, "startTun")
    /\ UNCHANGED <<service, companion, fields, stops, preview, mobile, descriptors, history>>

(* StartWithPath refuses if the core runs by now, else applies the         *)
(* configuration and only then notes that it runs.                         *)
EnterCore(s) ==
    /\ At(s, "startCore") /\ ~core /\ Goto(s, "applying")
    /\ UNCHANGED <<service, companion, fields, stops, preview, mobile, descriptors, history>>

CoreStarted(s) ==
    /\ At(s, "applying") /\ Goto(s, "startTun")
    /\ core' = TRUE
    /\ UNCHANGED <<service, companion, fields, stops, preview, device, descriptors, history>>

(* Writing or parsing the configuration fails, or the core already runs.   *)
ConfigFails(s) ==
    /\ starts[s].at \in {"check", "reload", "startCore"} /\ Throw(s)
    /\ UNCHANGED <<service, iface, preview, mobile, descriptors, history>>

(* Slip: a descriptor is closed as often as it is asked to. *)
UsableIfAny(f) == f # None

Usable(f) == f # None /\ pfd[f] = "open"

(* StartTun takes the fd over; tunDevice is overwritten without a look.    *)
StartTun(s) ==
    /\ At(s, "startTun") /\ Usable(iface[Mine(s)]) /\ core
    /\ Goto(s, "mark")
    /\ device' = iface[Mine(s)]
    /\ UNCHANGED <<service, companion, fields, stops, preview, core, descriptors, history>>

(* A stop has cleared vpnInterface: no fd, so no TUN, but no return either. *)
SkipTun(s) ==
    /\ At(s, "startTun") /\ iface[Mine(s)] = None
    /\ Goto(s, "publish")
    /\ UNCHANGED <<service, companion, fields, stops, preview, mobile, descriptors, history>>

Close(f) == closes' = [closes EXCEPT ![f] = IF @ = 2 THEN 2 ELSE @ + 1]

(* A descriptor a stop has closed or detached has no fd any more, the core *)
(* may not run, and tun.New may fail: Go does not own the fd then.         *)
StartTunFails(s) ==
    /\ At(s, "startTun") /\ iface[Mine(s)] # None /\ Throw(s)
    /\ device' = IF Usable(iface[Mine(s)]) /\ core THEN None ELSE device
    /\ UNCHANGED <<service, iface, preview, core, descriptors, history>>

(* The stack cannot be made or started: Go closes the device, thus the fd. *)
StackFails(s) ==
    /\ At(s, "startTun") /\ Usable(iface[Mine(s)]) /\ core /\ Throw(s)
    /\ device' = None /\ Close(iface[Mine(s)])
    /\ UNCHANGED <<service, iface, preview, core, pfd, made, history>>

MarkTunStarted(s) ==
    /\ At(s, "mark") /\ Goto(s, "publish")
    /\ tunStarted' = [tunStarted EXCEPT ![Mine(s)] = TRUE]
    /\ UNCHANGED <<service, companion, iface, isStopping, stops, preview, mobile, descriptors, history>>

PublishRunning(s) ==
    /\ At(s, "publish") /\ Goto(s, "finish")
    /\ setRunningState(TRUE)
    /\ UNCHANGED <<service, isStarting, fields, stops, preview, mobile, descriptors, history>>

FinishStart(s) ==
    /\ At(s, "finish") /\ Goto(s, "none")
    /\ isStarting' = FALSE
    /\ UNCHANGED <<service, isRunning, saved, fields, stops, preview, mobile, descriptors, history>>

-----------------------------------------------------------------------------
(* The coroutine of stopVpn in slot s. *)
StopGoto(s, from, to) ==
    /\ stops[s].at = from
    /\ stops' = [stops EXCEPT ![s] = IF to = "none" THEN Free ELSE [@ EXCEPT !.at = to]]

(* Mobile.stopTun closes whatever device the core has, and then Java lets  *)
(* go of the descriptor it has by now, without closing it.                 *)
StopTun(s) ==
    /\ stops[s].native /\ StopGoto(s, "release", "clear")
    /\ device' = None
    /\ IF device = None THEN UNCHANGED closes ELSE Close(device)
    /\ pfd' = LET f == iface[stops[s].inst]
              IN  IF Usable(f) THEN [pfd EXCEPT ![f] = "detached"] ELSE pfd
    /\ UNCHANGED <<service, companion, fields, starts, preview, core, made, history>>

(* Java still owns the fd and closes it, once. *)
CloseInterface(s) ==
    /\ ~stops[s].native /\ StopGoto(s, "release", "clear")
    /\ LET f == iface[stops[s].inst]
       IN  IF Usable(f) THEN pfd' = [pfd EXCEPT ![f] = "closed"] /\ Close(f)
                        ELSE UNCHANGED <<pfd, closes>>
    /\ UNCHANGED <<service, companion, fields, starts, preview, mobile, made, history>>

ClearInterface(s) ==
    /\ StopGoto(s, "clear", "stopSelf")
    /\ iface' = [iface EXCEPT ![stops[s].inst] = None]
    /\ UNCHANGED <<service, companion, isStopping, tunStarted, starts, preview, mobile, descriptors, history>>

StopSelf(s) ==
    /\ StopGoto(s, "stopSelf", "stopCore")
    /\ dying' = Stopped(stops[s].inst)
    /\ UNCHANGED <<inst, created, companion, fields, starts, preview, mobile, descriptors, history>>

StopCore(s) ==
    /\ StopGoto(s, "stopCore", "none")
    /\ core' = FALSE
    /\ UNCHANGED <<service, companion, fields, starts, preview, device, descriptors, history>>

-----------------------------------------------------------------------------
(* ensureCoreLoadedForPreview, from the list of proxies. *)
PreviewGoto(from, to) ==
    /\ preview = from /\ preview' = to
    /\ UNCHANGED <<service, companion, fields, starts, stops, device, descriptors>>

Preview ==
    /\ PreviewGoto("none", "check") /\ Command
    /\ UNCHANGED <<core, wanted>>

PreviewCheck ==
    /\ PreviewGoto("check", IF ~core THEN "startCore" ELSE IF saved THEN "none" ELSE "reload")
    /\ UNCHANGED <<core, history>>

PreviewReload == PreviewGoto("reload", "none") /\ UNCHANGED <<core, history>>

(* StartWithPath: entered while the core does not run, refused otherwise;  *)
(* a configuration that does not parse is refused as well.                 *)
PreviewEnter == ~core /\ PreviewGoto("startCore", "applying") /\ UNCHANGED <<core, history>>
PreviewRefused == PreviewGoto("startCore", "none") /\ UNCHANGED <<core, history>>

PreviewStarted ==
    /\ PreviewGoto("applying", "none")
    /\ core' = TRUE
    /\ UNCHANGED history

-----------------------------------------------------------------------------
(* The process dies and leaves what it saved; the kernel closes its fds.   *)
ProcessDies ==
    /\ deaths < MaxDeaths /\ deaths' = deaths + 1
    /\ inst' = None /\ dying' = FALSE
    /\ isRunning' = FALSE /\ isStarting' = FALSE
    /\ iface' = Nothing /\ isStopping' = Unset /\ tunStarted' = Unset
    /\ starts' = NoCoroutine /\ stops' = NoCoroutine /\ preview' = "none"
    /\ core' = FALSE /\ device' = None
    /\ pfd' = [f \in Fds |-> IF pfd[f] = "none" THEN "none" ELSE "closed"]
    /\ closes' = [f \in Fds |-> IF pfd[f] # "none" /\ closes[f] = 0 THEN 1 ELSE closes[f]]
    /\ overlap' = FALSE
    /\ UNCHANGED <<saved, created, made, commands, wanted>>

(* START_STICKY: Android makes the service again, with a null intent.      *)
StickyRestart ==
    /\ deaths > 0 /\ inst = None /\ created + 1 \in Instances
    /\ inst' = created + 1 /\ created' = created + 1
    /\ UNCHANGED <<dying, companion, fields, coroutines, mobile, descriptors, history>>

StartStep(s) ==
    \/ Establish(s)
    \/ EstablishNull(s)
    \/ EstablishFails(s)
    \/ CheckCore(s)
    \/ ReloadCore(s)
    \/ EnterCore(s)
    \/ CoreStarted(s)
    \/ ConfigFails(s)
    \/ StartTun(s)
    \/ SkipTun(s)
    \/ StartTunFails(s)
    \/ StackFails(s)
    \/ MarkTunStarted(s)
    \/ PublishRunning(s)
    \/ FinishStart(s)

StopStep(s) == StopTun(s) \/ CloseInterface(s) \/ ClearInterface(s) \/ StopSelf(s) \/ StopCore(s)

PreviewStep == PreviewCheck \/ PreviewReload \/ PreviewEnter \/ PreviewRefused \/ PreviewStarted

Next ==
    \/ \E i \in Instances : startVpn(i) \/ StopCommand(i)
    \/ onRevoke
    \/ onDestroy
    \/ \E s \in Slots : StartStep(s) \/ StopStep(s)
    \/ Preview
    \/ PreviewStep
    \/ ProcessDies
    \/ StickyRestart

Spec == Init /\ [][Next]_vars

-----------------------------------------------------------------------------
Open(f) == pfd[f] # "none" /\ closes[f] = 0
Released == device = None /\ \A f \in Fds : ~Open(f)
Calm == ~InFlight /\ ~overlap

(* "Running" on the switch means the core runs and reads the very          *)
(* interface the instance holds, through any sequence of starts, stops,    *)
(* failures and previews that do not overlap.                              *)
RunningMeansUp ==
    Calm /\ isRunning =>
        inst # None /\ core /\ device # None /\ device = iface[inst] /\ Open(device)

(* And when it says otherwise nothing is left of the VPN, whichever step   *)
(* of the start failed: no interface is open, so Android shows no lock.    *)
StoppedMeansReleased == Calm /\ ~isRunning => Released

(* The flag that makes startVpn refuse a second start is never left up:    *)
(* a start is under way that will take it down, whatever overlaps.         *)
StartingIsUnderWay == isStarting => Busy(starts)

(* However often a stop is asked for (the command, onRevoke, onDestroy, a  *)
(* failed start), the VPN is torn down once.                               *)
TornDownOnce == ~overlap => Cardinality({s \in Slots : stops[s].at # "none"}) <= 1

(* After a stop that no start follows the VPN is gone, once everything has *)
(* come to rest: "stopScope ... so that Mobile.stopTun() surely runs".     *)
StopReleasesTun == ~InFlight /\ wanted = "stop" => Released

(* Go and Java never close the same fd twice. *)
ClosedOnce == \A f \in Fds : closes[f] <= 1
=============================================================================
