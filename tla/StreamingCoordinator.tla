------------------------ MODULE StreamingCoordinator ------------------------
(***************************************************************************)
(* The host's StreamingCoordinator, composed with its control server.      *)
(*                                                                         *)
(* A CAPS message runs OnCapsReceived on the read task of the connection   *)
(* it came from, a SETTING_REQUEST runs OnSettingRequestReceived there,    *)
(* the poll timer reconciles the virtual display, and quitting disposes    *)
(* everything.  They share the negotiated mode, the applied mode, the      *)
(* video pipeline and the display device, under one gate that is tried     *)
(* and never waited for.  A program counter per thread gives the places    *)
(* where another thread may come in between.                               *)
(*                                                                         *)
(* Left out: the estimated bitrate, which is a function of the resolution, *)
(* the rate and the quality preset and is written where the rate is; the   *)
(* touch messages (InputDispatch); the adb tunnels the poll also restores; *)
(* sleeps and logging.                                                     *)
(***************************************************************************)
EXTENDS ControlSocketServer

CONSTANTS
    Caps,               \* CAPS messages a tablet may send
    SettingRequests,    \* SETTING_REQUEST messages a tablet may send
    Resolutions,        \* panel sizes
    Placeholder,        \* DeviceCaps.Placeholder
    PrimarySize,        \* the size of the primary screen
    InitialSettings,    \* settings that may be on disk
    Ticks,              \* timer callbacks that may be alive together
    Events              \* how tablets leave, what may fail, whether the user quits

Codecs == {"H264", "HEVC"}
CodecSettings == {"Auto", "ForceH264", "ForceHevc"}
Rates == {60, 90, 120}
MaxRefreshRateHz == 120

\* SETTING_REQUEST for StreamingCodec and for DisplayRefreshRateHz, the two
\* fields that need a new mode
CodecRequests == [codec : CodecSettings]
RateRequests == [hz : Rates]

\* fps 0 leaves the rate to the native encoder (before the first CAPS)
Modes == [res : Resolutions, fps : Rates \cup {0}, codec : Codecs]
ASSUME CapsAssumption ==
    Caps \subseteq [res : Resolutions, hz : SUBSET Rates, codecs : SUBSET Codecs]
ASSUME RequestAssumption == SettingRequests \subseteq CodecRequests \cup RateRequests
ASSUME SettingsAssumption ==
    InitialSettings \subseteq [codec : CodecSettings, hz : Rates]
ASSUME MessagesAssumption == Messages = Caps \cup SettingRequests
ASSUME OutAssumption == OutMessages = {"CONFIG", "MODE_CHANGE"}
ASSUME ThreadAssumption == /\ Ticks \cap Clients = {}
                           /\ None \notin Ticks \cup Modes
                           /\ {Placeholder, PrimarySize} \subseteq Resolutions
ASSUME EventsAssumption ==
    Events \subseteq {"close", "reset",                       \* how a tablet may leave
                      "enable", "disable", "ready",           \* driver calls that may fail
                      "late", "native", "hang", "bind",       \* capture and socket failures
                      "save",                                 \* the settings file cannot be written
                      "quit", "slowQuit"}

Threads == Clients \cup Ticks

VARIABLES
    settings,       \* _settings: the codec preference and the refresh-rate cap
    active,         \* _deviceCaps, _activeFps and _activeCodec, written one by one
    appliedMode,    \* _appliedMode, None for null
    pipelineUp,     \* _videoPipelineUp
    listening,      \* the video server accepts connections
    boundPort,      \* its BoundPort: the tunnelled port, 0, or one Windows chose
    source,         \* _frameSource: what capture and encoder were built for
    abandoned,      \* s_nativeInitAbandoned
    gate,           \* holder of _applyModeGate
    device,         \* external: the virtual display as Windows has it, and its settings file
    belief,         \* _driverEnabledBelief: "unknown", "on", "off"
    noSessionTicks, \* _noSessionTicks, which only matters up to 2
    polling,        \* _adbPollInProgress
    desired,        \* a tick's desiredEnabled, FALSE between ticks
    chosen,         \* a SETTING_REQUEST's chosenCodec, "H264" between requests
    pc,             \* where each thread stands
    quit,           \* progress of Dispose and of the process exit
    greeted         \* external: the tablet has sent CAPS on this connection

coordVars == <<settings, active, appliedMode, pipelineUp, listening, boundPort, source, abandoned, gate,
               device, belief, noSessionTicks, polling, desired, chosen, pc, quit, greeted>>
vars == <<serverVars, coordVars>>

modeVars == <<settings, active, appliedMode>>
videoVars == <<pipelineUp, listening, boundPort, source, abandoned>>
driverVars == <<device, belief>>
tickVars == <<noSessionTicks, polling, desired>>
lifeVars == <<quit, greeted>>

Min2(a, b) == IF a < b THEN a ELSE b
----------------------------------------------------------------------------
(* Selection of the mode *)

\* The highest rate the tablet supports under the user's cap, at least 60
ChooseHz(supportedHz) ==
    LET cap == Min2(settings.hz, MaxRefreshRateHz)
        fit == {60} \cup {h \in supportedHz : h <= cap /\ h > 60}
    IN  CHOOSE best \in fit : \A h \in fit : h <= best

\* Auto prefers HEVC when the tablet decodes it
ChooseCodec(supportedCodecs) ==
    CASE settings.codec = "ForceH264" -> "H264"
      [] settings.codec = "ForceHevc" -> "HEVC"
      [] OTHER -> IF "HEVC" \in supportedCodecs THEN "HEVC" ELSE "H264"

\* PushSettingsChange does not look at what the tablet supports
PushedCodec == IF settings.codec = "ForceH264" THEN "H264" ELSE "HEVC"

----------------------------------------------------------------------------
(* The virtual display and the frame source *)

NoSource == [kind |-> "none", mode |-> [res |-> Placeholder, fps |-> 0, codec |-> "H264"],
             live |-> FALSE]

\* Disabling or restarting the device kills a duplication of its output.
Killed(s) == [s EXCEPT !.live = @ /\ s.kind # "virtual"]

\* A device that comes up reads its resolution from its settings file.
EnableSucceeds ==
    device' = [device EXCEPT !.on = TRUE, !.res = IF device.on THEN device.res ELSE device.file]
EnableFails == "enable" \in Events /\ UNCHANGED device
DisableSucceeds == /\ device' = [device EXCEPT !.on = FALSE]
                   /\ source' = Killed(source)
DisableFails == "disable" \in Events /\ UNCHANGED <<device, source>>

\* A frame source of some kind, with the encoder configured from the shared mode
\* and the size of what it captures
Built(kind) ==
    [kind |-> kind, live |-> TRUE,
     mode |-> [active EXCEPT !.res = IF kind = "virtual" THEN device.res ELSE PrimarySize]]

\* What CreateFrameSourceGuarded, with its retries, may come back with: native
\* capture of the virtual display, native capture of the primary screen when the
\* virtual one is not there (or attaches too late), or the GDI/stub fallback when
\* native fails or has hung before.
MayBuild(kind) ==
    \/ kind = "virtual" /\ ~abandoned /\ device.on
    \/ kind = "primary" /\ ~abandoned /\ (~device.on \/ "late" \in Events)
    \/ kind = "fallback" /\ (abandoned \/ "native" \in Events)

\* A native init that hangs past the timeout is abandoned, for good.
BuildSource ==
    \/ /\ \E kind \in {"virtual", "primary", "fallback"} : MayBuild(kind) /\ source' = Built(kind)
       /\ UNCHANGED abandoned
    \/ /\ ~abandoned /\ "hang" \in Events
       /\ source' = Built("fallback")
       /\ abandoned' = TRUE

\* The state inside Start once the video server listens; HostStarts opens the
\* control server and arms the poll timer.  The device may have been left enabled
\* or disabled by an earlier run.
Init ==
    /\ ServerInit
    /\ settings \in InitialSettings
    /\ active = [res |-> Placeholder, fps |-> 0,
                 codec |-> IF settings.codec = "ForceHevc" THEN "HEVC" ELSE "H264"]
    /\ device \in [on : BOOLEAN, res : {Placeholder}, file : {Placeholder}]
    /\ \/ /\ abandoned = FALSE
          /\ \E kind \in {"virtual", "primary", "fallback"} : MayBuild(kind) /\ source = Built(kind)
       \/ "hang" \in Events /\ abandoned = TRUE /\ source = Built("fallback")
    /\ appliedMode = None
    /\ pipelineUp = TRUE
    /\ listening = TRUE
    /\ boundPort = "tunnel"
    /\ gate = None
    /\ belief = "unknown"
    /\ noSessionTicks = 0
    /\ polling = FALSE
    /\ desired = [t \in Ticks |-> FALSE]
    /\ chosen = [c \in Clients |-> "H264"]
    /\ pc = [t \in Threads |-> "idle"]
    /\ quit = "no"
    /\ greeted = [c \in Clients |-> FALSE]
----------------------------------------------------------------------------
(* Helpers of the steps *)

Alive == quit # "gone"

\* Thread t, standing at `from', goes on at `to'.
Goto(t, from, to) == Alive /\ pc[t] = from /\ pc' = [pc EXCEPT ![t] = to]

----------------------------------------------------------------------------
(* OnCapsReceived, on the read task of c: the shared mode first *)

\* The tablet's message reaches its handler.
HandlerStarts(c) ==
    /\ Alive
    /\ ReadMessage(c)
    /\ pc' = [pc EXCEPT ![c] = IF Head(inbox[c]) \in Caps THEN "res" ELSE "store"]
    /\ UNCHANGED <<modeVars, videoVars, gate, driverVars, tickVars, chosen, lifeVars>>

CapsResolution(c) ==
    /\ Goto(c, "res", "codec")
    /\ active' = [active EXCEPT !.res = handling[c].res]
    /\ UNCHANGED <<serverVars, settings, appliedMode, videoVars, gate, driverVars, tickVars,
                   chosen, lifeVars>>

CapsCodec(c) ==
    /\ Goto(c, "codec", "rate")
    /\ active' = [active EXCEPT !.codec = ChooseCodec(handling[c].codecs)]
    /\ UNCHANGED <<serverVars, settings, appliedMode, videoVars, gate, driverVars, tickVars,
                   chosen, lifeVars>>

CapsRate(c) ==
    /\ Goto(c, "rate", "compare")
    /\ active' = [active EXCEPT !.fps = ChooseHz(handling[c].hz)]
    /\ UNCHANGED <<serverVars, settings, appliedMode, videoVars, gate, driverVars, tickVars,
                   chosen, lifeVars>>

\* Mutation of IncomingMode: the shared resolution.
SharedMode(c) == active

\* Mutation of IncomingMode: the rate cap for the chosen rate.
UncappedMode(c) == [active EXCEPT !.res = handling[c].res, !.fps = settings.hz]

\* incomingMode: the resolution of this CAPS, the rate and codec of whoever
\* wrote the shared fields last
IncomingMode(c) == [active EXCEPT !.res = handling[c].res]

\* Mutation of CapsUnchanged: only the resolution is compared.
CapsSameResolution(c) ==
    /\ Goto(c, "compare", "config")
    /\ pipelineUp /\ appliedMode # None /\ appliedMode.res = handling[c].res
    /\ UNCHANGED <<serverVars, modeVars, videoVars, gate, driverVars, tickVars, chosen, lifeVars>>

\* Mutation of CapsUnchanged: nothing to do, so nothing is answered.
CapsUnanswered(c) ==
    /\ Goto(c, "compare", "done")
    /\ pipelineUp /\ appliedMode = IncomingMode(c)
    /\ UNCHANGED <<serverVars, modeVars, videoVars, gate, driverVars, tickVars, chosen, lifeVars>>

\* The mode is the one already applied and the pipeline is alive: only CONFIG.
CapsUnchanged(c) ==
    /\ Goto(c, "compare", "config")
    /\ pipelineUp /\ appliedMode = IncomingMode(c)
    /\ UNCHANGED <<serverVars, modeVars, videoVars, gate, driverVars, tickVars, chosen, lifeVars>>

\* Mutation of CapsChanged: no comparison.
CapsAlwaysApply(c) ==
    /\ Goto(c, "compare", "gate")
    /\ UNCHANGED <<serverVars, modeVars, videoVars, gate, driverVars, tickVars, chosen, lifeVars>>

CapsChanged(c) ==
    /\ Goto(c, "compare", "gate")
    /\ ~(pipelineUp /\ appliedMode = IncomingMode(c))
    /\ UNCHANGED <<serverVars, modeVars, videoVars, gate, driverVars, tickVars, chosen, lifeVars>>

\* Mutation of CapsEnters: no gate.
CapsEntersAnyway(c) ==
    /\ Goto(c, "gate", "enable")
    /\ gate' = c
    /\ UNCHANGED <<serverVars, modeVars, videoVars, driverVars, tickVars, chosen, lifeVars>>

\* Monitor.TryEnter
CapsEnters(c) ==
    /\ Goto(c, "gate", "enable")
    /\ gate = None
    /\ gate' = c
    /\ UNCHANGED <<serverVars, modeVars, videoVars, driverVars, tickVars, chosen, lifeVars>>

\* Another apply is in flight: the CAPS is dropped, without a CONFIG.
CapsDropped(c) ==
    /\ Goto(c, "gate", "done")
    /\ gate # None
    /\ UNCHANGED <<serverVars, modeVars, videoVars, gate, driverVars, tickVars, chosen, lifeVars>>

----------------------------------------------------------------------------
(* ApplyVirtualDisplayResolution, under the gate *)

ApplyEnables(c) ==
    /\ \/ Goto(c, "enable", "believe") /\ EnableSucceeds
       \/ Goto(c, "enable", "ready") /\ EnableFails
    /\ UNCHANGED <<serverVars, modeVars, videoVars, gate, belief, tickVars, chosen, lifeVars>>

ApplyBelieves(c) ==
    /\ Goto(c, "believe", "ready")
    /\ belief' = "on"
    /\ UNCHANGED <<serverVars, modeVars, videoVars, gate, device, tickVars, chosen, lifeVars>>

\* EnsureReady: the resolution is written and the device restarted, or a step fails,
\* before the file is written or after, and the current frame source is kept.
ApplyReady(c) ==
    /\ \/ /\ Goto(c, "ready", "announce")
          /\ device' = [device EXCEPT !.res = handling[c].res, !.file = handling[c].res]
          /\ source' = Killed(source)
       \/ /\ Goto(c, "ready", "release")
          /\ "ready" \in Events
          /\ device' \in {device, [device EXCEPT !.file = handling[c].res]}
          /\ UNCHANGED source
    /\ UNCHANGED <<serverVars, modeVars, pipelineUp, listening, boundPort, abandoned, gate, belief,
                   tickVars, chosen, lifeVars>>

\* MODE_CHANGE goes out before the video socket goes down.
ApplyAnnounces(c) ==
    /\ Goto(c, "announce", "teardown")
    /\ SendMessage("MODE_CHANGE")
    /\ UNCHANGED <<modeVars, videoVars, gate, driverVars, tickVars, chosen, lifeVars>>

----------------------------------------------------------------------------
(* RecreateFrameSourceForNewResolution, under the gate *)

TearDown(c) ==
    /\ Goto(c, "teardown", "build")
    /\ pipelineUp' = FALSE
    /\ listening' = FALSE
    /\ source' = NoSource
    /\ UNCHANGED <<serverVars, modeVars, boundPort, abandoned, gate, driverVars, tickVars, chosen, lifeVars>>

\* Mutation of Rebuild: a native Init that fails ends the apply.
RebuildGivesUp(c) ==
    /\ Goto(c, "build", "release")
    /\ UNCHANGED <<serverVars, modeVars, videoVars, gate, driverVars, tickVars, chosen, lifeVars>>

\* Mutation of Rebuild: a second native Init is tried after one that hung, and
\* blocks on the state that one still holds.
RebuildBlocks(c) ==
    /\ Goto(c, "build", "listen")
    /\ ~abandoned /\ BuildSource
    /\ UNCHANGED <<serverVars, modeVars, pipelineUp, listening, boundPort, gate, driverVars, tickVars,
                   chosen, lifeVars>>

Rebuild(c) ==
    /\ Goto(c, "build", "listen")
    /\ BuildSource
    /\ UNCHANGED <<serverVars, modeVars, pipelineUp, listening, boundPort, gate, driverVars, tickVars,
                   chosen, lifeVars>>

ListenAgain(c) ==
    /\ Goto(c, "listen", "record")
    /\ pipelineUp' = TRUE
    /\ listening' = TRUE
    /\ boundPort' = IF boundPort = "zero" THEN "other" ELSE boundPort
    /\ UNCHANGED <<serverVars, modeVars, source, abandoned, gate, driverVars, tickVars,
                   chosen, lifeVars>>

\* VideoStreamServer.Start throws: the new server has no BoundPort, the gate is
\* released on the way out and the control connection is dropped.
ListenFails(c) ==
    /\ Goto(c, "listen", "idle")
    /\ "bind" \in Events
    /\ boundPort' = "zero"
    /\ gate' = None
    /\ HandlerThrows(c)
    /\ UNCHANGED <<modeVars, pipelineUp, listening, source, abandoned, driverVars, tickVars, chosen, lifeVars>>

\* What is now applied: after CAPS, its resolution with the shared rate and
\* codec; after a codec change, the codec alone.
Record(c) ==
    /\ Goto(c, "record", "release")
    /\ \/ handling[c] \in Caps /\ appliedMode' = IncomingMode(c)
       \/ /\ handling[c] \notin Caps
          /\ appliedMode' = IF appliedMode = None THEN None
                            ELSE [appliedMode EXCEPT !.codec = chosen[c]]
    /\ UNCHANGED <<serverVars, settings, active, videoVars, gate, driverVars, tickVars,
                   chosen, lifeVars>>

Release(c) ==
    /\ Goto(c, "release", IF handling[c] \in Caps THEN "config" ELSE "done")
    /\ gate' = None
    /\ UNCHANGED <<serverVars, modeVars, videoVars, driverVars, tickVars, chosen, lifeVars>>

SendConfig(c) ==
    /\ Goto(c, "config", "done")
    /\ SendMessage("CONFIG")
    /\ UNCHANGED <<modeVars, videoVars, gate, driverVars, tickVars, chosen, lifeVars>>

HandlerEnds(c) ==
    /\ Goto(c, "done", "idle")
    /\ HandlerReturns(c)
    /\ chosen' = [chosen EXCEPT ![c] = "H264"]
    /\ UNCHANGED <<modeVars, videoVars, gate, driverVars, tickVars, lifeVars>>

----------------------------------------------------------------------------
(* OnSettingRequestReceived and PushSettingsChange, on the read task of c *)

RequestedSettings(c) ==
    IF handling[c] \in CodecRequests THEN [settings EXCEPT !.codec = handling[c].codec]
                                     ELSE [settings EXCEPT !.hz = handling[c].hz]

\* Nothing throws the SettingsValidationException that the handler catches:
\* SettingsStore.Validate is empty.
StoreSetting(c) ==
    /\ Goto(c, "store", "push")
    /\ settings' = RequestedSettings(c)
    /\ UNCHANGED <<serverVars, active, appliedMode, videoVars, gate, driverVars, tickVars,
                   chosen, lifeVars>>

\* The file cannot be written: the setting stays in memory, the tablet is not told
\* and the control connection is dropped.
StoreFails(c) ==
    /\ Goto(c, "store", "idle")
    /\ "save" \in Events
    /\ settings' = RequestedSettings(c)
    /\ HandlerThrows(c)
    /\ UNCHANGED <<active, appliedMode, videoVars, gate, driverVars, tickVars, chosen, lifeVars>>

\* MODE_CHANGE is sent with the user's rate cap and PushedCodec, whatever CAPS chose.
PushMode(c) ==
    /\ Goto(c, "push", IF handling[c] \in CodecRequests THEN "switch" ELSE "done")
    /\ chosen' = [chosen EXCEPT ![c] = PushedCodec]
    /\ SendMessage("MODE_CHANGE")
    /\ UNCHANGED <<modeVars, videoVars, gate, driverVars, tickVars, lifeVars>>

\* Only a codec that differs from the active one leads to a new pipeline.
SwitchCodec(c) ==
    /\ Goto(c, "switch", IF chosen[c] # active.codec THEN "codecGate" ELSE "done")
    /\ active' = [active EXCEPT !.codec = chosen[c]]
    /\ UNCHANGED <<serverVars, settings, appliedMode, videoVars, gate, driverVars, tickVars,
                   chosen, lifeVars>>

CodecEnters(c) ==
    /\ Goto(c, "codecGate", "teardown")
    /\ gate = None
    /\ gate' = c
    /\ UNCHANGED <<serverVars, modeVars, videoVars, driverVars, tickVars, chosen, lifeVars>>

\* Busy: skipped, with the active codec already changed.
CodecSkipped(c) ==
    /\ Goto(c, "codecGate", "done")
    /\ gate # None
    /\ UNCHANGED <<serverVars, modeVars, videoVars, gate, driverVars, tickVars, chosen, lifeVars>>

----------------------------------------------------------------------------
(* OnAdbPollTick and ReconcileDriverState, on a timer callback t *)

\* Dispose of the timer does not wait for a callback that is already running.
TickStarts(t) ==
    /\ Goto(t, "idle", "sample")
    /\ server # "new" /\ quit = "no"
    /\ ~polling
    /\ polling' = TRUE
    /\ UNCHANGED <<serverVars, modeVars, videoVars, gate, driverVars, noSessionTicks, desired,
                   chosen, lifeVars>>

\* One look at the slot, and nothing before the second tick without a session
TickSamples(t) ==
    LET ticks == IF HasClient THEN 0 ELSE Min2(noSessionTicks + 1, 2)
    IN  /\ Goto(t, "sample", IF ~HasClient /\ ticks < 2 THEN "tickDone" ELSE "decide")
        /\ noSessionTicks' = ticks
        /\ desired' = [desired EXCEPT ![t] = HasClient]
        /\ UNCHANGED <<serverVars, modeVars, videoVars, gate, driverVars, polling, chosen, lifeVars>>

\* Nothing when the device is believed to be as desired
TickDecides(t) ==
    /\ Goto(t, "decide", IF belief = (IF desired[t] THEN "on" ELSE "off") THEN "tickDone" ELSE "drive")
    /\ UNCHANGED <<serverVars, modeVars, videoVars, gate, driverVars, tickVars, chosen, lifeVars>>

TickEnables(t) ==
    /\ Goto(t, "drive", "assume")
    /\ desired[t]
    /\ EnableSucceeds \/ EnableFails
    /\ UNCHANGED <<serverVars, modeVars, videoVars, gate, belief, tickVars, chosen, lifeVars>>

TickDisables(t) ==
    /\ Goto(t, "drive", "forget")
    /\ ~desired[t]
    /\ (DisableSucceeds \/ DisableFails)
    /\ UNCHANGED <<serverVars, modeVars, pipelineUp, listening, boundPort, abandoned, gate, belief,
                   tickVars, chosen, lifeVars>>

\* The capture may be dead now: the next CAPS must apply in full.
TickForgets(t) ==
    /\ Goto(t, "forget", "assume")
    /\ appliedMode' = None
    /\ UNCHANGED <<serverVars, settings, active, videoVars, gate, driverVars, tickVars,
                   chosen, lifeVars>>

\* Mutation of TickAssumes: the belief is not set.
TickAssumesNothing(t) ==
    /\ Goto(t, "assume", "tickDone")
    /\ UNCHANGED <<serverVars, modeVars, videoVars, gate, driverVars, tickVars, chosen, lifeVars>>

\* The belief is set whether or not devcon succeeded.
TickAssumes(t) ==
    /\ Goto(t, "assume", "tickDone")
    /\ belief' = IF desired[t] THEN "on" ELSE "off"
    /\ UNCHANGED <<serverVars, modeVars, videoVars, gate, device, tickVars, chosen, lifeVars>>

TickEnds(t) ==
    /\ Goto(t, "tickDone", "idle")
    /\ polling' = FALSE
    /\ desired' = [desired EXCEPT ![t] = FALSE]
    /\ UNCHANGED <<serverVars, modeVars, videoVars, gate, driverVars, noSessionTicks, chosen, lifeVars>>

----------------------------------------------------------------------------
(* QuitApplication and Dispose *)

\* The user quits: the timer is disposed, then the control server stopped.
QuitBegins ==
    /\ "quit" \in Events
    /\ quit = "no"
    /\ quit' = "timer"
    /\ StopListening
    /\ UNCHANGED <<modeVars, videoVars, gate, driverVars, tickVars, chosen, pc, greeted>>

QuitClearsSlot ==
    /\ quit = "timer"
    /\ quit' = "control"
    /\ StopClearsSlot
    /\ UNCHANGED <<modeVars, videoVars, gate, driverVars, tickVars, chosen, pc, greeted>>

QuitStopsVideo ==
    /\ quit = "control"
    /\ quit' = "video"
    /\ listening' = FALSE
    /\ source' = NoSource
    /\ UNCHANGED <<serverVars, modeVars, pipelineUp, boundPort, abandoned, gate, driverVars, tickVars,
                   chosen, pc, greeted>>

\* Mutation of QuitDisables: only a display believed to be on.
QuitDisablesBelieved ==
    /\ quit = "video"
    /\ quit' = "disabled"
    /\ IF belief = "on" THEN DisableSucceeds \/ DisableFails ELSE UNCHANGED <<device, source>>
    /\ UNCHANGED <<serverVars, modeVars, pipelineUp, listening, boundPort, abandoned, gate, belief,
                   tickVars, chosen, pc, greeted>>

QuitDisables ==
    /\ quit = "video"
    /\ quit' = "disabled"
    /\ (DisableSucceeds \/ DisableFails)
    /\ UNCHANGED <<serverVars, modeVars, pipelineUp, listening, boundPort, abandoned, gate, belief,
                   tickVars, chosen, pc, greeted>>

\* Environment.Exit, once Dispose has returned or has been waited for long
\* enough: every thread ends where it is.
ProcessExits ==
    /\ quit = "disabled" \/ ("slowQuit" \in Events /\ quit \notin {"no", "gone"})
    /\ quit' = "gone"
    /\ UNCHANGED <<serverVars, modeVars, videoVars, gate, driverVars, tickVars, chosen, pc, greeted>>

----------------------------------------------------------------------------
(* The steps of the control server and of the tablet *)

HostStarts == /\ Start
              /\ UNCHANGED coordVars

\* The steps of a connection's task outside its handlers
TaskStep(c) ==
    /\ Alive
    /\ Register(c) \/ SpawnCancelled(c) \/ LoopCheck(c) \/ ReadFails(c) \/ Leave(c)
    /\ UNCHANGED coordVars

TabletConnects(c) ==
    /\ Alive
    /\ Accept(c)
    /\ greeted' = [greeted EXCEPT ![c] = FALSE]
    /\ UNCHANGED <<modeVars, videoVars, gate, driverVars, tickVars, chosen, pc, quit>>

\* A tablet sends CAPS once, first of all; a presence probe sends nothing.
TabletSends(c) ==
    /\ Alive
    /\ \E m \in (IF greeted[c] THEN SettingRequests ELSE Caps) : PeerSend(c, m)
    /\ greeted' = [greeted EXCEPT ![c] = TRUE]
    /\ UNCHANGED <<modeVars, videoVars, gate, driverVars, tickVars, chosen, pc, quit>>

TabletLeaves(c) ==
    /\ Alive
    /\ \/ "close" \in Events /\ PeerClose(c)
       \/ "reset" \in Events /\ PeerReset(c)
    /\ UNCHANGED coordVars

----------------------------------------------------------------------------

CapsHandler(c) ==
    \/ CapsResolution(c) \/ CapsCodec(c) \/ CapsRate(c)
    \/ CapsUnchanged(c) \/ CapsChanged(c) \/ CapsEnters(c) \/ CapsDropped(c)
    \/ ApplyEnables(c) \/ ApplyBelieves(c) \/ ApplyReady(c) \/ ApplyAnnounces(c)
    \/ SendConfig(c)

Recreate(c) ==
    TearDown(c) \/ Rebuild(c) \/ ListenAgain(c) \/ ListenFails(c) \/ Record(c) \/ Release(c)

SettingHandler(c) ==
    \/ StoreSetting(c) \/ StoreFails(c) \/ PushMode(c)
    \/ SwitchCodec(c) \/ CodecEnters(c) \/ CodecSkipped(c)

ClientThread(c) ==
    \/ TaskStep(c) \/ HandlerStarts(c) \/ HandlerEnds(c)
    \/ CapsHandler(c) \/ Recreate(c) \/ SettingHandler(c)

Tick(t) ==
    \/ TickStarts(t) \/ TickSamples(t) \/ TickDecides(t) \/ TickEnables(t) \/ TickDisables(t)
    \/ TickForgets(t) \/ TickAssumes(t) \/ TickEnds(t)

Quit == QuitBegins \/ QuitClearsSlot \/ QuitStopsVideo \/ QuitDisables \/ ProcessExits

Tablet(c) == TabletConnects(c) \/ TabletSends(c) \/ TabletLeaves(c)

Next ==
    \/ HostStarts
    \/ Quit
    \/ \E c \in Clients : ClientThread(c) \/ Tablet(c)
    \/ \E t \in Ticks : Tick(t)

\* Threads run, the timer keeps firing, and a Dispose that was begun goes on.
\* Nothing is assumed of the tablet, nor that the user quits.
Fairness ==
    /\ WF_vars(HostStarts)
    /\ \A c \in Clients : WF_vars(ClientThread(c))
    /\ \A t \in Ticks : WF_vars(Tick(t))
    /\ WF_vars(Quit /\ quit # "no")

Spec == Init /\ [][Next]_vars /\ Fairness

----------------------------------------------------------------------------
(* Properties that hold whatever the tablets do *)

Sources == [kind : {"none", "virtual", "primary", "fallback"}, mode : Modes, live : BOOLEAN]

Labels == {"idle", "res", "codec", "rate", "compare", "gate", "enable", "believe", "ready",
           "announce", "teardown", "build", "listen", "record", "release", "config", "done",
           "store", "push", "switch", "codecGate",
           "sample", "decide", "drive", "forget", "assume", "tickDone"}

TypeOK ==
    /\ ServerTypeOK
    /\ settings \in [codec : CodecSettings, hz : Rates]
    /\ active \in Modes
    /\ appliedMode \in Modes \cup {None}
    /\ pipelineUp \in BOOLEAN /\ listening \in BOOLEAN /\ abandoned \in BOOLEAN
    /\ boundPort \in {"tunnel", "zero", "other"}
    /\ source \in Sources
    /\ gate \in Clients \cup {None}
    /\ device \in [on : BOOLEAN, res : Resolutions, file : Resolutions]
    /\ belief \in {"unknown", "on", "off"}
    /\ noSessionTicks \in 0..2
    /\ polling \in BOOLEAN
    /\ desired \in [Ticks -> BOOLEAN]
    /\ chosen \in [Clients -> Codecs]
    /\ pc \in [Threads -> Labels]
    /\ quit \in {"no", "timer", "control", "video", "disabled", "gone"}
    /\ greeted \in [Clients -> BOOLEAN]

Applying == {"enable", "believe", "ready", "announce", "teardown", "build", "listen",
             "record", "release"}

\* Two applies never run side by side, no path through an apply forgets to
\* release the gate, and nobody releases it for someone else (RC-C).
SingleFlight == \A c \in Clients : pc[c] \in Applying <=> gate = c

\* The video port is closed only while a thread that will reopen it holds the
\* gate, or because the host is being disposed: no order of CAPS, codec
\* changes, failed or hung captures leaves it closed (RC-B), only a Start that throws.
PortDownOnlyUnderGate ==
    ~listening => \/ gate # None /\ pc[gate] \in {"build", "listen"}
                  \/ quit \notin {"no", "timer", "control"}
                  \/ boundPort # "tunnel"

\* Between applies the resolution remembered as applied is the one the display
\* driver was last restarted with, whoever else overwrote the shared mode
\* meanwhile, as long as no Start has thrown.
AppliedResolutionIsDrivers ==
    gate = None /\ appliedMode # None /\ boundPort = "tunnel" => appliedMode.res = device.res

\* The gate is tried and never waited for, so every handler comes to its end.
HandlersFinish == \A c \in Clients : pc[c] # "idle" ~> (pc[c] = "idle" \/ ~Alive)

\* Once sessions have come or gone for good the reconcile loop settles on
\* believing the display to be what they call for.
BeliefConverges ==
    /\ <>[](quit = "no" /\ ~HasClient) => <>[](belief = "off")
    /\ <>[](quit = "no" /\ HasClient) => <>[](belief = "on")

----------------------------------------------------------------------------
(* Properties of one connection at a time *)

\* "The display mode last applied SUCCESSFULLY end-to-end" (_appliedMode) is the
\* mode that the present capture of the virtual display was built for.  Whether that
\* capture still delivers is another matter: a tick that disables the display during
\* an apply leaves a dead one.
AppliedModeWasBuilt ==
    gate = None /\ appliedMode # None /\ source.kind = "virtual" /\ boundPort = "tunnel"
        => source.mode = appliedMode

\* Restarting the driver for a mode that is already applied, with the pipeline
\* alive, is "pure harm" (RC-A): it happens only for a mode that changes something.
RestartOnlyOnChange ==
    [][\A c \in Clients : pc[c] = "ready" /\ pc'[c] = "announce"
          => appliedMode # IncomingMode(c) \/ ~pipelineUp]_vars

\* As long as the driver obeys, CONFIG describes the stream the tablet is about to
\* decode, however CAPS, codec changes and new rate caps followed each other.
ConfigIsTruthful ==
    [][\A c \in Clients : pc[c] = "config" /\ pc'[c] = "done" /\ source.kind = "virtual"
          => active = source.mode]_vars

\* A tablet that stays gets its CAPS answered by a CONFIG, however the apply goes.
CapsAnswered ==
    \A c \in Clients :
        pc[c] = "res" ~> \/ lastSent[c] = "CONFIG"
                         \/ conn[c] # "open" \/ quit # "no"

\* A quit that finds no thread at work leaves no display behind: the timer and
\* the listener are down before the device is disabled, so nobody enables it again.
Quiet == /\ \A t \in Threads : pc[t] = "idle"
         /\ \A c \in Clients : task[c] = "none"

QuietQuitLeavesNoDisplay ==
    [](quit = "video" /\ Quiet => [](quit = "disabled" => ~device.on))

----------------------------------------------------------------------------
(* What the comments promise beyond that *)

\* "Busy => skip; the user can re-apply from Settings once the in-flight apply
\* finishes": a codec request that finds nothing to do, with no other handler at
\* work, finds the encoder at that codec already.
ReapplyTakesEffect ==
    [][\A c \in Clients : /\ pc[c] = "switch" /\ pc'[c] = "done" /\ listening
                          /\ \A d \in Clients \ {c} : pc[d] = "idle"
          => source.kind = "fallback" \/ source.mode.codec = chosen[c]]_vars

NoConnection == \A c \in Clients : conn[c] = "none"

\* "It guarantees the display exists ONLY while something is really using it":
\* when every tablet has gone for good, so in the end has the display.
DisplayOnlyWhileUsed ==
    <>[](NoConnection /\ quit = "no") => <>[](~device.on)

=============================================================================
