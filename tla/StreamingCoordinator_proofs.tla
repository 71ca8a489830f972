--------------------- MODULE StreamingCoordinator_proofs ---------------------
(***************************************************************************)
(* For every set of tablets, panels, settings and failures: the coordinator*)
(* drives the control server only through its own operations, and the      *)
(* apply gate keeps the display, the video port and the remembered mode    *)
(* together.                                                               *)
(***************************************************************************)
EXTENDS StreamingCoordinator, ControlSocketServer_proofs

(* The inductive invariant *)

CapsLabels == {"res", "codec", "rate", "compare", "gate", "enable", "believe", "ready",
               "announce", "config"}
RequestLabels == {"store", "push", "switch", "codecGate"}

\* A thread of a tablet is inside a handler exactly while the control server has
\* dispatched a message to it, and the handler is the one for that message.
HandlerShape ==
    \A c \in Clients :
        /\ pc[c] # "idle" <=> task[c] = "handling"
        /\ pc[c] # "idle" => handling[c] \in Messages
        /\ pc[c] \in CapsLabels => handling[c] \in Caps
        /\ pc[c] \in RequestLabels => handling[c] \in SettingRequests

\* The driver has been restarted for the CAPS that c is applying, and what is
\* remembered as applied is still the mode before it.
Restarted(c) ==
    /\ gate = c
    /\ pc[c] \in {"announce", "teardown", "build", "listen", "record"}
    /\ handling[c] \in Caps

\* No step of EnsureReady fails: one that fails after the settings file is written
\* leaves a resolution there which the display takes up when it is next enabled.
DriverObeys == "ready" \notin Events

ResolutionFollows ==
    /\ \A c \in Clients :
          Restarted(c) => device.res = handling[c].res /\ device.file = handling[c].res
    /\ DriverObeys => device.file = device.res
    /\ DriverObeys /\ boundPort = "tunnel" /\ (\A c \in Clients : ~Restarted(c)) /\ appliedMode # None
          => appliedMode.res = device.res

CoordIInv == /\ TypeOK
             /\ HandlerShape
             /\ SingleFlight
             /\ PortDownOnlyUnderGate
             /\ ResolutionFollows

----------------------------------------------------------------------------
(* The server's view of a step *)

\* The coordinator never touches the server's variables but through the
\* server's operations.
LEMMA StepIsServerStep ==
    ASSUME [Next]_vars
    PROVE  [ServerNext]_serverVars
<1> USE DEF serverVars
<1>1. CASE HostStarts
  BY <1>1 DEF HostStarts, ServerNext
<1>2. CASE Quit
  BY <1>2 DEF Quit, QuitBegins, QuitClearsSlot, QuitStopsVideo, QuitDisables, ProcessExits,
              ServerNext
<1>3. ASSUME NEW c \in Clients, TaskStep(c) \/ HandlerStarts(c) \/ HandlerEnds(c)
      PROVE  Task(c)
  BY <1>3 DEF TaskStep, HandlerStarts, HandlerEnds, Task
<1>4. ASSUME NEW c \in Clients, CapsHandler(c)
      PROVE  [ServerNext]_serverVars
  <2>1. "CONFIG" \in OutMessages /\ "MODE_CHANGE" \in OutMessages
    BY OutAssumption
  <2>2. CASE ApplyAnnounces(c) \/ SendConfig(c)
    BY <2>1, <2>2 DEF ApplyAnnounces, SendConfig, ServerNext
  <2>3. CASE ~(ApplyAnnounces(c) \/ SendConfig(c))
    BY <1>4, <2>3 DEF CapsHandler, CapsResolution, CapsCodec, CapsRate, CapsUnchanged, CapsChanged,
                CapsEnters, CapsDropped, ApplyEnables, ApplyBelieves, ApplyReady
  <2> QED BY <2>2, <2>3
<1>5. ASSUME NEW c \in Clients, Recreate(c)
      PROVE  [ServerNext]_serverVars
  <2>1. CASE ListenFails(c)
    BY <2>1 DEF ListenFails, ServerNext, Task
  <2>2. CASE ~ListenFails(c)
    BY <1>5, <2>2 DEF Recreate, TearDown, Rebuild, ListenAgain, Record, Release
  <2> QED BY <2>1, <2>2
<1>6. ASSUME NEW c \in Clients, SettingHandler(c)
      PROVE  [ServerNext]_serverVars
  <2>1. "MODE_CHANGE" \in OutMessages
    BY OutAssumption
  <2> QED BY <1>6, <2>1 DEF SettingHandler, StoreSetting, StoreFails, PushMode, SwitchCodec,
                            CodecEnters, CodecSkipped, ServerNext, Task
<1>7. ASSUME NEW c \in Clients, Tablet(c)
      PROVE  Accept(c) \/ Peer(c)
  BY <1>7, MessagesAssumption DEF Tablet, TabletConnects, TabletSends, TabletLeaves, Peer
<1>8. ASSUME NEW t \in Ticks, Tick(t)
      PROVE  UNCHANGED serverVars
  BY <1>8 DEF Tick, TickStarts, TickSamples, TickDecides, TickEnables, TickDisables, TickForgets, TickAssumes,
              TickEnds
<1>9. CASE UNCHANGED vars
  BY <1>9 DEF vars
<1> QED BY <1>1, <1>2, <1>3, <1>4, <1>5, <1>6, <1>7, <1>8, <1>9 DEF Next, ClientThread, ServerNext

----------------------------------------------------------------------------
(* Types *)

\* The lists of rates always leave a highest admissible one, and it is a rate.
LEMMA ChooseHzType ==
    ASSUME NEW supportedHz \in SUBSET Rates
    PROVE  ChooseHz(supportedHz) \in Rates
<1> DEFINE cap == Min2(settings.hz, MaxRefreshRateHz)
           fit == {60} \cup {h \in supportedHz : h <= cap /\ h > 60}
<1>1. fit \subseteq {60, 90, 120} /\ 60 \in fit
  BY DEF Rates
<1>2. \E best \in fit : \A h \in fit : h <= best
  <2> HIDE DEF fit
  <2>1. CASE 120 \in fit
    BY <1>1, <2>1
  <2>2. CASE 120 \notin fit /\ 90 \in fit
    BY <1>1, <2>2
  <2>3. CASE 120 \notin fit /\ 90 \notin fit
    BY <1>1, <2>3
  <2> QED BY <2>1, <2>2, <2>3
<1>3. (CHOOSE best \in fit : \A h \in fit : h <= best) \in fit
  <2> HIDE DEF fit
  <2> QED BY <1>2
<1> QED BY <1>1, <1>3 DEF ChooseHz, Rates

LEMMA ChooseCodecType ==
    ASSUME NEW supportedCodecs
    PROVE  ChooseCodec(supportedCodecs) \in Codecs
BY DEF ChooseCodec, Codecs

LEMMA SourceTypes ==
    ASSUME TypeOK
    PROVE  /\ NoSource \in Sources
           /\ Killed(source) \in Sources
           /\ BuildSource => source' \in Sources /\ abandoned' \in BOOLEAN
<1>1. NoSource \in Sources
  BY ThreadAssumption DEF NoSource, Sources, Modes, Codecs
<1>2. Killed(source) \in Sources
  BY DEF Killed, TypeOK, Sources
<1>3. ASSUME BuildSource
      PROVE  source' \in Sources /\ abandoned' \in BOOLEAN
  <2>1. ASSUME NEW kind \in {"virtual", "primary", "fallback"}
        PROVE  Built(kind) \in Sources
    BY ThreadAssumption DEF Built, TypeOK, Sources, Modes
  <2>2. abandoned \in BOOLEAN
    BY DEF TypeOK
  <2> QED BY <1>3, <2>1, <2>2 DEF BuildSource
<1> QED BY <1>1, <1>2, <1>3

\* What a handler may take from the message it was given.
LEMMA MessageTypes ==
    /\ \A m \in Caps : m.res \in Resolutions /\ m.hz \in SUBSET Rates
    /\ \A m \in SettingRequests : m \in CodecRequests \/ m \in RateRequests
<1>1. ASSUME NEW m \in Caps
      PROVE  m.res \in Resolutions /\ m.hz \in SUBSET Rates
  <2>1. m \in [res : Resolutions, hz : SUBSET Rates, codecs : SUBSET Codecs]
    BY CapsAssumption
  <2> QED BY <2>1
<1>2. ASSUME NEW m \in SettingRequests
      PROVE  m \in CodecRequests \/ m \in RateRequests
  BY RequestAssumption
<1> QED BY <1>1, <1>2

\* No message is both: their fields differ.
LEMMA KindsDiffer == \A m \in SettingRequests : m \notin Caps
<1> SUFFICES ASSUME NEW m \in SettingRequests, m \in Caps
             PROVE  FALSE
  OBVIOUS
<1>1. DOMAIN m = {"res", "hz", "codecs"}
  BY CapsAssumption
<1>2. DOMAIN m = {"codec"} \/ DOMAIN m = {"hz"}
  BY RequestAssumption DEF CodecRequests, RateRequests
<1> QED BY <1>1, <1>2

LEMMA RequestsDiffer == \A m \in RateRequests : m \notin CodecRequests
<1> SUFFICES ASSUME NEW m \in RateRequests, m \in CodecRequests
             PROVE  FALSE
  OBVIOUS
<1>1. DOMAIN m = {"hz"} /\ DOMAIN m = {"codec"}
  BY DEF CodecRequests, RateRequests
<1> QED BY <1>1

----------------------------------------------------------------------------
(* The handlers and the gate *)

\* A step of one thread leaves the other threads where they are.
LEMMA SingleFlightStep ==
    ASSUME TypeOK, HandlerShape, SingleFlight, [Next]_vars
    PROVE  SingleFlight'
<1> USE NoneAssumption, ThreadAssumption DEF SingleFlight, Applying, TypeOK, Goto, Threads, Labels
<1>1. CASE HostStarts
  BY <1>1 DEF HostStarts, coordVars
<1>2. CASE Quit
  BY <1>2 DEF Quit, QuitBegins, QuitClearsSlot, QuitStopsVideo, QuitDisables, ProcessExits
<1>3. ASSUME NEW c \in Clients, TaskStep(c) \/ HandlerStarts(c) \/ HandlerEnds(c)
      PROVE  SingleFlight'
  <2>1. CASE TaskStep(c)
    BY <2>1 DEF TaskStep, coordVars
  <2>2. CASE HandlerStarts(c)
    BY <2>2 DEF HandlerStarts, HandlerShape, ReadMessage
  <2>3. CASE HandlerEnds(c)
    BY <2>3 DEF HandlerEnds
  <2> QED BY <1>3, <2>1, <2>2, <2>3
<1>4. ASSUME NEW c \in Clients, CapsHandler(c)
      PROVE  SingleFlight'
  BY <1>4 DEF CapsHandler, CapsResolution, CapsCodec, CapsRate, CapsUnchanged, CapsChanged,
              CapsEnters, CapsDropped, ApplyEnables, ApplyBelieves, ApplyReady,
              ApplyAnnounces, SendConfig
<1>5. ASSUME NEW c \in Clients, Recreate(c)
      PROVE  SingleFlight'
  BY <1>5 DEF Recreate, TearDown, Rebuild, ListenAgain, ListenFails, Record, Release
<1>6. ASSUME NEW c \in Clients, SettingHandler(c)
      PROVE  SingleFlight'
  BY <1>6 DEF SettingHandler, StoreSetting, StoreFails, PushMode, SwitchCodec, CodecEnters, CodecSkipped
<1>7. ASSUME NEW c \in Clients, Tablet(c)
      PROVE  SingleFlight'
  BY <1>7 DEF Tablet, TabletConnects, TabletSends, TabletLeaves, coordVars
<1>8. ASSUME NEW t \in Ticks, Tick(t)
      PROVE  SingleFlight'
  BY <1>8 DEF Tick, TickStarts, TickSamples, TickDecides, TickEnables, TickDisables, TickForgets, TickAssumes,
              TickEnds
<1>9. CASE UNCHANGED vars
  BY <1>9 DEF vars, coordVars
<1> QED BY <1>1, <1>2, <1>3, <1>4, <1>5, <1>6, <1>7, <1>8, <1>9 DEF Next, ClientThread

\* The control server starts a handler only for a task that is reading, and only
\* the handler's own end takes the task out of it.
LEMMA HandlerShapeStep ==
    ASSUME TypeOK, HandlerShape, [Next]_vars
    PROVE  HandlerShape'
<1> USE NoneAssumption, ThreadAssumption, MessagesAssumption
    DEF HandlerShape, CapsLabels, RequestLabels, TypeOK, ServerTypeOK, TaskStates, Goto, Threads,
        Labels
<1>1. CASE HostStarts
  BY <1>1 DEF HostStarts, Start, coordVars
<1>2. CASE Quit
  BY <1>2 DEF Quit, QuitBegins, QuitClearsSlot, QuitStopsVideo, QuitDisables, ProcessExits,
              StopListening, StopClearsSlot, serverVars
<1>3. ASSUME NEW c \in Clients, TaskStep(c)
      PROVE  HandlerShape'
  <2>1. pc' = pc /\ \A d \in Clients : handling'[d] = handling[d] \/ task'[d] # "handling"
    BY <1>3 DEF TaskStep, coordVars, Register, SpawnCancelled, LoopCheck, ReadFails, Leave
  <2>2. \A d \in Clients : task'[d] = "handling" <=> task[d] = "handling"
    BY <1>3 DEF TaskStep, Register, SpawnCancelled, LoopCheck, ReadFails, Leave
  <2> QED BY <2>1, <2>2
<1>4. ASSUME NEW c \in Clients, HandlerStarts(c)
      PROVE  HandlerShape'
  <2>1. Head(inbox[c]) \in Messages
    BY <1>4 DEF HandlerStarts, ReadMessage
  <2> QED BY <1>4, <2>1 DEF HandlerStarts, ReadMessage
<1>5. ASSUME NEW c \in Clients, HandlerEnds(c)
      PROVE  HandlerShape'
  BY <1>5 DEF HandlerEnds, HandlerReturns
<1>6. ASSUME NEW c \in Clients, CapsHandler(c)
      PROVE  HandlerShape'
  <2>1. UNCHANGED <<task, handling>>
    BY <1>6 DEF CapsHandler, CapsResolution, CapsCodec, CapsRate, CapsUnchanged, CapsChanged,
                CapsEnters, CapsDropped, ApplyEnables, ApplyBelieves, ApplyReady,
                ApplyAnnounces, SendConfig, SendMessage, serverVars
  <2> QED BY <1>6, <2>1 DEF CapsHandler, CapsResolution, CapsCodec, CapsRate, CapsUnchanged,
                CapsChanged, CapsEnters, CapsDropped, ApplyEnables, ApplyBelieves, ApplyReady,
                ApplyAnnounces, SendConfig
<1>7. ASSUME NEW c \in Clients, Recreate(c)
      PROVE  HandlerShape'
  <2>1. CASE ListenFails(c)
    BY <2>1 DEF ListenFails, HandlerThrows
  <2>2. CASE ~ListenFails(c)
    BY <1>7, <2>2 DEF Recreate, TearDown, Rebuild, ListenAgain, Record, Release, serverVars
  <2> QED BY <2>1, <2>2
<1>8. ASSUME NEW c \in Clients, SettingHandler(c)
      PROVE  HandlerShape'
  <2>1. CASE StoreFails(c)
    BY <2>1 DEF StoreFails, HandlerThrows
  <2>2. CASE ~StoreFails(c)
    BY <1>8, <2>2 DEF SettingHandler, StoreSetting, PushMode, SwitchCodec, CodecEnters,
                      CodecSkipped, SendMessage, serverVars
  <2> QED BY <2>1, <2>2
<1>9. ASSUME NEW c \in Clients, Tablet(c)
      PROVE  HandlerShape'
  BY <1>9 DEF Tablet, TabletConnects, TabletSends, TabletLeaves, coordVars, Accept, PeerSend,
              PeerClose, PeerReset
<1>10. ASSUME NEW t \in Ticks, Tick(t)
       PROVE  HandlerShape'
  BY <1>10 DEF Tick, TickStarts, TickSamples, TickDecides, TickEnables, TickDisables, TickForgets, TickAssumes,
               TickEnds, serverVars
<1>11. CASE UNCHANGED vars
  BY <1>11 DEF vars, coordVars, serverVars
<1> QED BY <1>1, <1>2, <1>3, <1>4, <1>5, <1>6, <1>7, <1>8, <1>9, <1>10, <1>11
        DEF Next, ClientThread

\* Only the holder of the gate closes the port, and it goes straight on to build
\* and listen again; the other way down is Dispose.
LEMMA PortStep ==
    ASSUME TypeOK, HandlerShape, SingleFlight, PortDownOnlyUnderGate, [Next]_vars
    PROVE  PortDownOnlyUnderGate'
<1> USE NoneAssumption, ThreadAssumption
    DEF PortDownOnlyUnderGate, SingleFlight, Applying, TypeOK, Goto, Threads, Labels
<1>1. CASE HostStarts
  BY <1>1 DEF HostStarts, coordVars
<1>2. CASE Quit
  BY <1>2 DEF Quit, QuitBegins, QuitClearsSlot, QuitStopsVideo, QuitDisables, ProcessExits,
              videoVars
<1>3. ASSUME NEW c \in Clients, TaskStep(c) \/ HandlerStarts(c) \/ HandlerEnds(c)
      PROVE  PortDownOnlyUnderGate'
  <2>1. CASE TaskStep(c)
    BY <2>1 DEF TaskStep, coordVars
  <2>2. CASE HandlerStarts(c)
    BY <2>2 DEF HandlerStarts, HandlerShape, ReadMessage, videoVars, lifeVars
  <2>3. CASE HandlerEnds(c)
    BY <2>3 DEF HandlerEnds, videoVars, lifeVars
  <2> QED BY <1>3, <2>1, <2>2, <2>3
<1>4. ASSUME NEW c \in Clients, CapsHandler(c)
      PROVE  PortDownOnlyUnderGate'
  BY <1>4 DEF CapsHandler, CapsResolution, CapsCodec, CapsRate, CapsUnchanged, CapsChanged,
              CapsEnters, CapsDropped, ApplyEnables, ApplyBelieves, ApplyReady,
              ApplyAnnounces, SendConfig, videoVars, lifeVars
<1>5. ASSUME NEW c \in Clients, Recreate(c)
      PROVE  PortDownOnlyUnderGate'
  BY <1>5 DEF Recreate, TearDown, Rebuild, ListenAgain, ListenFails, Record, Release, videoVars,
              lifeVars
<1>6. ASSUME NEW c \in Clients, SettingHandler(c)
      PROVE  PortDownOnlyUnderGate'
  BY <1>6 DEF SettingHandler, StoreSetting, StoreFails, PushMode, SwitchCodec, CodecEnters, CodecSkipped,
              videoVars, lifeVars
<1>7. ASSUME NEW c \in Clients, Tablet(c)
      PROVE  PortDownOnlyUnderGate'
  BY <1>7 DEF Tablet, TabletConnects, TabletSends, TabletLeaves, coordVars, videoVars
<1>8. ASSUME NEW t \in Ticks, Tick(t)
      PROVE  PortDownOnlyUnderGate'
  BY <1>8 DEF Tick, TickStarts, TickSamples, TickDecides, TickEnables, TickDisables, TickForgets, TickAssumes,
              TickEnds, videoVars, lifeVars
<1>9. CASE UNCHANGED vars
  BY <1>9 DEF vars, coordVars
<1> QED BY <1>1, <1>2, <1>3, <1>4, <1>5, <1>6, <1>7, <1>8, <1>9 DEF Next, ClientThread

----------------------------------------------------------------------------
(* The remembered resolution *)

\* Steps outside the handlers leave the settings file and the handlers alone; they may
\* have the display read the file, and forget what was applied.
LEMMA ResolutionKept ==
    ASSUME ResolutionFollows,
           device'.file = device.file, device'.res \in {device.res, device.file},
           appliedMode' \in {appliedMode, None}, gate' = gate,
           boundPort' = boundPort,
           \A c \in Clients : /\ gate = c => pc'[c] = pc[c] /\ handling'[c] = handling[c]
    PROVE  ResolutionFollows'
BY DEF ResolutionFollows, Restarted

LEMMA ResolutionStep ==
    ASSUME TypeOK, HandlerShape, SingleFlight, ResolutionFollows, [Next]_vars
    PROVE  ResolutionFollows'
<1> USE NoneAssumption, ThreadAssumption DEF TypeOK, Goto, Threads, Labels
<1>1. CASE HostStarts \/ UNCHANGED vars
  BY <1>1, ResolutionKept DEF HostStarts, Start, coordVars, vars, serverVars
<1>2. CASE Quit
  BY <1>2, ResolutionKept DEF Quit, QuitBegins, QuitClearsSlot, QuitStopsVideo, QuitDisables, ProcessExits,
              DisableSucceeds, DisableFails, modeVars, videoVars, driverVars, serverVars, StopListening, StopClearsSlot
<1>3. ASSUME NEW c \in Clients, TaskStep(c) \/ Tablet(c)
      PROVE  ResolutionFollows'
  BY <1>3, ResolutionKept
     DEF TaskStep, coordVars, Register, SpawnCancelled, LoopCheck, ReadFails, Leave, Tablet,
         TabletConnects, TabletSends, TabletLeaves, Accept, PeerSend, PeerClose, PeerReset,
         modeVars, videoVars, driverVars
<1>4. ASSUME NEW c \in Clients, HandlerStarts(c) \/ HandlerEnds(c)
      PROVE  ResolutionFollows'
  <2>1. gate # c
    BY <1>4 DEF HandlerStarts, HandlerEnds, ReadMessage, HandlerShape, SingleFlight, Applying
  <2>2. \A d \in Clients : d # c => handling'[d] = handling[d] /\ pc'[d] = pc[d]
    BY <1>4 DEF HandlerStarts, HandlerEnds, ReadMessage, HandlerReturns, ServerTypeOK
  <2> QED BY <1>4, <2>1, <2>2, ResolutionKept DEF HandlerStarts, HandlerEnds, modeVars, videoVars,
                                                  driverVars
<1>5. ASSUME NEW t \in Ticks, Tick(t)
      PROVE  ResolutionFollows'
  <2>1. \A d \in Clients : handling'[d] = handling[d] /\ pc'[d] = pc[d]
    BY <1>5 DEF Tick, TickStarts, TickSamples, TickDecides, TickEnables, TickDisables, TickForgets,
                TickAssumes, TickEnds, serverVars
  <2>2. /\ device'.file = device.file /\ device'.res \in {device.res, device.file}
        /\ appliedMode' \in {appliedMode, None} /\ gate' = gate /\ boundPort' = boundPort
    BY <1>5 DEF Tick, TickStarts, TickSamples, TickDecides, TickEnables, TickDisables, TickForgets,
                TickAssumes, TickEnds, EnableSucceeds, EnableFails, DisableSucceeds, DisableFails,
                modeVars, videoVars, driverVars
  <2> QED BY <2>1, <2>2, ResolutionKept
<1>6. ASSUME NEW c \in Clients, CapsHandler(c)
      PROVE  ResolutionFollows'
  <2>1. handling' = handling
    BY <1>6 DEF CapsHandler, CapsResolution, CapsCodec, CapsRate, CapsUnchanged, CapsChanged,
                CapsEnters, CapsDropped, ApplyEnables, ApplyBelieves, ApplyReady,
                ApplyAnnounces, SendConfig, SendMessage, serverVars
  <2>2. CASE \/ CapsResolution(c) \/ CapsCodec(c) \/ CapsRate(c) \/ CapsUnchanged(c)
             \/ CapsChanged(c) \/ CapsDropped(c) \/ SendConfig(c)
    <3>1. gate # c
      BY <2>2 DEF CapsResolution, CapsCodec, CapsRate, CapsUnchanged, CapsChanged, CapsDropped,
                  SendConfig, SingleFlight, Applying
    <3>2. device' = device /\ appliedMode' = appliedMode /\ gate' = gate /\ boundPort' = boundPort
      BY <2>2 DEF CapsResolution, CapsCodec, CapsRate, CapsUnchanged, CapsChanged, CapsDropped,
                  SendConfig, modeVars, videoVars, driverVars
    <3>3. \A d \in Clients : d # c => pc'[d] = pc[d]
      BY <2>2 DEF CapsResolution, CapsCodec, CapsRate, CapsUnchanged, CapsChanged, CapsDropped,
                  SendConfig
    <3> QED BY <2>1, <3>1, <3>2, <3>3, ResolutionKept
  <2>3. CASE CapsEnters(c)
    BY <2>1, <2>3 DEF CapsEnters, ResolutionFollows, Restarted, modeVars, videoVars, driverVars
  <2>4. CASE ApplyEnables(c) \/ ApplyBelieves(c)
    <3>1. gate = c /\ gate' = c /\ pc'[c] \in {"believe", "ready"} /\ pc[c] \in {"enable", "believe"}
      BY <2>4 DEF ApplyEnables, ApplyBelieves, SingleFlight, Applying
    <3>2. /\ device'.file = device.file /\ device'.res \in {device.res, device.file}
          /\ appliedMode' = appliedMode /\ boundPort' = boundPort
      BY <2>4 DEF ApplyEnables, ApplyBelieves, EnableSucceeds, EnableFails, modeVars, videoVars
    <3> QED BY <3>1, <3>2 DEF ResolutionFollows, Restarted
  <2>5. CASE ApplyReady(c)
    <3>1. /\ gate = c /\ gate' = c /\ pc[c] = "ready" /\ appliedMode' = appliedMode
          /\ boundPort' = boundPort
      BY <2>5 DEF ApplyReady, SingleFlight, Applying, modeVars
    <3>2. handling[c] \in Caps
      BY <3>1 DEF HandlerShape, CapsLabels
    <3>3. \/ pc'[c] = "announce" /\ device'.res = handling[c].res /\ device'.file = handling[c].res
          \/ pc'[c] = "release" /\ ~DriverObeys
      BY <2>5 DEF ApplyReady, DriverObeys
    <3> QED BY <2>1, <3>1, <3>2, <3>3 DEF ResolutionFollows, Restarted
  <2>6. CASE ApplyAnnounces(c)
    <3>1. gate = c /\ gate' = c /\ pc[c] = "announce" /\ pc'[c] = "teardown"
      BY <2>6 DEF ApplyAnnounces, SingleFlight, Applying
    <3>2. device' = device /\ appliedMode' = appliedMode /\ boundPort' = boundPort
      BY <2>6 DEF ApplyAnnounces, modeVars, videoVars, driverVars
    <3> QED BY <2>1, <3>1, <3>2 DEF ResolutionFollows, Restarted
  <2> QED BY <1>6, <2>2, <2>3, <2>4, <2>5, <2>6 DEF CapsHandler
<1>7. ASSUME NEW c \in Clients, Recreate(c)
      PROVE  ResolutionFollows'
  <2>1. gate = c
    BY <1>7 DEF Recreate, TearDown, Rebuild, ListenAgain, ListenFails, Record, Release,
                SingleFlight, Applying
  <2>2. device' = device
    BY <1>7 DEF Recreate, TearDown, Rebuild, ListenAgain, ListenFails, Record, Release, driverVars
  <2>3. CASE TearDown(c) \/ Rebuild(c) \/ ListenAgain(c)
    <3>1. /\ gate' = c /\ handling' = handling /\ appliedMode' = appliedMode
          /\ pc[c] \in {"teardown", "build", "listen"} /\ pc'[c] \in {"build", "listen", "record"}
          /\ boundPort' = "tunnel" => boundPort = "tunnel"
      BY <2>1, <2>3 DEF TearDown, Rebuild, ListenAgain, serverVars, modeVars
    <3> QED BY <2>1, <2>2, <3>1 DEF ResolutionFollows, Restarted
  <2>4. CASE ListenFails(c)
    <3>1. gate' = None /\ boundPort' # "tunnel"
      BY <2>4 DEF ListenFails
    <3> QED BY <2>2, <3>1 DEF ResolutionFollows, Restarted
  <2>5. CASE Record(c)
    <3>1. /\ gate' = c /\ handling' = handling
          /\ pc[c] = "record" /\ pc'[c] = "release" /\ boundPort' = boundPort
      BY <2>1, <2>5 DEF Record, serverVars, videoVars
    <3>2. CASE handling[c] \in Caps
      <4>1. appliedMode' = IncomingMode(c)
        BY <2>5, <3>2 DEF Record
      <4>2. appliedMode'.res = handling[c].res
        BY <4>1 DEF IncomingMode, Modes
      <4> QED BY <2>1, <2>2, <3>1, <3>2, <4>2 DEF ResolutionFollows, Restarted
    <3>3. CASE handling[c] \notin Caps
      <4>1. appliedMode' # None => appliedMode # None /\ appliedMode'.res = appliedMode.res
        BY <2>5, <3>3 DEF Record, Modes
      <4> QED BY <2>1, <2>2, <3>1, <3>3, <4>1 DEF ResolutionFollows, Restarted
    <3> QED BY <3>2, <3>3
  <2>6. CASE Release(c)
    <3>1. /\ gate' = None /\ appliedMode' = appliedMode /\ pc[c] = "release"
          /\ boundPort' = boundPort
      BY <2>6 DEF Release, modeVars, videoVars
    <3> QED BY <2>1, <2>2, <3>1 DEF ResolutionFollows, Restarted
  <2> QED BY <1>7, <2>3, <2>4, <2>5, <2>6 DEF Recreate
<1>8. ASSUME NEW c \in Clients, SettingHandler(c)
      PROVE  ResolutionFollows'
  <2>1. /\ device' = device /\ appliedMode' = appliedMode /\ boundPort' = boundPort
        /\ \A d \in Clients \ {c} : handling'[d] = handling[d]
    <3>1. CASE StoreFails(c)
      BY <3>1 DEF StoreFails, HandlerThrows, videoVars, driverVars
    <3>2. CASE ~StoreFails(c)
      BY <1>8, <3>2 DEF SettingHandler, StoreSetting, PushMode, SwitchCodec, CodecEnters,
                  CodecSkipped, SendMessage, serverVars, modeVars, videoVars, driverVars
    <3> QED BY <3>1, <3>2
  <2>2. gate # c
    BY <1>8 DEF SettingHandler, StoreSetting, StoreFails, PushMode, SwitchCodec, CodecEnters,
                CodecSkipped, SingleFlight, Applying
  <2>3. CASE CodecEnters(c)
    <3>1. handling[c] \notin Caps /\ handling' = handling
      BY <2>3, KindsDiffer DEF CodecEnters, HandlerShape, RequestLabels, serverVars
    <3> QED BY <2>1, <2>3, <3>1 DEF CodecEnters, ResolutionFollows, Restarted
  <2>4. CASE ~CodecEnters(c)
    <3>1. gate' = gate /\ \A d \in Clients : d # c => pc'[d] = pc[d]
      BY <1>8, <2>4 DEF SettingHandler, StoreSetting, StoreFails, PushMode, SwitchCodec, CodecSkipped
    <3> QED BY <2>1, <2>2, <3>1, ResolutionKept
  <2> QED BY <2>3, <2>4
<1> QED BY <1>1, <1>2, <1>3, <1>4, <1>5, <1>6, <1>7, <1>8 DEF Next, ClientThread

----------------------------------------------------------------------------
(* Types of the coordinator's own variables *)

\* Everything in TypeOK that is not the control server's.
CoordTypeOK ==
    /\ settings \in [codec : CodecSettings, hz : Rates]
    /\ active \in Modes
    /\ appliedMode \in Modes \cup {None}
    /\ pipelineUp \in BOOLEAN /\ listening \in BOOLEAN /\ abandoned \in BOOLEAN
    /\ boundPort \in {"tunnel", "zero", "other"}
    /\ source \in Sources
    /\ gate \in Clients \cup {None}
    /\ device \in [on : BOOLEAN, res : Resolutions, file : Resolutions]
    /\ belief \in {"unknown", "on", "off"}
    /\ noSessionTicks \in 0..2
    /\ polling \in BOOLEAN
    /\ desired \in [Ticks -> BOOLEAN]
    /\ chosen \in [Clients -> Codecs]
    /\ pc \in [Threads -> Labels]
    /\ quit \in {"no", "timer", "control", "video", "disabled", "gone"}
    /\ greeted \in [Clients -> BOOLEAN]

LEMMA TypeParts == TypeOK <=> ServerTypeOK /\ CoordTypeOK
BY DEF TypeOK, CoordTypeOK

\* The mode a CAPS asks for, with its resolution put in.
LEMMA ModeTypes ==
    ASSUME CoordTypeOK
    PROVE  /\ \A r \in Resolutions : [active EXCEPT !.res = r] \in Modes
           /\ \A k \in Codecs : [active EXCEPT !.codec = k] \in Modes
           /\ \A h \in Rates : [active EXCEPT !.fps = h] \in Modes
           /\ \A k \in Codecs : appliedMode # None => [appliedMode EXCEPT !.codec = k] \in Modes
           /\ PushedCodec \in Codecs
BY DEF CoordTypeOK, Modes, PushedCodec, Codecs

LEMMA TypeStep ==
    ASSUME TypeOK, HandlerShape, [Next]_vars
    PROVE  CoordTypeOK'
<1>1. CoordTypeOK
  BY TypeParts
<1> USE <1>1, ThreadAssumption DEF CoordTypeOK, Goto, Threads, Labels
<1>2. CASE HostStarts \/ UNCHANGED vars
  BY <1>2 DEF HostStarts, coordVars, vars
<1>3. CASE Quit
  <2>1. CASE QuitBegins \/ QuitClearsSlot \/ ProcessExits
    BY <2>1 DEF QuitBegins, QuitClearsSlot, ProcessExits, modeVars, videoVars, driverVars, tickVars
  <2>2. CASE QuitStopsVideo
    BY <2>2, SourceTypes DEF QuitStopsVideo, modeVars, driverVars, tickVars
  <2>3. CASE QuitDisables
    <3>1. /\ device' \in [on : BOOLEAN, res : Resolutions, file : Resolutions]
          /\ source' \in Sources
      BY <2>3, SourceTypes DEF QuitDisables, DisableSucceeds, DisableFails
    <3> QED BY <2>3, <3>1 DEF QuitDisables, modeVars, tickVars
  <2> QED BY <1>3, <2>1, <2>2, <2>3 DEF Quit
<1>4. ASSUME NEW c \in Clients, TaskStep(c) \/ Tablet(c)
      PROVE  CoordTypeOK'
  <2>1. CASE TaskStep(c) \/ TabletLeaves(c)
    BY <2>1 DEF TaskStep, TabletLeaves, coordVars
  <2>2. CASE TabletConnects(c)
    BY <2>2 DEF TabletConnects, modeVars, videoVars, driverVars, tickVars
  <2>3. CASE TabletSends(c)
    BY <2>3 DEF TabletSends, modeVars, videoVars, driverVars, tickVars
  <2> QED BY <1>4, <2>1, <2>2, <2>3 DEF Tablet
<1>5. ASSUME NEW c \in Clients, HandlerStarts(c) \/ HandlerEnds(c)
      PROVE  CoordTypeOK'
  BY <1>5 DEF HandlerStarts, HandlerEnds, modeVars, videoVars, driverVars, tickVars, lifeVars, Codecs
<1>6. ASSUME NEW t \in Ticks, Tick(t)
      PROVE  CoordTypeOK'
  <2>1. CASE TickSamples(t)
    <3>1. HasClient \in BOOLEAN
      BY DEF HasClient, TypeOK, ServerTypeOK
    <3>2. Min2(noSessionTicks + 1, 2) \in 0..2
      BY DEF Min2
    <3>3. desired' \in [Ticks -> BOOLEAN] /\ noSessionTicks' \in 0..2 /\ pc' \in [Threads -> Labels]
      BY <2>1, <3>1, <3>2 DEF TickSamples
    <3> QED BY <2>1, <3>3 DEF TickSamples, modeVars, videoVars, driverVars, lifeVars
  <2>2. CASE TickEnables(t) \/ TickDisables(t)
    <3>1. /\ device' \in [on : BOOLEAN, res : Resolutions, file : Resolutions]
          /\ source' \in Sources
      BY <2>2, SourceTypes DEF TickEnables, TickDisables, EnableSucceeds, EnableFails,
         DisableSucceeds, DisableFails, videoVars
    <3> QED BY <2>2, <3>1 DEF TickEnables, TickDisables, modeVars, videoVars, tickVars, lifeVars
  <2>3. CASE TickStarts(t)
    BY <2>3 DEF TickStarts, modeVars, videoVars, driverVars, lifeVars
  <2>4. CASE TickForgets(t)
    BY <2>4 DEF TickForgets, videoVars, driverVars, tickVars, lifeVars
  <2>5. CASE TickAssumes(t) \/ TickDecides(t)
    BY <2>5 DEF TickAssumes, TickDecides, modeVars, videoVars, driverVars, tickVars, lifeVars
  <2>6. CASE TickEnds(t)
    <3>1. pc' \in [Threads -> Labels] /\ desired' \in [Ticks -> BOOLEAN]
      BY <2>6 DEF TickEnds
    <3>2. polling' \in BOOLEAN
      BY <2>6, Zenon DEF TickEnds
    <3> HIDE DEF Goto, Threads, Labels
    <3> QED BY <2>6, <3>1, <3>2 DEF TickEnds, modeVars, videoVars, driverVars, lifeVars
  <2> QED BY <1>6, <2>1, <2>2, <2>3, <2>4, <2>5, <2>6 DEF Tick
<1>7. ASSUME NEW c \in Clients, CapsHandler(c)
      PROVE  CoordTypeOK'
  <2>1. handling[c] \in Caps => handling[c].res \in Resolutions /\ ChooseHz(handling[c].hz) \in Rates
    BY MessageTypes, ChooseHzType
  <2>2. CASE CapsResolution(c) \/ CapsCodec(c) \/ CapsRate(c)
    <3>1. handling[c] \in Caps
      BY <2>2 DEF CapsResolution, CapsCodec, CapsRate, HandlerShape, CapsLabels
    <3>2. active' \in Modes
      BY <2>1, <2>2, <3>1, ModeTypes, ChooseCodecType DEF CapsResolution, CapsCodec, CapsRate
    <3> QED BY <2>2, <3>2 DEF CapsResolution, CapsCodec, CapsRate, videoVars, driverVars, tickVars,
                              lifeVars
  <2>3. CASE ApplyEnables(c) \/ ApplyBelieves(c) \/ ApplyReady(c)
    <3>1. handling[c] \in Caps
      BY <2>3 DEF ApplyEnables, ApplyBelieves, ApplyReady, HandlerShape, CapsLabels
    <3>2. device' \in [on : BOOLEAN, res : Resolutions, file : Resolutions]
      BY <2>1, <2>3, <3>1 DEF ApplyEnables, ApplyBelieves, ApplyReady, EnableSucceeds, EnableFails
    <3> QED BY <2>3, <3>2, SourceTypes DEF ApplyEnables, ApplyBelieves, ApplyReady, modeVars,
               videoVars, tickVars, lifeVars
  <2>4. CASE \/ CapsUnchanged(c) \/ CapsChanged(c) \/ CapsEnters(c) \/ CapsDropped(c)
             \/ ApplyAnnounces(c) \/ SendConfig(c)
    BY <2>4 DEF CapsUnchanged, CapsChanged, CapsEnters, CapsDropped, ApplyAnnounces, SendConfig,
                modeVars, videoVars, driverVars, tickVars, lifeVars
  <2> QED BY <1>7, <2>2, <2>3, <2>4 DEF CapsHandler
<1>8. ASSUME NEW c \in Clients, Recreate(c)
      PROVE  CoordTypeOK'
  <2>1. CASE Record(c)
    <3>1. appliedMode' \in Modes \cup {None}
      BY <2>1, ModeTypes, MessageTypes DEF Record, IncomingMode
    <3> QED BY <2>1, <3>1 DEF Record, videoVars, driverVars, tickVars, lifeVars
  <2>2. CASE TearDown(c)
    <3>1. pc' \in [Threads -> Labels] /\ source' \in Sources
      BY <2>2, SourceTypes DEF TearDown
    <3>2. pipelineUp' \in BOOLEAN /\ listening' \in BOOLEAN
      BY <2>2, Zenon DEF TearDown
    <3> HIDE DEF Goto, Threads, Labels
    <3> QED BY <2>2, <3>1, <3>2 DEF TearDown, modeVars, driverVars, tickVars, lifeVars
  <2>3. CASE Rebuild(c)
    BY <2>3, SourceTypes DEF Rebuild, modeVars, driverVars, tickVars, lifeVars
  <2>4. CASE ListenAgain(c)
    BY <2>4 DEF ListenAgain, modeVars, driverVars, tickVars, lifeVars
  <2>5. CASE ListenFails(c)
    BY <2>5 DEF ListenFails, modeVars, driverVars, tickVars, lifeVars
  <2>6. CASE Release(c)
    BY <2>6 DEF Release, modeVars, videoVars, driverVars, tickVars, lifeVars
  <2> QED BY <1>8, <2>1, <2>2, <2>3, <2>4, <2>5, <2>6 DEF Recreate
<1>9. ASSUME NEW c \in Clients, SettingHandler(c)
      PROVE  CoordTypeOK'
  <2>1. CASE StoreSetting(c) \/ StoreFails(c)
    <3>1. handling[c] \in CodecRequests \/ handling[c] \in RateRequests
      BY <2>1, MessageTypes DEF StoreSetting, StoreFails, HandlerShape, RequestLabels
    <3>2. ASSUME handling[c] \in CodecRequests
          PROVE  RequestedSettings(c) \in [codec : CodecSettings, hz : Rates]
      <4>1. handling[c].codec \in CodecSettings
        BY <3>2 DEF CodecRequests
      <4> QED BY <3>2, <4>1 DEF RequestedSettings
    <3>3. ASSUME handling[c] \in RateRequests
          PROVE  RequestedSettings(c) \in [codec : CodecSettings, hz : Rates]
      <4>1. handling[c].hz \in Rates /\ handling[c] \notin CodecRequests
        BY <3>3, RequestsDiffer DEF RateRequests
      <4> QED BY <3>3, <4>1 DEF RequestedSettings
    <3>4. RequestedSettings(c) \in [codec : CodecSettings, hz : Rates]
      BY <3>1, <3>2, <3>3
    <3> QED BY <2>1, <3>4 DEF StoreSetting, StoreFails, videoVars, driverVars, tickVars, lifeVars
  <2>2. CASE PushMode(c)
    BY <2>2, ModeTypes DEF PushMode, modeVars, videoVars, driverVars, tickVars, lifeVars
  <2>3. CASE SwitchCodec(c)
    BY <2>3, ModeTypes DEF SwitchCodec, videoVars, driverVars, tickVars, lifeVars
  <2>4. CASE CodecEnters(c) \/ CodecSkipped(c)
    BY <2>4 DEF CodecEnters, CodecSkipped, modeVars, videoVars, driverVars, tickVars, lifeVars
  <2> QED BY <1>9, <2>1, <2>2, <2>3, <2>4 DEF SettingHandler
<1> QED BY <1>2, <1>3, <1>4, <1>5, <1>6, <1>7, <1>8, <1>9 DEF Next, ClientThread

----------------------------------------------------------------------------
(* The theorems *)

LEMMA CoordInit == Init => CoordIInv /\ ServerIInv
<1> SUFFICES ASSUME Init
             PROVE  CoordIInv /\ ServerIInv
  OBVIOUS
<1>1. ServerIInv
  BY ServerInitInv DEF Init
<1>2. settings \in [codec : CodecSettings, hz : Rates]
  BY SettingsAssumption DEF Init
<1>3. active \in Modes /\ device \in [on : BOOLEAN, res : Resolutions, file : Resolutions]
  BY ThreadAssumption DEF Init, Modes, Codecs
<1>4. source \in Sources
  <2>1. ASSUME NEW kind \in {"virtual", "primary", "fallback"}
        PROVE  Built(kind) \in Sources
    BY <1>3, ThreadAssumption DEF Built, Sources, Modes
  <2> QED BY <2>1 DEF Init
<1>5. pc \in [Threads -> Labels] /\ \A c \in Clients : pc[c] = "idle"
  BY DEF Init, Threads, Labels
<1>6. CoordTypeOK
  <2>1. /\ chosen \in [Clients -> Codecs] /\ desired \in [Ticks -> BOOLEAN]
        /\ greeted \in [Clients -> BOOLEAN] /\ polling \in BOOLEAN
    BY DEF Init, Codecs
  <2>2. pipelineUp \in BOOLEAN /\ listening \in BOOLEAN /\ abandoned \in BOOLEAN
    BY DEF Init
  <2> QED BY <1>2, <1>3, <1>4, <1>5, <2>1, <2>2 DEF CoordTypeOK, Init
<1>7. TypeOK
  BY <1>1, <1>6, TypeParts DEF ServerIInv
<1>8. HandlerShape
  BY <1>5 DEF HandlerShape, CapsLabels, RequestLabels, Init, ServerInit
<1>9. SingleFlight /\ PortDownOnlyUnderGate /\ ResolutionFollows
  BY <1>5, NoneAssumption DEF SingleFlight, Applying, PortDownOnlyUnderGate, ResolutionFollows, Restarted, Init
<1> QED BY <1>1, <1>7, <1>8, <1>9 DEF CoordIInv

LEMMA CoordStep == CoordIInv /\ ServerIInv /\ [Next]_vars => CoordIInv' /\ ServerIInv'
<1> SUFFICES ASSUME CoordIInv, ServerIInv, [Next]_vars
             PROVE  CoordIInv' /\ ServerIInv'
  OBVIOUS
<1>1. TypeOK /\ HandlerShape /\ SingleFlight /\ PortDownOnlyUnderGate /\ ResolutionFollows
  BY DEF CoordIInv
<1>2. ServerTypeOK' /\ ServerIInv'
  BY StepIsServerStep, ServerTypeStep, ServerSlotStep DEF ServerIInv
<1>3. TypeOK'
  <2>1. CoordTypeOK'
    BY <1>1, TypeStep
  <2> QED BY <1>2, <2>1 DEF TypeOK, CoordTypeOK
<1>4. HandlerShape' /\ SingleFlight'
  BY <1>1, HandlerShapeStep, SingleFlightStep
<1>5. PortDownOnlyUnderGate' /\ ResolutionFollows'
  BY <1>1, PortStep, ResolutionStep
<1> QED BY <1>2, <1>3, <1>4, <1>5 DEF CoordIInv

\* Every reachable state of the composed system satisfies the inductive invariant.
THEOREM CoordInvariant == Spec => [](CoordIInv /\ ServerIInv)
<1> QED BY CoordInit, CoordStep, PTL DEF Spec

\* All variables of the composed system keep their types.
THEOREM TypeCorrect == Spec => []TypeOK
<1>1. CoordIInv => TypeOK
  BY DEF CoordIInv
<1> QED BY <1>1, CoordInvariant, PTL

\* ApplyVirtualDisplayResolution and the codec switch are under _applyModeGate
\* exactly as long as they run, on one thread at a time.
THEOREM SingleFlightTheorem == Spec => []SingleFlight
<1>1. CoordIInv => SingleFlight
  BY DEF CoordIInv
<1> QED BY <1>1, CoordInvariant, PTL

\* However many tablets send CAPS and codec changes, in whatever order captures
\* fail or hang, the video port is closed only by a thread about to reopen it.
THEOREM PortTheorem == Spec => []PortDownOnlyUnderGate
<1>1. CoordIInv => PortDownOnlyUnderGate
  BY DEF CoordIInv
<1> QED BY <1>1, CoordInvariant, PTL

\* Between applies, the resolution in _appliedMode is the driver's, if EnsureReady
\* does not fail.
THEOREM ResolutionTheorem ==
    ASSUME DriverObeys
    PROVE  Spec => []AppliedResolutionIsDrivers
<1>1. CoordIInv => AppliedResolutionIsDrivers
  <2> SUFFICES ASSUME CoordIInv, gate = None, appliedMode # None, boundPort = "tunnel"
               PROVE  appliedMode.res = device.res
    BY DEF AppliedResolutionIsDrivers
  <2>1. \A c \in Clients : ~Restarted(c)
    BY NoneAssumption DEF Restarted
  <2> QED BY <2>1 DEF CoordIInv, ResolutionFollows
<1> QED BY <1>1, CoordInvariant, PTL

\* The coordinator is a correct user of the control server: every step is one of
\* the server's operations or leaves the server alone, so what is proved of the
\* server holds in the composition too.
THEOREM ServerRefinement == Spec => ServerInit /\ [][ServerNext]_serverVars
<1>1. Init => ServerInit
  BY DEF Init
<1>2. [Next]_vars => [ServerNext]_serverVars
  BY StepIsServerStep
<1> QED BY <1>1, <1>2, PTL DEF Spec

----------------------------------------------------------------------------
(* One tablet at a time: the inductive invariants *)

OneTablet == \A c, d \in Clients : c = d

ForCaps(c) == handling[c] \in Caps
Recreating == {"teardown", "build", "listen", "record"}
AfterResolution == {"codec", "rate", "compare", "gate", "enable", "believe", "ready", "announce",
                    "release", "config"} \cup Recreating

\* The shared resolution is that of the CAPS at work.
OwnResolution ==
    \A c \in Clients : ForCaps(c) /\ pc[c] \in AfterResolution => active.res = handling[c].res

\* What is about to be applied is not what is.
StillChanged ==
    \A c \in Clients : pc[c] \in {"gate", "enable", "believe", "ready"}
        => ~pipelineUp \/ appliedMode # IncomingMode(c)

\* A recreate that no CAPS asked for is a codec request's, for the codec it chose.
CodecRequested ==
    \A c \in Clients :
        /\ pc[c] = "switch" => handling[c] \in CodecRequests
        /\ pc[c] \in {"codecGate"} \cup Recreating /\ ~ForCaps(c)
              => handling[c] \in CodecRequests /\ chosen[c] = active.codec

\* A new source is built for the shared mode and the display as it is.
BuiltForShared ==
    \A c \in Clients : pc[c] \in {"listen", "record"} /\ source.kind # "none" =>
        /\ source.mode.codec = active.codec /\ source.mode.fps = active.fps
        /\ source.kind = "virtual" /\ (ForCaps(c) \/ DriverObeys) => source.mode.res = device.res

HandlerIInv == OwnResolution /\ StillChanged /\ CodecRequested /\ BuiltForShared

\* The shared rate is the applied one, except while CAPS that asks for another is at
\* work: that it ends in the applied mode takes a driver that obeys.
Unapplied(c) ==
    ForCaps(c) /\ pc[c] \in {"compare", "gate", "enable", "believe", "ready", "announce"}
                              \cup Recreating
RateRecorded ==
    appliedMode # None /\ boundPort = "tunnel" /\ (\A c \in Clients : ~Unapplied(c))
        => active.fps = appliedMode.fps

\* A source that is not being replaced was built for the mode remembered as applied.
RunsApplied ==
    (\A c \in Clients : pc[c] \notin {"listen", "record"}) =>
       (source.kind = "virtual" /\ appliedMode # None /\ boundPort = "tunnel"
           => source.mode = appliedMode)

\* A codec request rebuilds at the shared rate and does not record it.
NoCodecRequests == SettingRequests \cap CodecRequests = {}

AppliedIInv == /\ DriverObeys => RateRecorded
               /\ DriverObeys \/ NoCodecRequests => RunsApplied

\* CAPS that is about to be answered finds the source built for the shared mode.
AnsweredInStep ==
    \A c \in Clients : ForCaps(c) /\ pc[c] \in {"release", "config"} /\ source.kind = "virtual"
        => source.mode = active
ConfigIInv == boundPort = "tunnel" /\ AnsweredInStep

----------------------------------------------------------------------------
(* One tablet at a time: the steps outside its handlers *)

\* Connections, ticks and the quit leave the handlers and the shared mode alone.
\* They may forget what was applied, and a quit takes the source away.
Untouched ==
    /\ \A c \in Clients : pc'[c] = pc[c] /\ handling'[c] = handling[c]
    /\ active' = active /\ chosen' = chosen /\ boundPort' = boundPort /\ pipelineUp' = pipelineUp
    /\ device'.file = device.file /\ device'.res \in {device.res, device.file}
    /\ appliedMode' \in {appliedMode, None}
    /\ \/ source'.kind = source.kind /\ source'.mode = source.mode
       \/ source' = NoSource

HandlerStep(c) ==
    HandlerStarts(c) \/ HandlerEnds(c) \/ CapsHandler(c) \/ Recreate(c) \/ SettingHandler(c)

LEMMA KilledKeepsMode ==
    ASSUME TypeOK
    PROVE  Killed(source).kind = source.kind /\ Killed(source).mode = source.mode
BY DEF Killed, TypeOK, Sources

LEMMA StepKinds ==
    ASSUME TypeOK, [Next]_vars
    PROVE  Untouched \/ \E c \in Clients : HandlerStep(c)
<1> USE ThreadAssumption DEF Untouched, Goto, Threads
<1>1. CASE HostStarts \/ UNCHANGED vars
  BY <1>1 DEF HostStarts, Start, coordVars, vars, serverVars
<1>2. CASE Quit
  <2>1. CASE QuitBegins \/ QuitClearsSlot \/ ProcessExits
    BY <2>1 DEF QuitBegins, QuitClearsSlot, ProcessExits, StopListening, StopClearsSlot, serverVars,
                modeVars, videoVars, driverVars
  <2>2. CASE QuitStopsVideo
    BY <2>2 DEF QuitStopsVideo, serverVars, modeVars, driverVars
  <2>3. CASE QuitDisables
    <3>1. /\ source'.kind = source.kind /\ source'.mode = source.mode
          /\ device'.res = device.res /\ device'.file = device.file
      BY <2>3, KilledKeepsMode DEF QuitDisables, DisableSucceeds, DisableFails, TypeOK
    <3> QED BY <2>3, <3>1 DEF QuitDisables, serverVars, modeVars
  <2> QED BY <1>2, <2>1, <2>2, <2>3 DEF Quit
<1>3. ASSUME NEW c \in Clients, TaskStep(c) \/ Tablet(c)
      PROVE  Untouched
  BY <1>3 DEF TaskStep, coordVars, Register, SpawnCancelled, LoopCheck, ReadFails, Leave, Tablet,
         TabletConnects, TabletSends, TabletLeaves, Accept, PeerSend, PeerClose, PeerReset,
         modeVars, videoVars, driverVars
<1>4. ASSUME NEW t \in Ticks, Tick(t)
      PROVE  Untouched
  <2>1. /\ \A d \in Clients : handling'[d] = handling[d] /\ pc'[d] = pc[d]
        /\ active' = active /\ chosen' = chosen
    BY <1>4 DEF Tick, TickStarts, TickSamples, TickDecides, TickEnables, TickDisables, TickForgets,
                TickAssumes, TickEnds, serverVars, modeVars, lifeVars, TypeOK
  <2>2. /\ device'.file = device.file /\ device'.res \in {device.res, device.file}
        /\ appliedMode' \in {appliedMode, None}
        /\ boundPort' = boundPort /\ pipelineUp' = pipelineUp
    BY <1>4 DEF Tick, TickStarts, TickSamples, TickDecides, TickEnables, TickDisables, TickForgets,
                TickAssumes, TickEnds, EnableSucceeds, EnableFails, DisableSucceeds, DisableFails,
                modeVars, videoVars, driverVars, TypeOK
  <2>3. source'.kind = source.kind /\ source'.mode = source.mode
    BY <1>4, KilledKeepsMode
       DEF Tick, TickStarts, TickSamples, TickDecides, TickEnables, TickDisables, TickForgets, TickAssumes,
           TickEnds, DisableSucceeds, DisableFails, videoVars
  <2> QED BY <2>1, <2>2, <2>3
<1> QED BY <1>1, <1>2, <1>3, <1>4 DEF Next, ClientThread, HandlerStep

----------------------------------------------------------------------------
(* One tablet at a time: the shared mode and the handler at work *)

LEMMA HandlerIInit == CoordIInv /\ Init => HandlerIInv
BY DEF Init, CoordIInv, TypeOK, Threads, HandlerIInv, OwnResolution, StillChanged, CodecRequested,
       BuiltForShared, AfterResolution, Recreating

LEMMA HandlerIStep ==
    ASSUME OneTablet, CoordIInv, HandlerIInv, [Next]_vars
    PROVE  HandlerIInv'
<1>1. TypeOK /\ HandlerShape
  BY DEF CoordIInv
<1> USE <1>1, NoneAssumption, ThreadAssumption
    DEF HandlerIInv, OwnResolution, StillChanged, CodecRequested, BuiltForShared, AfterResolution,
        Recreating, ForCaps, TypeOK, Goto, Threads, Labels, OneTablet
<1>2. CASE Untouched
  <2>1. \A c \in Clients : ForCaps(c) => IncomingMode(c) \in Modes
    BY <1>1, ModeTypes, TypeParts, MessageTypes DEF IncomingMode
  <2>2. \A c \in Clients : pc[c] \in {"gate", "enable", "believe", "ready"} => ForCaps(c)
    BY DEF HandlerShape, CapsLabels
  <2>3. \A c \in Clients : pc[c] \in {"listen", "record"} /\ (ForCaps(c) \/ DriverObeys)
          => device.file = device.res
    BY DEF CoordIInv, ResolutionFollows, Restarted, SingleFlight, Applying
  <2>4. OwnResolution' /\ StillChanged' /\ CodecRequested'
    BY <1>2, <2>1, <2>2 DEF Untouched, IncomingMode
  <2>5. BuiltForShared'
    BY <1>2, <2>3 DEF Untouched, NoSource
  <2> QED BY <2>4, <2>5
<1>3. ASSUME NEW c \in Clients, HandlerStarts(c) \/ HandlerEnds(c)
      PROVE  HandlerIInv'
  BY <1>3 DEF HandlerStarts, HandlerEnds
<1>4. ASSUME NEW c \in Clients, CapsHandler(c)
      PROVE  HandlerIInv'
  <2>1. UNCHANGED <<handling, chosen>>
    BY <1>4 DEF CapsHandler, CapsResolution, CapsCodec, CapsRate, CapsUnchanged, CapsChanged,
                CapsEnters, CapsDropped, ApplyEnables, ApplyBelieves, ApplyReady,
                ApplyAnnounces, SendConfig, SendMessage, serverVars
  <2>2. CASE CapsResolution(c) \/ CapsCodec(c) \/ CapsRate(c)
    BY <2>1, <2>2 DEF CapsResolution, CapsCodec, CapsRate, Modes
  <2>3. CASE CapsUnchanged(c) \/ CapsChanged(c) \/ CapsEnters(c) \/ CapsDropped(c)
    BY <2>1, <2>3 DEF CapsUnchanged, CapsChanged, CapsEnters, CapsDropped, IncomingMode, modeVars,
                      videoVars, driverVars
  <2>4. CASE ApplyEnables(c) \/ ApplyBelieves(c) \/ ApplyReady(c)
    BY <2>1, <2>4 DEF ApplyEnables, ApplyBelieves, ApplyReady, IncomingMode, modeVars, videoVars
  <2>5. CASE ApplyAnnounces(c) \/ SendConfig(c)
    BY <2>1, <2>5, KindsDiffer DEF ApplyAnnounces, SendConfig, HandlerShape, CapsLabels, modeVars, videoVars,
                      driverVars
  <2> QED BY <1>4, <2>2, <2>3, <2>4, <2>5 DEF CapsHandler
<1>5. ASSUME NEW c \in Clients, Recreate(c)
      PROVE  HandlerIInv'
  <2>1. chosen' = chosen /\ active' = active /\ device' = device
    BY <1>5 DEF Recreate, TearDown, Rebuild, ListenAgain, ListenFails, Record, Release, modeVars,
                driverVars
  <2>2. CASE ListenFails(c)
    BY <2>1, <2>2 DEF ListenFails
  <2>3. CASE TearDown(c) \/ Record(c) \/ ListenAgain(c) \/ Release(c)
    BY <2>1, <2>3 DEF TearDown, ListenAgain, Record, Release, serverVars, videoVars
  <2>4. CASE Rebuild(c)
    <3>1. /\ source'.kind # "none" => source'.mode.codec = active.codec
                                       /\ source'.mode.fps = active.fps
          /\ source'.kind = "virtual" => source'.mode.res = device.res
      BY <2>4 DEF Rebuild, BuildSource, Built, Modes
    <3> QED BY <2>1, <2>4, <3>1 DEF Rebuild, serverVars
  <2> QED BY <1>5, <2>2, <2>3, <2>4 DEF Recreate
<1>6. ASSUME NEW c \in Clients, SettingHandler(c)
      PROVE  HandlerIInv'
  <2>1. handling[c] \in SettingRequests /\ ~ForCaps(c)
    BY <1>6, KindsDiffer DEF SettingHandler, StoreSetting, StoreFails, PushMode, SwitchCodec,
             CodecEnters, CodecSkipped, HandlerShape, RequestLabels
  <2>2. CASE StoreSetting(c) \/ StoreFails(c)
    BY <2>1, <2>2 DEF StoreSetting, StoreFails, serverVars
  <2>3. CASE PushMode(c)
    BY <2>1, <2>3 DEF PushMode, SendMessage
  <2>4. CASE SwitchCodec(c)
    BY <2>1, <2>4 DEF SwitchCodec, serverVars, Modes
  <2>5. CASE CodecEnters(c) \/ CodecSkipped(c)
    BY <2>1, <2>5 DEF CodecEnters, CodecSkipped, serverVars, modeVars
  <2> QED BY <1>6, <2>2, <2>3, <2>4, <2>5 DEF SettingHandler
<1> QED BY <1>2, <1>3, <1>4, <1>5, <1>6, StepKinds DEF HandlerStep

LEMMA AppliedIInit == CoordIInv /\ Init => AppliedIInv
BY NoneAssumption DEF Init, AppliedIInv, RateRecorded, RunsApplied

\* The applied mode is recorded for the source that has just been built, and from
\* then on both stay, or the applied mode is forgotten, or the source is replaced.
LEMMA AppliedIStep ==
    ASSUME OneTablet, CoordIInv, HandlerIInv, AppliedIInv, [Next]_vars
    PROVE  AppliedIInv'
<1>1. TypeOK /\ HandlerShape /\ SingleFlight
  BY DEF CoordIInv
<1> USE <1>1, NoneAssumption, ThreadAssumption
    DEF AppliedIInv, RateRecorded, RunsApplied, Unapplied, ForCaps, Recreating, TypeOK, Goto,
        Threads, Labels, OneTablet
<1>2. CASE Untouched
  BY <1>2 DEF Untouched, NoSource
<1>3. ASSUME NEW c \in Clients, HandlerStarts(c) \/ HandlerEnds(c)
      PROVE  AppliedIInv'
  <2>1. /\ pc[c] \in {"idle", "done"} /\ pc'[c] \in {"idle", "res", "store"}
        /\ UNCHANGED <<active, appliedMode, source, boundPort>>
    BY <1>3 DEF HandlerStarts, HandlerEnds, HandlerShape, ReadMessage, modeVars, videoVars
  <2> QED BY <2>1
<1>4. ASSUME NEW c \in Clients, CapsHandler(c)
      PROVE  AppliedIInv'
  <2>1. UNCHANGED <<handling, appliedMode, boundPort>> /\ ForCaps(c)
    BY <1>4 DEF CapsHandler, CapsResolution, CapsCodec, CapsRate, CapsUnchanged, CapsChanged,
                CapsEnters, CapsDropped, ApplyEnables, ApplyBelieves, ApplyReady,
                ApplyAnnounces, SendConfig, SendMessage, serverVars, modeVars, videoVars,
                HandlerShape, CapsLabels
  <2>2. CASE CapsResolution(c) \/ CapsCodec(c) \/ CapsRate(c)
    BY <2>1, <2>2 DEF CapsResolution, CapsCodec, CapsRate, videoVars, Modes
  <2>3. CASE CapsUnchanged(c)
    BY <2>1, <2>3 DEF CapsUnchanged, IncomingMode, modeVars, videoVars, Modes
  <2>4. CASE CapsChanged(c) \/ CapsEnters(c)
    BY <2>1, <2>4 DEF CapsChanged, CapsEnters, modeVars, videoVars
  <2>5. ~CapsDropped(c)
    BY DEF CapsDropped, SingleFlight, Applying
  <2>6. CASE ApplyEnables(c) \/ ApplyBelieves(c) \/ ApplyAnnounces(c) \/ SendConfig(c)
    BY <2>1, <2>6 DEF ApplyEnables, ApplyBelieves, ApplyAnnounces, SendConfig, modeVars, videoVars
  <2>7. CASE ApplyReady(c)
    BY <2>1, <2>7, KilledKeepsMode DEF ApplyReady, modeVars, DriverObeys
  <2> QED BY <1>4, <2>2, <2>3, <2>4, <2>5, <2>6, <2>7 DEF CapsHandler
<1>5. ASSUME NEW c \in Clients, Recreate(c)
      PROVE  AppliedIInv'
  <2>1. CASE TearDown(c) \/ Rebuild(c) \/ ListenAgain(c) \/ ListenFails(c) \/ Release(c)
    BY <2>1 DEF TearDown, Rebuild, ListenAgain, ListenFails, Release, NoSource, serverVars,
                modeVars, videoVars
  <2>2. CASE Record(c)
    <3>1. /\ UNCHANGED <<handling, active, source, boundPort, device>>
          /\ pc[c] = "record" /\ pc'[c] = "release"
      BY <2>2 DEF Record, serverVars, videoVars, driverVars
    <3>2. CASE ForCaps(c)
      <4>1. /\ appliedMode' = [active EXCEPT !.res = handling[c].res]
            /\ boundPort = "tunnel" => device.res = handling[c].res
        BY <2>2, <3>1, <3>2 DEF Record, IncomingMode, CoordIInv, ResolutionFollows, Restarted,
                                SingleFlight, Applying
      <4>2. source.kind = "virtual" => /\ source.mode.codec = active.codec
                                       /\ source.mode.fps = active.fps
                                       /\ source.mode.res = device.res
        BY <3>1, <3>2 DEF HandlerIInv, BuiltForShared
      <4>3. source.kind = "virtual" /\ boundPort = "tunnel" => source.mode = appliedMode'
        BY <4>1, <4>2 DEF Modes, Sources
      <4> QED BY <3>1, <3>2, <4>1, <4>3 DEF Modes
    <3>3. CASE ~ForCaps(c)
      <4>1. /\ appliedMode' = IF appliedMode = None THEN None
                              ELSE [appliedMode EXCEPT !.codec = chosen[c]]
            /\ handling[c] \in CodecRequests /\ chosen[c] = active.codec
            /\ handling[c] \in SettingRequests
        BY <2>2, <3>1, <3>3, MessagesAssumption
           DEF Record, HandlerIInv, CodecRequested, HandlerShape
      <4>2. ~NoCodecRequests
        BY <4>1 DEF NoCodecRequests
      <4>3. DriverObeys /\ boundPort = "tunnel" /\ appliedMode # None
              => appliedMode.res = device.res
        BY <3>1, <3>3 DEF CoordIInv, ResolutionFollows, Restarted
      <4>4. DriverObeys /\ source.kind = "virtual" => /\ source.mode.codec = active.codec
                                                      /\ source.mode.fps = active.fps
                                                      /\ source.mode.res = device.res
        BY <3>1 DEF HandlerIInv, BuiltForShared
      <4>5. DriverObeys /\ boundPort = "tunnel" /\ appliedMode # None
              => active.fps = appliedMode.fps
        BY <3>3
      <4>6. appliedMode # None => /\ appliedMode'.fps = appliedMode.fps
                                  /\ appliedMode'.res = appliedMode.res
                                  /\ appliedMode'.codec = active.codec
                                  /\ appliedMode' \in Modes
        BY <4>1 DEF Modes
      <4>7. DriverObeys /\ source.kind = "virtual" /\ boundPort = "tunnel" /\ appliedMode' # None
              => source.mode = appliedMode'
        BY <4>1, <4>3, <4>4, <4>5, <4>6 DEF Modes, Sources
      <4>8. DriverObeys => RateRecorded'
        BY <3>1, <3>3, <4>1, <4>6
      <4> QED BY <3>1, <4>2, <4>7, <4>8
    <3> QED BY <3>2, <3>3
  <2> QED BY <1>5, <2>1, <2>2 DEF Recreate
<1>6. ASSUME NEW c \in Clients, SettingHandler(c)
      PROVE  AppliedIInv'
  <2>1. ~ForCaps(c)
    BY <1>6, KindsDiffer DEF SettingHandler, StoreSetting, StoreFails, PushMode, SwitchCodec,
             CodecEnters, CodecSkipped, HandlerShape, RequestLabels
  <2>2. /\ UNCHANGED <<appliedMode, source, boundPort>>
        /\ active'.fps = active.fps
        /\ pc[c] \notin {"listen", "record"}
    BY <1>6 DEF SettingHandler, StoreSetting, StoreFails, PushMode, SwitchCodec, CodecEnters,
                CodecSkipped, modeVars, videoVars, Modes
  <2> QED BY <2>1, <2>2
<1> QED BY <1>2, <1>3, <1>4, <1>5, <1>6, StepKinds DEF HandlerStep

----------------------------------------------------------------------------
(* One tablet at a time: what CAPS are answered with *)

LEMMA ConfigIInit == CoordIInv /\ Init => ConfigIInv
BY DEF Init, ConfigIInv, AnsweredInStep, CoordIInv, TypeOK, Threads

LEMMA ConfigIStep ==
    ASSUME OneTablet, DriverObeys, "bind" \notin Events,
           CoordIInv, HandlerIInv, AppliedIInv, ConfigIInv, [Next]_vars
    PROVE  ConfigIInv'
<1>1. TypeOK /\ HandlerShape /\ SingleFlight /\ RunsApplied
  BY DEF CoordIInv, AppliedIInv
<1> USE <1>1, NoneAssumption, ThreadAssumption
    DEF ConfigIInv, AnsweredInStep, ForCaps, TypeOK, Goto, Threads, Labels, OneTablet
<1>2. CASE Untouched
  BY <1>2 DEF Untouched, NoSource
<1>3. ASSUME NEW c \in Clients, HandlerStarts(c) \/ HandlerEnds(c)
      PROVE  ConfigIInv'
  BY <1>3 DEF HandlerStarts, HandlerEnds, modeVars, videoVars
<1>4. ASSUME NEW c \in Clients, CapsHandler(c)
      PROVE  ConfigIInv'
  <2>1. UNCHANGED <<handling, boundPort>> /\ ForCaps(c)
    BY <1>4 DEF CapsHandler, CapsResolution, CapsCodec, CapsRate, CapsUnchanged, CapsChanged,
                CapsEnters, CapsDropped, ApplyEnables, ApplyBelieves, ApplyReady,
                ApplyAnnounces, SendConfig, SendMessage, serverVars, videoVars,
                HandlerShape, CapsLabels
  <2>2. CASE CapsUnchanged(c)
    <3>1. /\ appliedMode = [active EXCEPT !.res = handling[c].res] /\ pc[c] = "compare"
          /\ UNCHANGED <<active, source>>
      BY <2>2 DEF CapsUnchanged, IncomingMode, modeVars, videoVars
    <3>2. active.res = handling[c].res
      BY <2>1, <3>1 DEF HandlerIInv, OwnResolution, AfterResolution
    <3>3. appliedMode = active
      BY <3>1, <3>2 DEF Modes
    <3>4. source.kind = "virtual" => source.mode = active
      BY <3>1, <3>3 DEF RunsApplied
    <3> QED BY <2>1, <3>1, <3>4
  <2>3. CASE ~CapsUnchanged(c)
    <3>1. pc'[c] \notin {"release", "config"}
      BY <1>4, <2>3 DEF CapsHandler, CapsResolution, CapsCodec, CapsRate, CapsChanged, CapsEnters,
                CapsDropped, ApplyEnables, ApplyBelieves, ApplyReady, ApplyAnnounces, SendConfig,
                DriverObeys
    <3> QED BY <2>1, <3>1
  <2> QED BY <2>2, <2>3
<1>5. ASSUME NEW c \in Clients, Recreate(c)
      PROVE  ConfigIInv'
  <2>1. CASE TearDown(c) \/ Rebuild(c) \/ ListenAgain(c) \/ Release(c)
    BY <2>1 DEF TearDown, Rebuild, ListenAgain, Release, serverVars, modeVars, videoVars
  <2>2. ~ListenFails(c)
    BY DEF ListenFails
  <2>3. CASE Record(c)
    <3>1. /\ UNCHANGED <<handling, active, source, boundPort, device>>
          /\ pc[c] = "record" /\ pc'[c] = "release"
      BY <2>3 DEF Record, serverVars, videoVars, driverVars
    <3>2. ASSUME ForCaps(c), source.kind = "virtual"
          PROVE  source.mode = active
      <4>1. /\ device.res = handling[c].res
            /\ active.res = handling[c].res
        BY <3>1, <3>2 DEF CoordIInv, ResolutionFollows, Restarted, SingleFlight, Applying,
                          HandlerIInv, OwnResolution, AfterResolution, Recreating
      <4>2. /\ source.mode.codec = active.codec
            /\ source.mode.fps = active.fps
            /\ source.mode.res = device.res
        BY <3>1, <3>2 DEF HandlerIInv, BuiltForShared
      <4> QED BY <4>1, <4>2 DEF Modes, Sources
    <3> QED BY <3>1, <3>2
  <2> QED BY <1>5, <2>1, <2>2, <2>3 DEF Recreate
<1>6. ASSUME NEW c \in Clients, SettingHandler(c)
      PROVE  ConfigIInv'
  <2>1. boundPort' = boundPort /\ pc'[c] \notin {"release", "config"}
    BY <1>6 DEF SettingHandler, StoreSetting, StoreFails, PushMode, SwitchCodec,
             CodecEnters, CodecSkipped, videoVars
  <2> QED BY <2>1
<1> QED BY <1>2, <1>3, <1>4, <1>5, <1>6, StepKinds DEF HandlerStep

----------------------------------------------------------------------------
(* One tablet at a time: the theorems *)

LEMMA HandlerIInvariant ==
    ASSUME OneTablet
    PROVE  Spec => [](CoordIInv /\ HandlerIInv)
<1>1. CoordIInv /\ HandlerIInv /\ [Next]_vars => HandlerIInv'
  BY HandlerIStep
<1> QED BY <1>1, HandlerIInit, CoordInvariant, PTL DEF Spec

LEMMA AppliedIInvariant ==
    ASSUME OneTablet
    PROVE  Spec => [](CoordIInv /\ HandlerIInv /\ AppliedIInv)
<1>1. CoordIInv /\ HandlerIInv /\ AppliedIInv /\ [Next]_vars => AppliedIInv'
  BY AppliedIStep
<1> QED BY <1>1, AppliedIInit, HandlerIInvariant, CoordInvariant, PTL DEF Spec

\* With one tablet at a time, the driver is restarted only for a mode that differs
\* from the applied one or for a dead pipeline (RC-A), whatever fails and whatever
\* the poll timer and the user do meanwhile.
THEOREM RestartTheorem ==
    ASSUME OneTablet
    PROVE  Spec => RestartOnlyOnChange
<1>1. HandlerIInv /\ [Next]_vars
        => [\A c \in Clients : pc[c] = "ready" /\ pc'[c] = "announce"
               => appliedMode # IncomingMode(c) \/ ~pipelineUp]_vars
  BY DEF HandlerIInv, StillChanged
<1> QED BY <1>1, HandlerIInvariant, PTL DEF Spec, RestartOnlyOnChange

\* With one tablet at a time, and either a driver that obeys or a tablet that never
\* asks for a codec, the mode remembered as applied is the one that the present capture
\* of the virtual display was built for.
THEOREM AppliedModeTheorem ==
    ASSUME OneTablet, DriverObeys \/ NoCodecRequests
    PROVE  Spec => []AppliedModeWasBuilt
<1>1. CoordIInv /\ AppliedIInv => AppliedModeWasBuilt
  <2> SUFFICES ASSUME CoordIInv, AppliedIInv, gate = None
               PROVE  \A c \in Clients : pc[c] \notin {"listen", "record"}
    BY DEF AppliedIInv, RunsApplied, AppliedModeWasBuilt
  <2> QED BY NoneAssumption DEF CoordIInv, SingleFlight, Applying
<1> QED BY <1>1, AppliedIInvariant, PTL

\* With one tablet at a time, a driver that obeys and sockets that bind, CONFIG
\* names the mode that the present capture of the virtual display was built for.
THEOREM ConfigTheorem ==
    ASSUME OneTablet, DriverObeys, "bind" \notin Events
    PROVE  Spec => ConfigIsTruthful
<1>1. CoordIInv /\ HandlerIInv /\ AppliedIInv /\ ConfigIInv /\ [Next]_vars => ConfigIInv'
  BY ConfigIStep
<1>2. CoordIInv /\ ConfigIInv
        => [\A c \in Clients : pc[c] = "config" /\ pc'[c] = "done" /\ source.kind = "virtual"
               => active = source.mode]_vars
  BY DEF ConfigIInv, AnsweredInStep, ForCaps, CoordIInv, HandlerShape, CapsLabels
<1> QED BY <1>1, <1>2, ConfigIInit, AppliedIInvariant, CoordInvariant, PTL DEF Spec, ConfigIsTruthful

----------------------------------------------------------------------------
(* Quitting with nothing else at work *)

\* Dispose stops the control server before it goes on.
ServerStopsFirst == quit \in {"control", "video", "disabled"} => server = "stopped"

LEMMA ServerStopsFirstStep ==
    ASSUME TypeOK, ServerStopsFirst, [Next]_vars
    PROVE  ServerStopsFirst'
<1> USE DEF ServerStopsFirst
<1>1. CASE Quit
  BY <1>1 DEF Quit, QuitBegins, QuitClearsSlot, QuitStopsVideo, QuitDisables, ProcessExits,
              StopClearsSlot, serverVars
<1>2. CASE ~Quit
  <2>1. quit' = quit
    BY <1>2 DEF Next, HostStarts, ClientThread, TaskStep, HandlerStarts, HandlerEnds, CapsHandler,
          CapsResolution, CapsCodec, CapsRate, CapsUnchanged, CapsChanged, CapsEnters, CapsDropped,
          ApplyEnables, ApplyBelieves, ApplyReady, ApplyAnnounces, SendConfig, Recreate, TearDown,
          Rebuild, ListenAgain, ListenFails, Record, Release, SettingHandler, StoreSetting,
          StoreFails, PushMode, SwitchCodec, CodecEnters, CodecSkipped, Tick, TickStarts,
          TickSamples, TickDecides, TickEnables, TickDisables, TickForgets, TickAssumes, TickEnds, Tablet,
          TabletConnects, TabletSends, TabletLeaves, lifeVars, coordVars, vars
  <2>2. server = "stopped" => server' = "stopped"
    BY StepIsServerStep
       DEF ServerNext, Start, StopListening, StopClearsSlot, Accept, Task, Register, SpawnCancelled,
           LoopCheck, ReadMessage, ReadFails, HandlerReturns, HandlerThrows, Leave, Peer, PeerSend,
           PeerClose, PeerReset, SendMessage, serverVars
  <2> QED BY <2>1, <2>2
<1> QED BY <1>1, <1>2

\* Nothing but the quit is left to run, and it is about to disable the display or
\* has done so.
LeftAlone ==
    \/ quit = "gone"
    \/ /\ quit = "video" \/ (quit = "disabled" /\ ~device.on)
       /\ server = "stopped" /\ Quiet

LEMMA LeftAloneStep ==
    ASSUME "disable" \notin Events, TypeOK, LeftAlone, [Next]_vars
    PROVE  LeftAlone'
<1> USE DEF LeftAlone, Quiet
<1>1. CASE HostStarts \/ UNCHANGED vars
  BY <1>1 DEF HostStarts, Start, coordVars, vars, serverVars
<1>2. CASE Quit
  <2>1. ~QuitDisables \/ device'.on = FALSE
    BY DEF QuitDisables, DisableSucceeds, DisableFails, TypeOK
  <2> QED BY <1>2, <2>1 DEF Quit, QuitBegins, QuitClearsSlot, QuitStopsVideo, QuitDisables,
              ProcessExits, serverVars
<1>3. ASSUME NEW c \in Clients, ClientThread(c)
      PROVE  FALSE
  <2>1. quit # "gone" /\ pc[c] = "idle" /\ task[c] = "none"
    BY <1>3 DEF ClientThread, TaskStep, HandlerStarts, HandlerEnds, CapsHandler, CapsResolution,
          CapsCodec, CapsRate, CapsUnchanged, CapsChanged, CapsEnters, CapsDropped, ApplyEnables,
          ApplyBelieves, ApplyReady, ApplyAnnounces, SendConfig, Recreate, TearDown, Rebuild,
          ListenAgain, ListenFails, Record, Release, SettingHandler, StoreSetting, StoreFails,
          PushMode, SwitchCodec, CodecEnters, CodecSkipped, Goto, Alive, Threads
  <2> QED BY <1>3, <2>1
       DEF ClientThread, TaskStep, HandlerStarts, HandlerEnds, CapsHandler, CapsResolution,
          CapsCodec, CapsRate, CapsUnchanged, CapsChanged, CapsEnters, CapsDropped, ApplyEnables,
          ApplyBelieves, ApplyReady, ApplyAnnounces, SendConfig, Recreate, TearDown, Rebuild,
          ListenAgain, ListenFails, Record, Release, SettingHandler, StoreSetting, StoreFails,
          PushMode, SwitchCodec, CodecEnters, CodecSkipped, Goto, Register, SpawnCancelled,
          LoopCheck, ReadFails, ReadMessage, Leave
<1>4. ASSUME NEW c \in Clients, Tablet(c)
      PROVE  LeftAlone'
  BY <1>4 DEF Tablet, TabletConnects, TabletSends, TabletLeaves, Accept, PeerSend, PeerClose,
              PeerReset, coordVars, driverVars, Alive
<1>5. ASSUME NEW t \in Ticks, Tick(t)
      PROVE  FALSE
  BY <1>5 DEF Tick, TickStarts, TickSamples, TickDecides, TickEnables, TickDisables, TickForgets, TickAssumes,
              TickEnds, Goto, Alive, Threads
<1> QED BY <1>1, <1>2, <1>3, <1>4, <1>5 DEF Next

\* A quit that finds no thread at work, and a devcon that does not fail, leaves the
\* display disabled: the timer and the listener are down by then, for every number
\* of tablets and of ticks that may have been alive before.
THEOREM QuitTheorem ==
    ASSUME "disable" \notin Events
    PROVE  Spec => QuietQuitLeavesNoDisplay
<1>1. Init => ServerStopsFirst
  BY DEF Init, ServerStopsFirst
<1>2. TypeOK /\ ServerStopsFirst /\ [Next]_vars => ServerStopsFirst'
  BY ServerStopsFirstStep
<1>3. TypeOK /\ LeftAlone /\ [Next]_vars => LeftAlone'
  BY LeftAloneStep
<1>4. ServerStopsFirst /\ quit = "video" /\ Quiet => LeftAlone
  BY DEF ServerStopsFirst, LeftAlone
<1>5. LeftAlone => (quit = "disabled" => ~device.on)
  BY DEF LeftAlone
<1> QED BY <1>1, <1>2, <1>3, <1>4, <1>5, TypeCorrect, PTL DEF Spec, QuietQuitLeavesNoDisplay

=============================================================================
