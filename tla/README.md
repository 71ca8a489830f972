# DisplayBridge in TLA+

DisplayBridge turns an Android tablet into a second display of a Windows PC.
The PC host runs a virtual display driver, captures that display, encodes it and
serves it over TCP through `adb reverse`; the tablet decodes it and sends touches
back over a second, the control, socket.  This directory holds models of the
host's control plane, of its input path, of its video path down to the native
capture and encoder, and of the two reference display drivers, with the TLC
configurations that check them and proofs for the TLA+ proof system.

Paths below are relative to the repository; `SC` is
`pc-host/src/DisplayBridge.Host/StreamingCoordinator.cs`.

## 1. Inventory

| Component | State it keeps | Operations | Talks to | What is hard |
|---|---|---|---|---|
| Control socket server (`Core/Control/ControlSocketServer.cs`) | listener, one read task per connection, the one `_activeClient`/`_activeWriter` slot | accept, register, read and dispatch, send, stop | tablet's control client (TCP), coordinator (events, `Send`, `HasClient`) | tasks race to register; a reconnect overlaps the connection it replaces; a blocked read does not see `Stop` |
| Streaming coordinator (`SC`) | settings, negotiated and applied mode, video server, frame source, apply gate, driver belief, poll flag | CAPS, SETTING_REQUEST, poll tick, start, dispose | every other part of the host | handlers of several connections, timer callbacks and Dispose share all of it; one gate, tried and never waited for |
| Driver control (`Core/Video/DriverManager.cs`, `VirtualDisplayConfigurator.cs`) | the display device | enable, disable, EnsureReady (write XML, restart) | Windows through devcon | each call takes seconds and may fail half-way |
| Video stream server (`Core/Video/VideoStreamServer.cs`) | port, one task per client, the bag of tasks | start, stop, serve frames | frame source, tablet | stopped and recreated under load; `Stop` waits two seconds at most, for the tasks it has been told of |
| Managed capture (`NativeCaptureEncoder.cs`) | disposed and initialised flags, the lock of the native calls | init, frames, dispose | native exports | init may hang and is abandoned; Dispose meets a task inside |
| Native capture and encoder (`DisplayBridge.Native`) | one duplication and one encoder, a ring of textures, sequence header | init, frame, keyframe request, shutdown | DXGI, Media Foundation | the transform reads late; three ways to hand a frame over; any step fails |
| Input (`TouchCaptureView.kt`, `TouchEventMapper.kt`; `InputModeClassifier.cs`, `InputDispatcher.cs`, injectors) | pointers down, last route, mouse button, injected contacts | one sample at a time | Windows input | routes change within a gesture; messages are lost with the connection |
| Display-only driver (`windows-driver/reference/video/KMDOD`) | mode, mapped frame buffer, visibility, power, a present's thread | start, stop, enumerate and commit modes, present | Windows' mode manager | some forty calls that may fail, each leaving other handles; threads that draw later |
| Indirect display driver (`windows-driver/reference/video/IndirectDisplay`) | adapter, monitors, a swap chain's thread per monitor | adapter and monitor callbacks, mode queries, assign and unassign | IddCx | callbacks free what a thread uses |
| Settings store, classifier, key map | settings in memory and on disk | load, save, classify | coordinator, settings window | two writers, each with a copy |
| Settings window | its own copy of the settings | edit, save | store | lost updates |
| adb device checker, reverse tunnels | none | poll, restore tunnels | adb process | slow, may fail |
| Wire protocol and framing (generated) | none | varint, encode, decode | both sides | truncated and oversized input |
| Tablet control client (`ControlSocketClient.kt`) | socket, outgoing queue | connect, send CAPS, read, write, stop | control server | reconnects every second, drops what it is given offline |
| Tablet video client, parser, decoder | half-read frame, decoder, surface | connect, parse, decode, restart | video server, MODE_CHANGE | three threads, one decoder; parser outlives connections |
| Presence watcher and probe | last answer | probe the control port | control server | a probe is a connection like any other |
| Monitor locator | cached rectangle | locate, map | Windows | stale after a mode change |
| Windows, autostart, dialogs, tools | none of interest | | | |

What makes each part correct, in short:

* control server: the slot names a connection that is being served; it moves only
  when someone registers, the owner leaves, or the server stops; it does not stay
  with the dead; a stopped server falls silent;
* coordinator: one apply at a time; what is remembered as applied was built;
  the driver restarts only for a change; every CAPS is answered; CONFIG tells the
  truth; the display exists while it is needed and not for ever after;
* video path: nobody is inside a pipeline that was freed; one thread at a time is
  inside it; a replacement ends with a server that listens; no picture is drawn over
  one that is still to be encoded; frames come in order, each once and with its own
  time; a keyframe can be started from;
* input: a button that was begun is ended; the route follows the fingers that are
  really there;
* display-only driver: every handle goes back once, wherever a call fails; what is
  offered fits the frame buffer; pixels land where the picture shows them, in the
  mapping that is there; the object outlives its threads;
* indirect display driver: a thread has its processor for as long as it runs; a swap
  chain is deleted once; a callback returns.

`PROJECT.json` lists every hazard with its line and the properties about it.

## 2. Modules

```
ControlSocketServer <-- StreamingCoordinator      InputDispatch

VideoStreaming      H264Encoder <-- CapturePipeline == refines ==> FrameChannel

Dmm <-- VidPn <--+
                 +-- BasicDisplay                 IndirectDisplay
         Blt <---+
```

An arrow is EXTENDS.  `MC...` modules hold the constants of an instance, `..._proofs`
modules the theorems about the module they are named after; `StreamingCoordinator_proofs`
builds on `ControlSocketServer_proofs`, and `BasicDisplay_proofs` on `Blt_proofs`.

### ControlSocketServer

One process per connection, with the states of `ServeClientAsync` (`spawned` until
the thread pool runs it, `loop` at the `while`, `reading` inside `ReadFramed`,
`handling` inside `Dispatch`, `leaving` in the `finally`).  `conn` is the socket
as the network sees it, `connected` is `TcpClient.Connected`, which only changes
when the host reads or writes; `HasClient` is read from the slot and from
`connected`, as the property in the code is.  A connection identity is free again
when its task has ended, so a behaviour holds any number of reconnects one after
another, and a reconnect that overlaps the task it replaces is a second identity:
`Clients` bounds how many overlap.  `Stop` is two steps, because it cancels the
token before it takes the lock, and its token is not looked at by a blocked read.

Every operation is an action over `serverVars`, so that the coordinator can
use it in conjunction with changes of its own state.

### StreamingCoordinator

Extends the server, and gives each connection's read task a program counter
through the handlers:

* `OnCapsReceived`: `res, codec, rate` (three assignments to shared fields),
  `compare` (the applied mode), `gate` (`Monitor.TryEnter`), then under the gate
  `enable, believe, ready` (`ApplyVirtualDisplayResolution`, `EnsureReady`),
  `announce` (MODE_CHANGE), `teardown, build, listen`
  (`RecreateFrameSourceForNewResolution`), `record` (`_appliedMode`), `release`,
  and after it `config`;
* `OnSettingRequestReceived`: `store`, `push`, `switch` (the active codec is compared
  and assigned), `codecGate`, then the same recreate;
* `OnAdbPollTick`/`ReconcileDriverState`: `sample` (`HasClient`), `decide` (the belief),
  `drive, forget, assume, tickDone`;
* quitting: `timer, control, video, disabled, gone`.

Two steps are one action only when nothing another thread can see comes between
them.  `device` (on, the resolution it came up with, and the one in its settings file) and
`source.live` are the world outside: disabling or restarting the device kills a
capture of it.  `BuildSource` is `CreateFrameSourceGuarded` by its outcomes: virtual
display, primary screen when there is none or it attaches late, fallback when
native init fails, hangs (`abandoned`) or has hung before; the first source, which
`Start` builds, has the same outcomes.  What may fail in a run is
the constant `Events`.

Deliberate simplifications: the estimated bitrate is a function of what is modelled
and is left out; a timer
callback that was queued before the timer was disposed counts as started; messages to
the tablet carry no payload; settings that need no new mode are left out, and so
are the adb tunnels the poll restores.  A failed `EnsureReady` may have written the settings
file before it failed (`DriverManager.cs:336-348`), and then the next enable takes that
resolution up.  The handler of `SettingsValidationException` (`SC:1045-1049`) is dead code,
because `SettingsStore.Validate` checks nothing, and has no action.

### InputDispatch

Fingers come and go on the panel one at a time, and any of them move in one event, as Android
batches moves; each event becomes one message, a set with a sample for every finger on the panel, all carrying the action of the event, which is
what `dispatchAsBatch` does.  The host takes the samples one at a time in the order
of their fingers: `Route` is `InputModeClassifier.Classify`, `CursorSample` and
`TouchSample` are the two branches of `InputDispatcher.Dispatch` with the injectors'
effect.  A position is the zone it lies in.  The connection may be lost at any moment
with what is on it; `intact` remembers whether anything was ever lost, because most
promises about routes are only about gestures that arrived whole.  `lifted` remembers whether a
finger has lifted since one last came down: in between, the host has ended pointers that are
still on the panel (section 3).  One connection dispatches at a time.

### VideoStreaming

The threads around the native pipeline.  A client's task is at `loop`, `pull` (the
disposed check of `GetNextFrame`), `locking`, `native`, `writing` or `over`, and knows the
generation of the server and source it was started for.  A replacement, which the
coordinator makes when a mode changes or the source turns out to show the primary
screen, goes through `stopping` (token cancelled), `waiting` (a snapshot of the tasks the
accept loop has listed, for at most two seconds), `disposing`, `building`, `joining`
(the thread that runs the native init, for at most fifteen seconds, then abandoned for
good) and `starting`, after which the new server listens (`up`) or could not bind its port
(`deaf`).  `List` is a step after `Accept`, as adding to the bag is in the code, and so a
task may be missed by the snapshot.  `native` is the generation for which the process
globals are up.  `holder` is `_nativeCallLock`, which is taken by `GetNextFrame` and
`Dispose` and not by the constructor.  `StreamingCoordinator` has the same replacement from
the side of its gate and its port; the two share no variables.

### H264Encoder, CapturePipeline and FrameChannel

`H264Encoder` is the encoder object.  `pending` holds what the transform has taken and not
encoded: when the sample carries a texture of the ring, what it shows is decided when the
transform reads the texture, and not when the sample was handed over; a sample of memory
holds its picture.  A refused sample turns the ring as well (`frameIndex`).  `SubmitFrame` is its three
ways, from a texture down to the CPU, with what each leaves behind when it fails; `header`,
`published` and `inband` follow the sequence header.  `CapturePipeline` adds the duplication and the exports:
`CaptureInit` in its steps, each with its failure and what it undoes, `CaptureGetFrame` from
the acquired desktop frame to the sample that is given out, shutdown, and a desktop that
goes on, is locked or loses its output in between.  `KeepsUp` is an assumption about the
transform: it is `Lag` frames behind at most.

`FrameChannel` says what all that promises to its caller: a lossy channel that keeps order
and never stamps a picture with another one's time.  `CapturePipeline` implements it by
the mapping in `ImplementsChannel`: what is in flight is what the transform holds and what it
has encoded, and what was delivered last is what the last call returned.

### Dmm, VidPn, Blt and BasicDisplay

The display-only driver.  `Dmm` is Windows' mode manager reduced to its book-keeping:
`has` is which of the driver's handles are set, `held` how many of each kind the manager
still wants back.  The two only agree if the driver is right.  `VidPn` is
`EnumVidPnCofuncModality` with a step per call of the manager, each of which may fail, and
the clean-up at its end.  `Blt` is the address arithmetic of `bltfuncs.cxx` beside a
reference: `Turned` says which pixel of the frame buffer shows a pixel of the picture, and
`CellAddress` where that is.  `BasicDisplay` composes the two with the device: start,
stop, removal, power, visibility, `CommitVidPn` step by step, the mapping of the frame buffer
(mappings are numbered, so that an old address can be told from a new one), and presents,
every other one drawn by a thread that takes the address along.  `synch`, `startup` and
`suspend` are the flag and the two events through which present and thread meet.

Windows serialises: `Called` and `QuietCall` say that it makes one call at a time, and
none that changes what is displayed while a present is outstanding.  That is the contract of
the display port driver, and the driver under study has no lock of its own.

### IndirectDisplay

One processing thread per swap chain: `starting, acquiring, processing, waiting, leaving,
ended`.  Each monitor has one callback at a time (`call`): an assignment replaces the
processor, which sets the terminate event, waits for the thread and frees it.  Adapter set-up
may be asked for at every power-up, and its answer may come late or be a failure.  A mode
query is two calls, one for the number and one with a buffer of that size.  No monitor departs:
the driver makes no such call, and the destructor of a monitor's context (`Driver.cpp:606`)
never runs, because the attributes with which `FinishInit` creates the monitor
(`Driver.cpp:549-550`) name no cleanup callback, as those of the device do
(`Driver.cpp:240`).

## 3. Runs

All runs take the smallest instance in which the case they are about happens.

| Run | Instance | Shows |
|---|---|---|
| `control_socket_server` | 2 connections, 2 messages each on the way | the slot is served, handed over by the rules, lost by the dead, empty after Stop; one late message at most |
| `coordinator_sequential` | 1 tablet of either panel, 1 timer callback; resets, failed enable, disable, EnsureReady and Start | `_appliedMode` is what the capture was built for; the driver restarts only for a change; CAPS are answered; the belief settles |
| `coordinator_codec` | 1 tablet, 2 codec requests and a rate request in any order; closes, failed, late and hung captures, an unwritable settings file, a quit at any moment with and without the six-second cut-off | CONFIG names the running stream; handlers end; a quit that finds no thread at work leaves no display behind |
| `coordinator_overlap` | 2 connections, 2 panels, a codec request; handlers that throw, and reconnects after them | one apply at a time; the port is down only under it; the recorded resolution is the driver's |
| `input_gestures` | 3 fingers, 1 message on the way besides the one being taken, connections lost | the button is released by every end of a touch and never held under touch; nothing is left pressed or counted; routes follow fingers |
| `video_streaming` | 2 clients, 4 generations of server and source | nobody is inside a freed pipeline; one thread at a time inside; replacements and old tasks end |
| `capture_pipeline` | ring of 2, a transform that holds 2 and is 1 behind, 4 frames, 2 inits | no picture drawn over one still to be read; nothing left behind by a failed init; one header per keyframe; the channel is implemented |
| `basic_display` | a 4 by 3 frame buffer, a table of 3 modes, 1 path, 2 presents, 2 mappings | handles come back; what is offered fits; pixels land where they belong in the live mapping; the object outlives its threads; nobody waits for what nobody will do; presents end |
| `indirect_display` | 2 monitors, 2 swap chains, 1 adapter set-up | threads have their processors; chains are deleted once; buffers hold their modes; callbacks return |

Three runs are expected to find a violation, each of a line of the repository that is quoted
in `PROJECT.json` under `findings`:

| Run | What happens |
|---|---|
| `ghost_display` | a poll tick that disables while a CAPS enables leaves the belief at off and the display on, with nobody connected |
| `skipped_reapply` | two tablets: the codec request of one meets the gate held by the other's CAPS and is skipped, with `_activeCodec` changed already (`SC:1103`).  Asked again when all is quiet, as `SC:1107-1108` suggests, it finds no difference at `SC:1101`, and the encoder keeps the old codec |
| `stop_returns_early` | `Stop` returns while a client task is inside the native `GetNextFrame`, because two seconds are over or because the task was not in the bag yet.  Disposing is safe all the same: `video_streaming` shows that the lock of the source sees to it |

More disagreements were met while modelling and have no run of their own:

* a probe that comes and goes leaves the session without a write slot until it reconnects
  (`ControlSocketServer.cs:97`), which `PcPresenceWatcherService.kt:43-45` calls momentary;
* CAPS of two connections write the shared mode outside the gate (`SC:650`), and the mode
  then recorded as applied was never built;
* CAPS whose driver restart fails leaves the codec and rate it negotiated in the shared mode
  (`SC:650`, `SC:659`) with the old encoder running: CONFIG then names what is not running, and
  a request for that codec finds nothing to do (`SC:1101`);
* a codec change after such a CAPS rebuilds the encoder at the rate left behind and records it
  with the rate of the mode before (`SC:1116`): `_appliedMode` is then not what was "last applied
  SUCCESSFULLY end-to-end" (`SC:174-175`), and a later CAPS of the recorded rate is skipped over an
  encoder at another one (`SC:669`);
* a CAPS dropped at a busy gate (`SC:683`) is not sent again by a tablet that stays
  connected, although `SC:200-202` counts on it;
* lifting one of three fingers ends all three on the PC (`TouchCaptureView.kt:95`), and the
  two that stay are routed to the cursor, against `InputModeClassifier.cs:26`, until another
  finger comes down;
* two identical CAPS that overlap restart the driver twice (`SC:669`), a disable that devcon
  fails is believed to have worked (`SC:472`), a disable that lands during an apply is
  forgotten when the apply records its mode (`SC:470`), which then names a dead capture, a CAPS handler at work when the user
  quits can enable the display after Dispose disabled it (`SC:1201`), and after a `Start`
  that throws the next recreate listens on a port Windows chooses (`SC:838`);
* a finger that goes down at the edge and lifts inside leaves an injected contact behind
  (`InputDispatcher.cs:45`), and pointers of a gesture cut off by a lost connection stay
  counted (`InputModeClassifier.cs:98`);
* after the output is lost every later frame fails, and nobody makes the new init the
  comment speaks of except for CAPS or a codec change (`DesktopDuplicationCapture.cpp:281`);
* from the second thread on a present does not wait "to make sure the tread is running"
  (`blthw.cxx:133`): the startup event is never reset (`blthw.cxx:152`).  With one present
  outstanding this does no harm (`EveryWaitEnds`); with two, the new thread can take the suspend
  event set for the one before it, which then waits forever;
* rotation is offered by the reverse of the condition its comment states
  (`bdd_dmm.cxx:363`); the clean-up of a failed enumeration releases a path twice if a failed
  call of the manager leaves its result set (`bdd_dmm.cxx:397`).

### Bounds

* Two connections are enough for every overlap: the slot, the gate, the shared mode and the
  native globals are single places, and a third only repeats what the second does to them.
  Two panels differ in all of resolution, rates and codecs, so that any mixture is visible.
  One message may be on its way per connection (`MaxInbox = 1`) where CAPS are the matter,
  two where the order of requests is.
* Three fingers (`MaxPointer = 2`), so that two can stay when one lifts.  One message is on
  its way (`MaxWire = 1`) while the samples of the one before are being dispatched; the theorems
  are for any number of fingers, and for any wire.
* `coordinator_codec` has no timer callback: `QuitTheorem` is for any number of them.
* `MaxGen = 4`: a thread abandoned in one replacement can meet the next two.
* `RingSize = 2` where the code has a longer ring, so that it comes round within four frames;
  `Lag = 1` keeps the same relation to it (`Lag < RingSize`), and is the one thing the
  correctness of the ring depends on.  `MaxInits = 2`: an init on top of a failed or a
  finished one.
* The frame buffer is not square and has padding, so that a wrong pitch, width or turn
  changes an address; the table holds a mode that is too high, one that fits and one after it.
  Two presents are one of each kind, and with `MaxOutstanding = 1` they still overlap, because
  a thread that has reported is no longer outstanding.  Two mappings tell a live address
  from a stale one.  `EnumMaps = 0`: an enumeration reads nothing of the device but the size of the
  frame buffer, so it is explored before the first mapping only.
* `MaxAdapters = 1`, `MaxChains = 2`: a swap chain replaced by another, on the same monitor
  or on two.

### Preconditions written into the properties

* `boundPort = "tunnel"`: no `VideoStreamServer.Start` has thrown yet.  After
  that the code has lost its port (above), and a closed port is what it is.
* `intact`: no touch message has been lost.
* `source.kind = "virtual"`: a fallback or primary-screen source has the primary
  screen's size whatever CAPS asked for.
* Runs with one tablet state what two tablets would refute
  (`AppliedModeWasBuilt`, `RestartOnlyOnChange`, `CapsAnswered`, `ConfigIsTruthful`): the code keeps
  its promises as long as handlers do not overlap, through reconnects one after another, timer
  callbacks and every failure listed.  A reconnect while the old task is still at work is two
  identities, and then they do not hold.
* `AppliedModeWasBuilt` is about the modes.  It does not say that the capture is alive: a tick
  that disables the display during an apply leaves a dead one under a recorded mode
  (`SC:470`), in this very run.
* `~lifted`: no finger has lifted since the last one came down, in the second rule of
  `RouteFollowsFingers`.
* A topology that is enumerated has a path (`1 .. Views`): the loop is entered whatever the
  first call returns short of an error (`bdd_dmm.cxx:154`), and would follow a null path
  otherwise.
* `FailureClears`: a call of the mode manager that fails leaves its result empty, on which
  the driver's clean-up relies.

### Fairness

`ServerFairness` and `Fairness` are weak fairness of each connection's task, of each timer
callback, of starting the host and of a Dispose that was begun.  The tasks run on
the thread pool and the timer is periodic, no thread waits for the gate, and calls
that may block for long (devcon, native init) have timeouts in the code.  The read of a
quiet connection is not enabled and so never forced.  Nothing is assumed of the tablet,
the network or the user.

`VideoSpec` adds weak fairness of each client task, including that a native call returns
(`AcquireNextFrame` has a timeout) and that a blocked write times out, and of the replacement
once begun.  An init that hangs is not forced to return.  Nobody is forced to connect or to
ask for a replacement.  `DisplaySpec` has weak fairness of each present's thread and of the
present that waits for it, `IddSpec` of each processing thread and of each callback that is
in progress.  `RunsDry` is an assumption of another kind, strong fairness of finding no
buffer and of seeing the terminate event: the loop looks at that event only when there is no
buffer, so a framework that always has one would keep the callback waiting.

Deadlock is checked except where the system may stop (`Stop` of the control server,
quitting) or where a bound ends it (the runs of the video path and of the drivers).

## 4. Proofs

For every value of the constants that satisfies the named assumptions (sets of
messages of the right shape, `None` outside the other sets, timer callbacks other than
connections, bounds that are numbers):

* **ControlSocketServer_proofs**.  `SlotIsServed` is not inductive: that a
  registering connection has a socket follows from every task having one since it was
  spawned.  `ServerIInv` adds that (`TaskHasSocket`) and the types.  `SlotHandover` is
  proved action by action.  `AtMostOneLateMessage` is about all that follows Stop, so
  `OverStep` shows that a task which is back at its loop after Stop never leaves
  `Over` again.
* **StreamingCoordinator_proofs**, any number of tablets.  `StepIsServerStep`: a step of the
  composition is a step of the control server or leaves its variables alone
  (`ServerRefinement`), so `ServerIInv` carries over.  `CoordIInv` adds four parts.
  `HandlerShape` ties the program counter to the server's dispatch: a thread is inside a
  handler exactly while its task is `handling`, and in the one for that message.
  `SingleFlight` is inductive with it.  `PortDownOnlyUnderGate` needs `SingleFlight`: the
  thread that closed the port still holds the gate.  `AppliedResolutionIsDrivers` is about
  moments between applies, so `ResolutionFollows` says what holds during one: from the
  driver's restart to `record`, the device has the resolution of the CAPS
  being applied; at all other times that of `_appliedMode`.  It assumes `DriverObeys`: an
  `EnsureReady` that fails after it wrote the settings file leaves a resolution for the next
  enable to take up, which no `_appliedMode` knows of.  That it is proved for any
  number of tablets, while `AppliedModeWasBuilt` fails with two, is the point: the resolution
  comes from the message, the rate and codec from shared fields.
  `QuietQuitLeavesNoDisplay` is about the rest of the behaviour after a quiet moment:
  `LeftAlone` says that from then on only the quit can move, because Dispose has stopped the
  server (`ServerStopsFirst`) and no new timer callback starts.  It assumes that devcon does not
  fail to disable (`"disable" \notin Events`).
* **StreamingCoordinator_proofs**, one tablet.  `OneTablet` (any two members of `Clients` are
  equal) is the assumption under which the code's promises about the applied mode hold: one
  connection at a time, with all its reconnects, failures, timer callbacks and the quit.
  `HandlerIInv` says what is known inside a handler: the shared resolution is that of
  its CAPS (`OwnResolution`), the mode it decided to apply still differs from the recorded one
  (`StillChanged`), a recreate without CAPS is for the codec that was chosen
  (`CodecRequested`), and a source just built has the shared codec and rate and the device's
  resolution (`BuiltForShared`).  `StillChanged` is `RestartOnlyOnChange`.  `AppliedIInv` relates
  source and `_appliedMode` over a whole apply: `RunsApplied` outside of `listen` and
  `record`, and for it `RateRecorded`, that the shared rate is the recorded one but while a
  CAPS is at work.  The second, and with a codec change `RunsApplied` too, is false when the
  driver's restart fails (section 3); so `AppliedModeTheorem` assumes that the restart succeeds
  (`DriverObeys`) or that no codec is requested (`NoCodecRequests`); the run
  `coordinator_sequential` is the second case.  `ConfigIInv` does the same for CONFIG:
  `ConfigIsTruthful` is proved with a driver that obeys and a port that can be bound again;
  section 3 says what happens otherwise.
* **InputDispatch_proofs**.  `NoButtonUnderTouch` is inductive, for any number of fingers
  and any losses, and carries `UpReleasesButton`.  The types are inductive by themselves.
  The properties of a gesture that arrived whole relate the host to the panel across the
  messages on the way.  `GestureIInv` says what those messages still hold: whatever the host
  counts that has left the panel is ended by a sample under way (`GestureEnds`, with `Later` and
  `Followed` about the order of samples in the queue), and unless one has lifted
  since the last one came down, each of those on the panel is counted or a sample that counts it
  is to come (`RestingFingersCount`).  It gives
  `NoPhantomPointer`, `NoButtonAfterGesture` and `RouteFollowsFingers`, all for any number of
  fingers: a finger that comes down brings a sample of every finger with it, so from then until
  one lifts all of them are counted.
* **VideoStreaming_proofs**.  `NoCallIntoFreedPipeline` rests on a chain: a task inside holds the
  lock of its source, which is native (`InsideHoldsLock`); a native source is the current
  one and has the globals up (`NativeIsCurrent`); there is none while the next one is built, and
  none ever after a thread was abandoned (`NoNativeMeanwhile`).  That `Stop` waits is used
  nowhere.  `OneThreadInside` also needs that a thread runs init only while it is waited for
  or after it was abandoned (`InitIsAwaited`, `OneInit`).
* **CapturePipeline_proofs**.  `NothingLeftBehind` is the case `call = "none"` of `CallShape`, which
  says what exists at each point of a call.  `NoWriteWhileReading` is proved from
  `Lag < RingSize`, for any ring: a texture that is still to be read was drawn at a turn
  `k` of the ring, and no more turns have been made since than frames were captured
  (`DrawnAt`), refused frames included, so that the ring has not come round.
  `ImplementsChannelTheorem` is the refinement of `FrameChannel`, step by step, with the same
  assumption.  `OrderIInv` carries it: both queues rise in time (`Rising`) and lie between what was given
  out last and what has been offered (`Between`), all that is encoded is older than all that is pending
  (`EncodedFirst`), and every encoded frame has its own picture (`OwnPicture`).  The last needs
  `NoWriteWhileReading`: the picture is read from the ring when the transform comes to it.
  `KeyframeCarriesHeaderTheorem` needs no assumption.
* **IndirectDisplay_proofs**.  `ThreadHasItsProcessor` and `DeletedOnce` are inductive together with
  `OneOwner` (a swap chain has one processor at most), `AssigningFresh` (one that is being
  assigned is nobody's yet) and `NotMadeYet`.  `ModesFitTheirBufferTheorem` needs what a query
  keeps between its two calls: the buffer is empty or as long as was announced.
* **Blt_proofs**.  For any size, pitch, rotation and rectangle, the address the copy steps to is
  that of the turned pixel (`AddressOfItsCell`), and lies inside of the frame buffer, centered or
  not (`InsideFrameBuffer`).
* **BasicDisplay_proofs**.  `ThreadIInv`: at most one thread is left besides the one of the
  present under way, and it is the one the driver remembers, which gives
  `ObjectOutlivesThreads`.  `MapIInv`: the mapping kept is the pointer's, and whatever is outstanding
  draws to it.  `ModeIInv`: every mode and every job fits the frame buffer, so that with `Blt_proofs`
  `DrawsThePicture` holds.  `HandleIInv` says for each place of an enumeration or a commit which
  handles are set and that the manager wants back just those; with `FailureClears` it is
  inductive and gives `EveryHandleReturned` and `CleanUpOnlyAfterFailure`, for any topology
  and a failure anywhere.  `OfferIInv` says at each place of the enumeration what has been offered so
  far: on every path the loop has left, exactly what is open, and on its own path as much of that
  as the place decides (`Decided`).  `FittingIsAll` is the loop over the table of modes: in a table sorted by width
  and height (`Sorted`, as `C_SampleSourceMode` of `bdd_dmm.cxx:842` is) stopping early leaves nothing out.
  Together they are `OffersWhatIsOpen`, for any number of paths, where the run has one.
  `WaitIInv` says who waits for whom: the suspend event is set only for the remembered thread and
  only until that goes on, and a present begins with every thread before it reported.  It gives
  `EveryWaitEnds`, the safety half of `PresentIsReported`, for any number of presents, and needs
  `OneOutstanding`, one present at a time, Windows' contract as section 2 gives it.

Only model-checked: all liveness (`DeadClientLosesSlot`, `StoppedSlotEmpties`, `CapsAnswered`,
`HandlersFinish`, `BeliefConverges`, `RestartEnds`, `OldTasksEnd`, `CallbackReturns`,
`PresentIsReported`), which depends on fairness and `ENABLED` and is out of the prover's reach.
Every safety property of a passing run is a theorem; those whose theorem has an assumption
are false without it, or not stated by the code, as said above.

## 5. What is not modelled, and the plan

In this order:

1. `VideoFraming` and the tablet's `VideoStreamClient`: the parser across
   reconnects; the control framing and varint as functions checked
   against a reference over bounded inputs.
2. `TabletDecoder`: surface callbacks, MODE_CHANGE, errors and the restart budget.
3. `PresenceWatcher` composed with the control server and the tablet's
   activity lifecycle (`ControlSocketClient` start and stop).
4. `Settings`: clamping, classification, the two writers, `CONFIG_UPDATE`.
5. `AdbReverse` and the poll's other half.
6. Two control connections in one classifier, then the composition of input and control.
7. The rest of the display-only driver: `IsSupportedVidPn`, `RecommendMonitorModes`, child and
   EDID queries, the pointer.
8. `VideoStreaming` composed with the coordinator's gate, in place of a replacement that may come
   at any time; an abstract specification of the display's life (wanted, applied, serving), with
   the coordinator of one tablet as its refinement.
9. Proofs to add: for each wait of a liveness property, that somebody is left who can end it, as
   invariants for any number of them (`EveryWaitEnds` is that for a present and its thread; a
   callback and its processor, a replacement and its tasks are left).

Within what is modelled, these are left out: live changes of the bitrate, the choice of the output
and the conversion of pixels, the GDI capture, EDID bytes, the registry and the numbers of a mode.
Left out for good: the generated message classes field by field, user interfaces, autostart,
developer tools, the archived pixel library, the sample application and prebuilt drivers.

## 6. Running

```
tlc -config MCCoordinatorOverlap.cfg MCStreamingCoordinator   # a minute or two, the others about as much or less
tlapm StreamingCoordinator_proofs.tla
```

The operators commented as mutations stand next to the definitions they vary.  None is
used by a specification: each is a plausible bug that one property is known to catch.
