---------------------------- MODULE BasicDisplay -----------------------------
(* The display-only driver as one device: start and stop, the mode that is    *)
(* committed, the frame buffer that is mapped for it, the visibility, and the *)
(* presents, every second one drawn by a thread of its own that reports when  *)
(* it is done.  Windows makes one call at a time (pc), and none that changes  *)
(* the display while a present is outstanding; the threads run meanwhile.     *)
(* The enumeration of modes (VidPn) is one of the calls.                      *)
EXTENDS VidPn, Blt

CONSTANTS Padding,          \* bytes of a row of the frame buffer beyond its pixels
          Bytes,            \* bytes of a pixel of the frame buffer
          MaxOutstanding,   \* presents Windows lets be outstanding together
          MaxPresents,      \* bound: presents
          MaxMaps,          \* bound: times the frame buffer is mapped
          EnumMaps          \* bound: mappings after which modes are enumerated

ASSUME PixelAssumption == Padding \in Nat /\ Bytes \in {1, 2, 3, 4}
ASSUME PresentAssumption == {MaxOutstanding, MaxPresents, MaxMaps, EnumMaps} \subseteq Nat

VARIABLES attached,       \* the driver object of the device
          started,      \* m_Flags.DriverStarted
          power,        \* m_AdapterPowerState
          ptr,          \* FrameBuffer.Ptr: 0, or the number of the mapping
          active,       \* FrameBufferIsActive
          mapped,       \* the mappings that Windows keeps for the driver
          notVisible,   \* SourceNotVisible
          mode,         \* SrcModeWidth and Height, Scaling, Rotation
          maps,         \* mappings made so far
          synch,        \* m_SynchExecution
          startup,      \* m_hThreadStartupEvent, which nothing resets
          suspend,      \* m_hThreadSuspendEvent, which a wait resets
          thread,       \* m_pPresentWorkerThread: the present it draws, or 0
          jobs,         \* the presents that are being drawn, by number
          presents      \* presents so far

deviceVars == <<attached, started, power>>
screenVars == <<ptr, active, mapped, notVisible, mode, maps>>
bltVars == <<synch, startup, suspend, thread, jobs, presents>>
displayVars == <<vidPnVars, deviceVars, screenVars, bltVars>>
callVars == <<path, topology, pivot, post, status, offered, modes>>

NoMode == [size |-> <<0, 0>>, centered |-> FALSE, rotation |-> 0]

DisplayInit ==
  /\ VidPnInit
  /\ attached = TRUE /\ started = FALSE /\ power = "D0"
  /\ ptr = 0 /\ active = FALSE /\ mapped = {} /\ notVisible = FALSE
  /\ mode = NoMode
  /\ maps = 0
  /\ synch = TRUE /\ startup = FALSE /\ suspend = FALSE /\ thread = 0
  /\ jobs = <<>> /\ presents = 0

Outstanding == {n \in DOMAIN jobs : jobs[n].stage # "exiting"}

\* A call begins: the driver object is there, no other call is under way, and
\* nothing is being drawn when the call changes what is displayed.
Called == attached /\ pc = <<"idle">>
QuietCall == Called /\ Outstanding = {}
ActiveCall == QuietCall /\ started
-----------------------------------------------------------------------------
(* Start, stop, power and visibility                                          *)

ClearModes ==    \* m_CurrentModes
  /\ ptr' = 0 /\ active' = FALSE /\ notVisible' = FALSE
  /\ mode' = NoMode

StartDevice ==
  /\ QuietCall /\ ~started
  /\ ClearModes
  /\ started' = TRUE
  /\ UNCHANGED <<vidPnVars, attached, power, mapped, maps, bltVars>>

StartDeviceFails ==
  /\ QuietCall /\ ~started
  /\ ClearModes
  /\ UNCHANGED <<vidPnVars, deviceVars, mapped, maps, bltVars>>

\* The pointer and its flag: nothing else of the mode is touched.
Unmap ==
  /\ ptr' = 0 /\ active' = FALSE
  /\ mapped' = mapped \ {ptr}

\* Mutation of StopDevice: without CleanUp.
StopDeviceOnly ==
  /\ QuietCall /\ started
  /\ started' = FALSE
  /\ UNCHANGED <<vidPnVars, attached, power, screenVars, bltVars>>

StopDevice ==    \* and CleanUp
  /\ QuietCall /\ started
  /\ Unmap
  /\ started' = FALSE
  /\ UNCHANGED <<vidPnVars, attached, power, notVisible, mode, maps, bltVars>>

StopDeviceAndReleasePostDisplayOwnership ==
  /\ QuietCall /\ started
  /\ Unmap
  /\ started' = FALSE
  /\ UNCHANGED <<vidPnVars, attached, power, notVisible, mode, maps, bltVars>>

\* BddDdiRemoveDevice: the destructors wait for the last thread to exit.
RemoveDevice ==
  /\ QuietCall /\ ~started
  /\ Unmap
  /\ pc' = <<"remove">>
  /\ UNCHANGED <<callVars, dmmVars, deviceVars, notVisible, mode, maps,
                 bltVars>>

\* Mutation of DestructorReturns: it does not wait.
DestructorReturnsAtOnce ==
  /\ pc = <<"remove">>
  /\ thread' = 0
  /\ attached' = FALSE
  /\ pc' = <<"idle">>
  /\ UNCHANGED <<callVars, dmmVars, started, power, screenVars, synch, startup,
                 suspend, jobs, presents>>

DestructorReturns ==
  /\ pc = <<"remove">>
  /\ thread \notin DOMAIN jobs
  /\ thread' = 0
  /\ attached' = FALSE
  /\ pc' = <<"idle">>
  /\ UNCHANGED <<callVars, dmmVars, started, power, screenVars, synch, startup,
                 suspend, jobs, presents>>

\* BddDdiAddDevice: a new object, for the frame buffer as it is.
AddDevice ==
  /\ ~attached /\ attached' = TRUE
  /\ power' = "D0"
  /\ ClearModes
  /\ synch' = TRUE /\ startup' = FALSE /\ suspend' = FALSE /\ thread' = 0
  /\ UNCHANGED <<vidPnVars, started, mapped, maps, jobs, presents>>

\* Where nothing is visible the screen is blacked out within the call: what the
\* frame buffer shows is not modelled.
SetVidPnSourceVisibility(visible) == notVisible' = ~visible

SourceVisibility ==
  /\ ActiveCall
  /\ \E visible \in BOOLEAN : SetVidPnSourceVisibility(visible)
  /\ UNCHANGED <<vidPnVars, deviceVars, ptr, active, mapped, mode, maps,
                 bltVars>>

\* Back from D3 nothing is visible.
SetPowerState ==
  /\ ActiveCall
  /\ power' \in {"D0", "D3"}
  /\ IF power' = "D0" /\ power = "D3"
     THEN SetVidPnSourceVisibility(FALSE)
     ELSE UNCHANGED notVisible
  /\ UNCHANGED <<vidPnVars, attached, started, ptr, active, mapped, mode, maps,
                 bltVars>>

UpdateActiveVidPnPresentPath ==
  /\ ActiveCall
  /\ \E turn \in {0, 90} : mode' = [mode EXCEPT !.rotation = turn]
  /\ UNCHANGED <<vidPnVars, deviceVars, ptr, active, mapped, notVisible,
                 maps, bltVars>>
-----------------------------------------------------------------------------
(* CommitVidPn                                                                *)

Commit(from, to) == pc = <<"commit", from>> /\ pc' = <<"commit", to>>

CommitVidPn ==
  /\ ActiveCall
  /\ pc' = <<"commit", "paths">>
  /\ UNCHANGED <<callVars, dmmVars, deviceVars, screenVars, bltVars>>

\* Without a path in the topology the source mode set is not asked for.
CommitNoPath ==
  /\ Commit("paths", "unmap")
  /\ UNCHANGED <<callVars, dmmVars, deviceVars, screenVars, bltVars>>

CommitSourceModeSet ==
  /\ Commit("paths", "pinned")
  /\ Acquire("sourceSet")
  /\ UNCHANGED <<callVars, deviceVars, screenVars, bltVars>>

CommitPinnedMode ==
  /\ Commit("pinned", "unmap")
  /\ Acquire("sourceMode") \/ UNCHANGED dmmVars
  /\ UNCHANGED <<callVars, deviceVars, screenVars, bltVars>>

\* The old mode goes before the new one is looked at.  That cannot fail: there
\* is a pointer, and a length, the two things UnmapFrameBuffer checks.
CommitUnmap ==
  /\ Commit("unmap", IF "sourceMode" \in has THEN "path" ELSE "exit")
  /\ Unmap
  /\ UNCHANGED <<callVars, dmmVars, deviceVars, notVisible, mode, maps,
                 bltVars>>

\* The path of the source, which may have none.
CommitPathInfo ==
  /\ \/ Commit("path", "set") /\ Acquire("path")
     \/ Commit("path", "exit") /\ UNCHANGED dmmVars
  /\ UNCHANGED <<callVars, deviceVars, screenVars, bltVars>>

\* One of the modes the enumeration offers for this frame buffer.
NewMode ==
  \E size \in {post} \union Fitting, centered \in BOOLEAN, turn \in {0, 90} :
     mode' = [size |-> size, centered |-> centered, rotation |-> turn]

SetSourceModeAndPath ==
  /\ Commit("set", "release")
  /\ NewMode
  /\ maps < MaxMaps /\ maps' = maps + 1
  /\ mapped' = mapped \union {maps'}
  /\ ptr' = maps' /\ active' = TRUE
  /\ UNCHANGED <<callVars, dmmVars, deviceVars, notVisible, bltVars>>

MapFrameBufferFails ==
  /\ Commit("set", "exit")
  /\ NewMode
  /\ UNCHANGED <<callVars, dmmVars, deviceVars, ptr, active, mapped,
                 notVisible, maps, bltVars>>

CommitReleasePath ==
  /\ Commit("release", "exit")
  /\ Release("path")
  /\ UNCHANGED <<callVars, deviceVars, screenVars, bltVars>>

\* A call of the mode manager, or a check of the mode or of the path, fails.
CommitFails ==
  /\ \E from \in {"paths", "pinned", "path", "set", "release"} : Commit(from, "exit")
  /\ UNCHANGED <<callVars, dmmVars, deviceVars, screenVars, bltVars>>

CommitReturns ==
  /\ pc = <<"commit", "exit">> /\ pc' = <<"idle">>
  /\ ReleaseAll
  /\ UNCHANGED <<callVars, deviceVars, screenVars, bltVars>>
-----------------------------------------------------------------------------
(* PresentDisplayOnly                                                         *)

BltInfo(size, rotation) ==
  [pitch |-> Width(post) * Bytes + Padding, bytes |-> Bytes,
   width |-> Width(size), height |-> Height(size), rotation |-> rotation,
   x |-> 0, y |-> 0]

\* What a present leaves to the copy: the mapping as it is now, and where the
\* picture begins in it.
Context(turn, stage) ==
  LET b == BltInfo(mode.size, turn)
  IN [dst |-> ptr, blt |-> b, stage |-> stage,
      shift |-> IF mode.centered THEN CenterShift(b, Width(post), Height(post))
                                 ELSE 0]

Presents == Called /\ started /\ Cardinality(Outstanding) < MaxOutstanding
Shown == active /\ ~notVisible

PresentNothing ==
  /\ Presents /\ ~Shown
  /\ UNCHANGED displayVars

\* The context or its memory cannot be had: what was made of it is not freed.
PresentFails ==
  /\ Presents /\ Shown
  /\ synch' \in {synch, ~synch}
  /\ UNCHANGED <<vidPnVars, deviceVars, ptr, active, mapped, notVisible, mode,
                 maps, startup, suspend, thread, jobs, presents>>

\* ExecutePresentDisplayOnly: drawn here, or by a new thread, in turn.
NewJob(stage) ==
  /\ presents < MaxPresents /\ presents' = presents + 1
  /\ \E turn \in {0, mode.rotation} :
       jobs' = [n \in DOMAIN jobs \union {presents'} |->
                  IF n = presents' THEN Context(turn, stage) ELSE jobs[n]]

PresentSynch ==
  /\ Presents /\ Shown /\ ~synch
  /\ synch' = TRUE
  /\ NewJob("inline")
  /\ pc' = <<"present", "draw">>
  /\ UNCHANGED <<callVars, dmmVars, deviceVars, ptr, active, mapped,
                 notVisible, mode, maps, startup, suspend, thread>>

PresentAsynch ==
  /\ Presents /\ Shown /\ synch
  /\ synch' = FALSE
  /\ NewJob("created")
  /\ pc' = <<"present", "startup">>
  /\ UNCHANGED <<callVars, dmmVars, deviceVars, ptr, active, mapped,
                 notVisible, mode, maps, startup, suspend, thread>>

Gone(n) == jobs' = [m \in DOMAIN jobs \ {n} |-> jobs[m]]
AtStage(n, from, to) ==
  /\ jobs[n].stage = from
  /\ jobs' = [jobs EXCEPT ![n] = [dst |-> jobs[n].dst, blt |-> jobs[n].blt,
                                   stage |-> to, shift |-> jobs[n].shift]]

PresentDraws ==
  /\ pc = <<"present", "draw">> /\ pc' = <<"idle">>
  /\ \E n \in DOMAIN jobs : jobs[n].stage = "inline" /\ Gone(n)
  /\ UNCHANGED <<callVars, dmmVars, deviceVars, ptr, active, mapped,
                 notVisible, mode, maps, synch, startup, suspend,
                 thread, presents>>

\* StartHwBltPresentWorkerThread waits for a thread to have started.
PresentThreadStarted ==
  /\ pc = <<"present", "startup">> /\ pc' = <<"present", "record">>
  /\ startup
  /\ UNCHANGED <<callVars, dmmVars, deviceVars, screenVars, bltVars>>

\* Mutation of PresentResumesThread: the event of the thread is not set.
PresentRecordsThread ==
  /\ pc = <<"present", "record">> /\ pc' = <<"idle">>
  /\ thread \notin DOMAIN jobs
  /\ thread' = presents
  /\ UNCHANGED <<callVars, dmmVars, deviceVars, screenVars, synch, startup,
                 suspend, jobs, presents>>

\* SetPresentWorkerThreadInfo waits for the thread before; then the new one
\* may go on, and the present is outstanding.
PresentResumesThread ==
  /\ pc = <<"present", "record">> /\ pc' = <<"idle">>
  /\ thread \notin DOMAIN jobs
  /\ thread' = presents
  /\ suspend' = TRUE
  /\ UNCHANGED <<callVars, dmmVars, deviceVars, screenVars, synch, startup,
                 jobs, presents>>
-----------------------------------------------------------------------------
(* HwContextWorkerThread and HwExecutePresentDisplayOnly                      *)

\* Mutation of WorkerStarts: the call that made the thread is not told.
WorkerStartsSilently(n) ==
  /\ AtStage(n, "created", "started")
  /\ UNCHANGED <<vidPnVars, deviceVars, screenVars, synch, startup, suspend,
                 thread, presents>>

WorkerStarts(n) ==
  /\ AtStage(n, "created", "started")
  /\ startup' = TRUE
  /\ UNCHANGED <<vidPnVars, deviceVars, screenVars, synch, suspend, thread,
                 presents>>

WorkerGoesOn(n) ==
  /\ AtStage(n, "started", "drawing")
  /\ suspend /\ suspend' = FALSE
  /\ UNCHANGED <<vidPnVars, deviceVars, screenVars, synch, startup, thread,
                 presents>>

WorkerDraws(n) ==
  /\ AtStage(n, "drawing", "reporting")
  /\ UNCHANGED <<vidPnVars, deviceVars, ptr, active, mapped, notVisible,
                 mode, maps, synch, startup, suspend, thread,
                 presents>>

ReportPresentProgress(n) ==
  /\ AtStage(n, "reporting", "exiting")
  /\ UNCHANGED <<vidPnVars, deviceVars, screenVars, synch, startup, suspend,
                 thread, presents>>

WorkerExits(n) ==
  /\ jobs[n].stage = "exiting"
  /\ Gone(n)
  /\ UNCHANGED <<vidPnVars, deviceVars, screenVars, synch, startup, suspend,
                 thread, presents>>

-----------------------------------------------------------------------------
\* An enumeration reads the size of the frame buffer and nothing else of the
\* device: the first modes are enough to see all it can do.
Enumerates ==
  /\ pc = <<"idle">> => ActiveCall /\ maps <= EnumMaps
  /\ VidPnNext
  /\ UNCHANGED <<deviceVars, screenVars, bltVars>>

Commits ==
  \/ CommitVidPn \/ CommitNoPath \/ CommitSourceModeSet \/ CommitPinnedMode
  \/ CommitUnmap \/ CommitPathInfo \/ SetSourceModeAndPath
  \/ MapFrameBufferFails \/ CommitReleasePath \/ CommitFails \/ CommitReturns

PresentReturns == PresentDraws \/ PresentThreadStarted \/ PresentResumesThread

Worker(n) ==
  /\ n \in DOMAIN jobs
  /\ \/ WorkerStarts(n) \/ WorkerGoesOn(n) \/ WorkerDraws(n)
     \/ ReportPresentProgress(n) \/ WorkerExits(n)

DisplayNext ==
  \/ Enumerates
  \/ StartDevice \/ StartDeviceFails \/ StopDevice
  \/ StopDeviceAndReleasePostDisplayOwnership
  \/ RemoveDevice \/ DestructorReturns \/ AddDevice
  \/ SourceVisibility \/ SetPowerState \/ UpdateActiveVidPnPresentPath
  \/ Commits
  \/ PresentNothing \/ PresentFails \/ PresentSynch \/ PresentAsynch
  \/ PresentReturns
  \/ \E n \in 1 .. MaxPresents : Worker(n)

DisplaySafety == DisplayInit /\ [][DisplayNext]_displayVars

\* A thread that can run runs, and a call whose wait is over goes on.
DisplaySpec ==
  /\ DisplaySafety
  /\ WF_displayVars(PresentReturns)
  /\ \A n \in 1 .. MaxPresents : WF_displayVars(Worker(n))
-----------------------------------------------------------------------------
\* The type invariant.
DisplayTypeOK ==
  /\ post \in PostModes
  /\ mode \in [size : {<<0, 0>>, post} \union Fitting, centered : BOOLEAN,
               rotation : {0, 90}]
  /\ has \subseteq Handles
  /\ held \in [Kinds -> Int]
  /\ {ptr, maps} \subseteq Nat /\ mapped \subseteq Nat
  /\ presents \in Nat /\ thread \in 0 .. presents
  /\ DOMAIN jobs \subseteq 1 .. presents

\* Whatever call of the mode manager fails, and wherever, every mode set, mode
\* and path it handed out has been given back once when the call returns; and
\* a mode is held only together with the set it belongs to.
EveryHandleReturned ==
  /\ pc = <<"idle">> => \A k \in Kinds : held[k] = 0
  /\ "sourceMode" \in has => "sourceSet" \in has
  /\ "targetMode" \in has => "targetSet" \in has

\* The assertion at the end of EnumVidPnCofuncModality: something is left to
\* give back only when the enumeration has failed.
CleanUpOnlyAfterFailure ==
  pc = <<"exit">> /\ has # {} => status = "failed"

\* An enumeration that succeeds has offered modes and scalings exactly where
\* nothing is pinned and nothing is the pivot, on every path; and the modes it
\* offers are those of the table that fit into the frame buffer.
OffersWhatIsOpen ==
  pc = <<"exit">> /\ status = "success" =>
    /\ \A p \in 1 .. Len(topology), what \in {"source", "target", "scaling"} :
         <<what, p>> \in offered <=>
           what \notin topology[p] /\ ~(pivot.type = what /\ pivot.path = p)
    /\ \A m \in modes : Width(m) <= Width(post) /\ Height(m) <= Height(post)
    /\ Fitting = {m \in {SampleModes[i] : i \in DOMAIN SampleModes} :
                    /\ Width(m) <= Width(post) /\ Height(m) <= Height(post)
                    /\ m # post}

\* What is being drawn: a present, or the screen of a crash, which may come at
\* any time and fills the frame buffer, with the rotation of the mode.
SystemDisplayWrite ==
  [dst |-> ptr, blt |-> BltInfo(post, mode.rotation), shift |-> 0, stage |-> "drawing"]

Drawing ==
  {jobs[n] : n \in {m \in DOMAIN jobs : jobs[m].stage \in {"inline", "drawing"}}}
    \union {d \in {SystemDisplayWrite} : attached /\ ptr # 0}

\* Nothing is drawn into a mapping that is gone, although a thread carries its
\* address from the present to the copy; and every mapping that is not gone is
\* the one the driver knows of, whichever of its calls failed.
DrawsIntoLiveMapping ==
  /\ \A d \in Drawing : d.dst \in mapped
  /\ mapped = {ptr} \ {0}

\* Every pixel of a rectangle lands on the pixel of the frame buffer that shows
\* it, turned and centered, and inside of the frame buffer.
DrawsThePicture ==
  \A d \in Drawing :
    \A left \in 0 .. LookedAtWidth(d.blt) - 1, top \in 0 .. LookedAtHeight(d.blt) - 1 :
      \A x \in 0 .. LookedAtWidth(d.blt) - left - 1,
         y \in 0 .. LookedAtHeight(d.blt) - top - 1 :
        LET address == BltAddress(d.blt, left, top, x, y)
        IN /\ address = CellAddress(d.blt, Turned(d.blt, left + x, top + y))
           /\ 0 <= d.shift + address
           /\ d.shift + address + d.blt.bytes <= Height(post) * d.blt.pitch

\* The driver object outlives every thread that uses it.
ObjectOutlivesThreads == ~attached => DOMAIN jobs = {}

Waiting(n) == jobs[n].stage \in {"created", "started"}
ForThread == {<<"present", "startup">>, <<"present", "record">>}

\* Nobody waits for what nobody will do: not a present for its thread to start,
\* not a present or the destructor for the thread before to exit, and no thread
\* for the event on which it goes on (StartHwBltPresentWorkerThread,
\* SetPresentWorkerThreadInfo, HwContextWorkerThread).
EveryWaitEnds ==
  /\ pc = <<"present", "startup">> =>
       startup \/ (presents \in DOMAIN jobs /\ jobs[presents].stage = "created")
  /\ (\/ pc \notin {<<"present", "record">>, <<"remove">>}
      \/ thread \notin DOMAIN jobs
      \/ (Waiting(thread) => suspend))
  /\ \A n \in DOMAIN jobs :
       Waiting(n) => suspend \/ (n = presents /\ pc \in ForThread)

\* Every present that was taken on is drawn and reported: neither the call nor
\* its thread waits forever.
PresentIsReported ==
  \A n \in 1 .. MaxPresents :
    n \in DOMAIN jobs ~> n \notin DOMAIN jobs
=============================================================================
