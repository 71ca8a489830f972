--------------------------- MODULE VideoStreaming ----------------------------
(* Who may be inside the native pipeline.  A video server runs one task per   *)
(* connected tablet, every task pulls frames from the same source, and the    *)
(* coordinator replaces server and source together: it stops the server,      *)
(* which waits a bounded time for its tasks, disposes the source, builds the  *)
(* next one in a thread it abandons if that hangs, and listens again.  The    *)
(* native pipeline is one set of process globals without a lock of its own.   *)
EXTENDS Integers

CONSTANTS Clients,    \* the connections of tablets
          MaxGen      \* bound: servers built, the first included

ASSUME MaxGenAssumption == MaxGen \in Nat \ {0}
ASSUME ClientsAssumption == "free" \notin Clients

VARIABLES gen,         \* the generation of _videoServer and _frameSource
          restart,     \* where the coordinator is in replacing them
          cancelled,   \* the generations whose token is cancelled
          task,        \* the serving task of each connection
          awaited,     \* the tasks Stop found in _clientTasks
          source,      \* each generation's frame source
          holder,      \* who holds each source's _nativeCallLock
          initThread,  \* the thread that runs each source's Init
          abandoned,   \* s_nativeInitAbandoned
          native       \* the generation whose pipeline is up, or 0

videoVars == <<gen, restart, cancelled, task, awaited, source, holder,
               initThread, abandoned, native>>

Gens == 1 .. MaxGen
Free == "free"
NoTask == [gen |-> 0, at |-> "none", listed |-> TRUE]
Listening == restart = "up" /\ gen \notin cancelled

VideoInit ==
  /\ gen = 1 /\ restart = "up" /\ cancelled = {}
  /\ task = [c \in Clients |-> NoTask]
  /\ awaited = {}
  /\ source = [g \in Gens |-> IF g = 1 THEN "native" ELSE "none"]
  /\ holder = [g \in Gens |-> Free]
  /\ initThread = [g \in Gens |-> "none"]
  /\ abandoned = FALSE /\ native = 1

coordinatorVars == <<gen, restart, cancelled, awaited, initThread, abandoned>>
sourceVars == <<source, holder, native>>

At(c, place) == task[c].at = place
Goes(c, place) ==
  task' = [task EXCEPT ![c] = [gen |-> @.gen, at |-> place, listed |-> @.listed]]
Ends(c) == task' = [task EXCEPT ![c] = NoTask]
-----------------------------------------------------------------------------
(* VideoStreamServer                                                          *)

\* The accept loop starts a task for the connection ...
Accept(c) ==
  /\ Listening
  /\ At(c, "none")
  /\ \A d \in Clients : task[d].listed
  /\ task' = [task EXCEPT ![c] = [gen |-> gen, at |-> "loop", listed |-> FALSE]]
  /\ UNCHANGED <<coordinatorVars, sourceVars>>

\* ... and adds it to _clientTasks afterwards.
List(c) ==
  /\ ~task[c].listed
  /\ task' = [task EXCEPT ![c] = [gen |-> @.gen, at |-> @.at, listed |-> TRUE]]
  /\ UNCHANGED <<coordinatorVars, sourceVars>>

\* A task that ended is no longer anybody's.
Done(c) ==
  IF task[c].listed THEN Ends(c) ELSE Goes(c, "over")

LoopCheck(c) ==
  /\ At(c, "loop")
  /\ IF task[c].gen \in cancelled THEN Done(c) ELSE Goes(c, "pull")
  /\ UNCHANGED <<coordinatorVars, sourceVars>>

TaskOver(c) ==
  /\ At(c, "over") /\ task[c].listed
  /\ Ends(c)
  /\ UNCHANGED <<coordinatorVars, sourceVars>>

\* GetNextFrame looks at _disposed and _initialized before it takes the lock.
Pull(c) ==
  /\ At(c, "pull")
  /\ IF source[task[c].gen] = "shut" THEN Done(c) ELSE Goes(c, "locking")
  /\ UNCHANGED <<coordinatorVars, sourceVars>>

\* ... and again when it has it.
Lock(c) ==
  LET g == task[c].gen
  IN /\ At(c, "locking") /\ holder[g] = Free
     /\ IF source[g] = "native"
          THEN /\ holder' = [holder EXCEPT ![g] = c]
               /\ Goes(c, "native")
          ELSE /\ UNCHANGED holder
               /\ Goes(c, "loop")
     /\ UNCHANGED <<coordinatorVars, source, native>>

\* CaptureGetFrame returns within its acquire timeout, with a frame or without.
NativeReturns(c) ==
  /\ At(c, "native")
  /\ holder' = [holder EXCEPT ![task[c].gen] = Free]
  /\ Goes(c, "writing") \/ Goes(c, "loop")
  /\ UNCHANGED <<coordinatorVars, source, native>>

WriteFrame(c) ==
  /\ At(c, "writing")
  /\ Goes(c, "loop")
  /\ UNCHANGED <<coordinatorVars, sourceVars>>

\* The tablet went away.
WriteFails(c) ==
  /\ At(c, "writing")
  /\ Done(c)
  /\ UNCHANGED <<coordinatorVars, sourceVars>>

\* Mutation of WriteTimesOut: the write waits for the tablet.
WriteWaits(c) == At(c, "writing") /\ UNCHANGED videoVars

\* The tablet does not read: the write gives up after WriteTimeout.
WriteTimesOut(c) ==
  /\ At(c, "writing")
  /\ Done(c)
  /\ UNCHANGED <<coordinatorVars, sourceVars>>
-----------------------------------------------------------------------------
(* The coordinator replaces the server and the source                         *)

\* Stop cancels the token and closes the listener, if there is one, and then takes
\* the tasks it finds in the bag.
StopBegins ==
  /\ restart \in {"up", "deaf"} /\ gen < MaxGen
  /\ cancelled' = cancelled \union {gen}
  /\ restart' = "stopping"
  /\ UNCHANGED <<gen, task, awaited, sourceVars, initThread, abandoned>>

StopSnapshots ==
  /\ restart = "stopping"
  /\ awaited' = {c \in Clients : task[c].gen = gen /\ task[c].listed}
  /\ restart' = "waiting"
  /\ UNCHANGED <<gen, cancelled, task, sourceVars, initThread, abandoned>>

\* The tasks it waits for have ended, and so has the accept loop.
StopWaited ==
  /\ restart = "waiting"
  /\ \A c \in Clients : task[c].gen = gen => c \notin awaited /\ task[c].listed
  /\ restart' = "disposing"
  /\ UNCHANGED <<gen, cancelled, task, awaited, sourceVars, initThread, abandoned>>

\* ... or two seconds have passed.
StopTimesOut ==
  /\ restart = "waiting"
  /\ restart' = "disposing"
  /\ UNCHANGED <<gen, cancelled, task, awaited, sourceVars, initThread, abandoned>>

\* Mutation of DisposeSource: without the lock.
DisposeSourceUnlocked ==
  /\ restart = "disposing"
  /\ source' = [source EXCEPT ![gen] = "shut"]
  /\ native' = IF source[gen] = "native" THEN 0 ELSE native
  /\ awaited' = {}
  /\ restart' = "building"
  /\ UNCHANGED <<gen, cancelled, task, holder, initThread, abandoned>>

\* Dispose takes the lock, shuts the native pipeline down if this source had
\* brought it up, and lets go of it.
DisposeSource ==
  /\ restart = "disposing"
  /\ holder[gen] = Free
  /\ source' = [source EXCEPT ![gen] = "shut"]
  /\ native' = IF source[gen] = "native" THEN 0 ELSE native
  /\ awaited' = {}
  /\ restart' = "building"
  /\ UNCHANGED <<gen, cancelled, task, holder, initThread, abandoned>>

\* Mutation of BuildSource: an abandoned thread is forgotten.
BuildSourceAnyway ==
  /\ restart = "building"
  /\ gen' = gen + 1
  /\ initThread' = [initThread EXCEPT ![gen'] = "running"]
  /\ restart' = "joining"
  /\ UNCHANGED <<cancelled, task, awaited, source, holder, abandoned, native>>

\* The next source is brought up by a thread of its own; once such a thread
\* was abandoned the fallback is used without trying.
BuildSource ==
  /\ restart = "building"
  /\ gen' = gen + 1
  /\ IF abandoned
       THEN /\ source' = [source EXCEPT ![gen'] = "fallback"]
            /\ restart' = "starting"
            /\ UNCHANGED initThread
       ELSE /\ initThread' = [initThread EXCEPT ![gen'] = "running"]
            /\ restart' = "joining"
            /\ UNCHANGED source
  /\ UNCHANGED <<cancelled, task, awaited, holder, abandoned, native>>

\* CaptureInit returns: it brings the pipeline up unless it is up already.
InitReturns(g) ==
  /\ initThread[g] = "running"
  /\ \/ /\ native = 0
        /\ native' = g
        /\ initThread' = [initThread EXCEPT ![g] = "up"]
     \/ /\ initThread' = [initThread EXCEPT ![g] = "failed"]
        /\ UNCHANGED native
  /\ UNCHANGED <<gen, restart, cancelled, task, awaited, source, holder, abandoned>>

\* The thread has ended in time.
Joined ==
  /\ restart = "joining"
  /\ initThread[gen] \in {"up", "failed"}
  /\ source' = [source EXCEPT ![gen] =
                  IF initThread[gen] = "up" THEN "native" ELSE "fallback"]
  /\ restart' = "starting"
  /\ UNCHANGED <<gen, cancelled, task, awaited, holder, initThread, abandoned, native>>

\* The pipeline captures the primary display, the virtual one not being there
\* yet: it is disposed and built once more.
MirrorsPrimary ==
  /\ restart = "joining" /\ gen < MaxGen
  /\ initThread[gen] = "up"
  /\ source' = [source EXCEPT ![gen] = "native"]
  /\ restart' = "disposing"
  /\ UNCHANGED <<gen, cancelled, task, awaited, holder, initThread, abandoned, native>>

\* Mutation of Abandons: a hung thread is waited for.
AbandonsOnlyEnded ==
  /\ restart = "joining"
  /\ initThread[gen] = "failed"
  /\ abandoned' = TRUE
  /\ source' = [source EXCEPT ![gen] = "fallback"]
  /\ restart' = "starting"
  /\ UNCHANGED <<gen, cancelled, task, awaited, holder, initThread, native>>

\* It has not: it is left to itself.
Abandons ==
  /\ restart = "joining"
  /\ initThread[gen] = "running"
  /\ abandoned' = TRUE
  /\ source' = [source EXCEPT ![gen] = "fallback"]
  /\ restart' = "starting"
  /\ UNCHANGED <<gen, cancelled, task, awaited, holder, initThread, native>>

\* VideoStreamServer.Start: the new server listens ...
Listens ==
  /\ restart = "starting"
  /\ restart' = "up"
  /\ UNCHANGED <<gen, cancelled, task, awaited, sourceVars, initThread, abandoned>>

\* ... or its port cannot be bound, and the exception ends the replacement.
ListenFails ==
  /\ restart = "starting"
  /\ restart' = "deaf"
  /\ UNCHANGED <<gen, cancelled, task, awaited, sourceVars, initThread, abandoned>>

\* A task of a source that is not native gets its frames from GDI.
FallbackFrame(c) ==
  /\ At(c, "locking")
  /\ source[task[c].gen] = "fallback"
  /\ Goes(c, "writing") \/ Goes(c, "loop")
  /\ UNCHANGED <<coordinatorVars, sourceVars>>

TaskNext(c) ==
  \/ Accept(c) \/ List(c) \/ LoopCheck(c) \/ TaskOver(c) \/ Pull(c) \/ Lock(c)
  \/ NativeReturns(c) \/ FallbackFrame(c)
  \/ WriteFrame(c) \/ WriteFails(c) \/ WriteTimesOut(c)

CoordinatorNext ==
  \/ StopBegins \/ StopSnapshots \/ StopWaited \/ StopTimesOut
  \/ DisposeSource \/ BuildSource
  \/ Joined \/ MirrorsPrimary \/ Abandons
  \/ Listens \/ ListenFails

VideoNext ==
  \/ \E c \in Clients : TaskNext(c)
  \/ CoordinatorNext
  \/ \E g \in Gens : InitReturns(g)

\* The threads run; a native call returns, a write gives up, a wait is bounded.
\* Nothing makes a tablet connect, leave or read, the host restart the pipeline,
\* or a hung Init return.
TaskFairness(c) ==
  /\ WF_videoVars(List(c)) /\ WF_videoVars(LoopCheck(c)) /\ WF_videoVars(TaskOver(c))
  /\ WF_videoVars(Pull(c)) /\ WF_videoVars(Lock(c)) /\ WF_videoVars(FallbackFrame(c))
  /\ WF_videoVars(NativeReturns(c)) /\ WF_videoVars(WriteTimesOut(c))

CoordinatorFairness ==
  /\ WF_videoVars(StopSnapshots) /\ WF_videoVars(StopWaited \/ StopTimesOut)
  /\ WF_videoVars(DisposeSource) /\ WF_videoVars(BuildSource)
  /\ WF_videoVars(Joined \/ Abandons) /\ WF_videoVars(Listens \/ ListenFails)

VideoSafety == VideoInit /\ [][VideoNext]_videoVars

VideoSpec ==
  /\ VideoSafety
  /\ \A c \in Clients : TaskFairness(c)
  /\ CoordinatorFairness
-----------------------------------------------------------------------------
Tasks ==
  {NoTask} \union
  [gen : Gens, listed : BOOLEAN,
   at : {"loop", "pull", "locking", "native", "writing", "over"}]

\* The type invariant.
VideoTypeOK ==
  /\ gen \in Gens
  /\ restart \in {"up", "stopping", "waiting", "disposing", "building", "joining",
                  "starting", "deaf"}
  /\ cancelled \subseteq Gens
  /\ task \in [Clients -> Tasks]
  /\ awaited \subseteq Clients
  /\ source \in [Gens -> {"none", "native", "fallback", "shut"}]
  /\ holder \in [Gens -> Clients \union {Free}]
  /\ initThread \in [Gens -> {"none", "running", "up", "failed"}]
  /\ abandoned \in BOOLEAN
  /\ native \in 0 .. MaxGen

\* A task is inside CaptureGetFrame only while the pipeline that its own source
\* brought up is still up: replacing the source never frees the globals under a
\* task that outlived the two seconds, or that Stop never saw.
NoCallIntoFreedPipeline ==
  \A c \in Clients : At(c, "native") => native = task[c].gen

\* At most one thread is inside the native pipeline, whose globals have no lock:
\* two tasks of a server, a task and an Init, an Init that was abandoned and the
\* Init of a later restart.
Inside == {c \in Clients : At(c, "native")}
Initialising == {g \in Gens : initThread[g] = "running"}
OneThreadInside ==
  /\ \A c, d \in Inside : c = d
  /\ \A g, h \in Initialising : g = h
  /\ Inside = {} \/ Initialising = {}

\* A replacement that was begun ends with a server that listens again, except for
\* one whose port cannot be bound.
Settled == restart \in {"up", "deaf"}
RestartEnds == ~Settled ~> Settled

\* The tasks of a server that was stopped end, a tablet that does not read
\* included.
OldTasksEnd ==
  \A c \in Clients :
     (task[c].gen \in cancelled) ~> ~(task[c].gen \in cancelled)

\* VideoStreamServer.cs:230-238: callers "rely on this returning only after
\* every in-flight IFrameSource.GetNextFrame() call has finished".
StopWaitsForCalls ==
  restart \in {"disposing", "building"} =>
    \A c \in Clients : task[c].gen = gen => ~At(c, "native")
=============================================================================
