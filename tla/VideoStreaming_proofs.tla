------------------------ MODULE VideoStreaming_proofs ------------------------
(* For any number of connections and of replacements: the types, that no task *)
(* is inside a pipeline that was freed, and that one thread at a time is      *)
(* inside the native pipeline.                                                *)
EXTENDS VideoStreaming, TLAPS

\* Stop and MirrorsPrimary begin a replacement only while there may be one more.
RoomForNext ==
  restart \in {"stopping", "waiting", "disposing", "building"} => gen < MaxGen

\* A task inside the native call holds the lock of its source, which is native.
InsideHoldsLock ==
  \A c \in Clients : At(c, "native") =>
     holder[task[c].gen] = c /\ source[task[c].gen] = "native"

\* The pipeline is up for the source that believes in it, the current one.
NativeIsCurrent ==
  \A g \in Gens : source[g] = "native" => native = g /\ g = gen

\* While the next source is built there is none, and after a thread was
\* abandoned there never is one again.
NoNativeMeanwhile ==
  restart \in {"building", "joining"} \/ abandoned =>
     \A g \in Gens : source[g] # "native"

\* A thread that came up in time has brought up the pipeline of its own source.
UpIsNative == restart = "joining" /\ initThread[gen] = "up" => native = gen

\* A thread runs Init only while it is waited for, or after it was abandoned;
\* nothing is waited for after that.
InitIsAwaited ==
  /\ abandoned => restart # "joining"
  /\ \A g \in Gens : initThread[g] = "running" =>
        (g = gen /\ restart = "joining") \/ abandoned

OneInit == \A g, h \in Initialising : g = h

VideoIInv ==
  /\ VideoTypeOK /\ RoomForNext /\ InsideHoldsLock /\ NativeIsCurrent
  /\ NoNativeMeanwhile /\ UpIsNative /\ InitIsAwaited /\ OneInit

\* What a step of a task may do: it leaves the coordinator's state alone, and
\* nobody enters the native call.
LEMMA TaskStepKeepsIInv ==
  ASSUME VideoIInv, NEW c \in Clients,
         UNCHANGED coordinatorVars, UNCHANGED <<source, native>>,
         task' \in [Clients -> Tasks],
         \A d \in Clients \ {c} : task'[d] = task[d],
         holder' \in [Gens -> Clients \union {Free}],
         \A d \in Clients \ {c} : At(d, "native") =>
            holder'[task[d].gen] = holder[task[d].gen],
         task'[c].at = "native" =>
            holder'[task'[c].gen] = c /\ source[task'[c].gen] = "native"
  PROVE  VideoIInv'
<1>1. VideoTypeOK'
  BY DEF VideoIInv, VideoTypeOK, coordinatorVars
<1>2. InsideHoldsLock'
  BY DEF VideoIInv, InsideHoldsLock, At
<1>3. (RoomForNext /\ NativeIsCurrent /\ NoNativeMeanwhile /\ UpIsNative
         /\ InitIsAwaited /\ OneInit)'
  BY DEF VideoIInv, coordinatorVars, RoomForNext, NativeIsCurrent,
         NoNativeMeanwhile, UpIsNative, InitIsAwaited, OneInit, Initialising
<1> QED
  BY <1>1, <1>2, <1>3 DEF VideoIInv
-----------------------------------------------------------------------------
LEMMA VideoInitIInv == VideoInit => VideoIInv
<1> SUFFICES ASSUME VideoInit PROVE VideoIInv
  OBVIOUS
<1> USE MaxGenAssumption DEF VideoInit, Gens
<1>1. 1 \in Gens /\ 1 \in 0 .. MaxGen
  OBVIOUS
<1>2. VideoTypeOK
  BY <1>1 DEF VideoTypeOK, Tasks, Free
<1>3. InsideHoldsLock
  BY DEF InsideHoldsLock, NoTask, At
<1> QED
  BY <1>1, <1>2, <1>3
  DEF VideoIInv, RoomForNext, NativeIsCurrent, NoNativeMeanwhile, UpIsNative,
      InitIsAwaited, OneInit, Initialising

\* A task moves, or ends, and the others stay.
Places == {"loop", "pull", "locking", "native", "writing", "over"}
Others(c) == \A d \in Clients \ {c} : task'[d] = task[d]
Moved(c, place) ==
  /\ task' \in [Clients -> Tasks] /\ Others(c)
  /\ task'[c].at = place /\ task'[c].gen = task[c].gen

LEMMA TaskFields ==
  ASSUME VideoTypeOK, NEW c \in Clients, ~At(c, "none")
  PROVE  /\ task[c].gen \in Gens
         /\ task[c].at \in Places
         /\ task[c] = [gen |-> task[c].gen, listed |-> task[c].listed, at |-> task[c].at]
         /\ task[c].listed \in BOOLEAN
<1>1. task[c] \in Tasks /\ task[c] # NoTask
  BY DEF VideoTypeOK, NoTask, At
<1> QED
  BY <1>1 DEF Tasks, Places

LEMMA GoesMoves ==
  ASSUME VideoTypeOK, NEW c \in Clients, ~At(c, "none"),
         NEW place \in Places, Goes(c, place)
  PROVE  Moved(c, place)
<1>1. task' = [task EXCEPT ![c] = [gen |-> task[c].gen, at |-> place,
                                   listed |-> task[c].listed]]
  BY DEF Goes
<1>2. [gen |-> task[c].gen, listed |-> task[c].listed, at |-> place] \in Tasks
  BY TaskFields DEF Tasks, Places
<1> QED
  BY <1>1, <1>2 DEF VideoTypeOK, Moved, Others

LEMMA EndsMoves ==
  ASSUME VideoTypeOK, NEW c \in Clients, Ends(c)
  PROVE  task' \in [Clients -> Tasks] /\ Others(c) /\ task'[c].at = "none"
<1>1. NoTask \in Tasks /\ NoTask.at = "none"
  BY DEF Tasks, NoTask
<1> QED
  BY <1>1 DEF VideoTypeOK, Others, Ends

\* A step after which the task is not inside the native call, nor was before.
LEMMA OutsideStep ==
  ASSUME VideoIInv, NEW c \in Clients,
         UNCHANGED <<coordinatorVars, sourceVars>>,
         task' \in [Clients -> Tasks], Others(c), task'[c].at # "native"
  PROVE  VideoIInv'
  BY TaskStepKeepsIInv DEF VideoIInv, VideoTypeOK, sourceVars, Others

LEMMA MovesOutside ==
  ASSUME VideoIInv, NEW c \in Clients, ~At(c, "none"),
         NEW place \in Places, place # "native",
         Goes(c, place) \/ Ends(c) \/ Done(c),
         UNCHANGED <<coordinatorVars, sourceVars>>
  PROVE  VideoIInv'
<1>1. "over" \in Places
  BY DEF Places
<1>2. CASE Goes(c, place)
  BY <1>2, GoesMoves, OutsideStep DEF VideoIInv, Moved
<1>3. CASE Goes(c, "over")
  BY <1>1, <1>3, GoesMoves, OutsideStep DEF VideoIInv, Moved
<1>4. CASE Ends(c)
  BY <1>4, EndsMoves, OutsideStep DEF VideoIInv
<1> QED
  BY <1>2, <1>3, <1>4 DEF Done

\* The serving tasks.
LEMMA TaskKeepsIInv ==
  ASSUME VideoIInv, NEW c \in Clients, TaskNext(c)
  PROVE  VideoIInv'
<1>0. VideoTypeOK /\ InsideHoldsLock
  BY DEF VideoIInv
<1>p. {"loop", "pull", "locking", "native", "writing", "over"} = Places
  BY DEF Places
<1>1. CASE Accept(c)
  <2>1. [gen |-> gen, at |-> "loop", listed |-> FALSE] \in Tasks
    BY <1>0 DEF VideoTypeOK, Tasks
  <2> QED
    BY <1>0, <1>1, <2>1, OutsideStep DEF Accept, VideoTypeOK, Others
<1>2. CASE List(c)
  <2>1. ~At(c, "none")
    BY <1>0, <1>2 DEF List, VideoTypeOK, Tasks, NoTask, At
  <2>2. task' = [task EXCEPT ![c] = [gen |-> task[c].gen, listed |-> TRUE,
                                     at |-> task[c].at]]
    BY <1>2 DEF List
  <2>3. [gen |-> task[c].gen, listed |-> TRUE, at |-> task[c].at] \in Tasks
    BY <1>0, <2>1, TaskFields DEF Tasks, Places
  <2>4. Moved(c, task[c].at)
    BY <1>0, <2>2, <2>3 DEF VideoTypeOK, Moved, Others
  <2>5. UNCHANGED <<coordinatorVars, source, native, holder>>
    BY <1>2 DEF List, sourceVars
  <2>6. task[c].at = "native" => holder[task[c].gen] = c /\ source[task[c].gen] = "native"
    BY <1>0 DEF InsideHoldsLock, At
  <2>7. holder \in [Gens -> Clients \union {Free}]
    BY <1>0 DEF VideoTypeOK
  <2> QED
    BY <2>4, <2>5, <2>6, <2>7, TaskStepKeepsIInv DEF Moved, Others
<1>3. CASE LoopCheck(c)
  BY <1>3, <1>p, MovesOutside DEF LoopCheck, At
<1>4. CASE TaskOver(c)
  BY <1>4, <1>p, MovesOutside DEF TaskOver, At
<1>5. CASE Pull(c)
  BY <1>5, <1>p, MovesOutside DEF Pull, At
<1>6. CASE Lock(c)
  <2>1. ~At(c, "none") /\ At(c, "locking")
    BY <1>6 DEF Lock, At
  <2>2. CASE source[task[c].gen] = "native"
    <3>1. /\ Goes(c, "native") /\ holder[task[c].gen] = Free
          /\ holder' = [holder EXCEPT ![task[c].gen] = c]
          /\ UNCHANGED <<coordinatorVars, source, native>>
      BY <1>6, <2>2 DEF Lock
    <3>2. Moved(c, "native") /\ task[c].gen \in Gens
      BY <1>0, <1>p, <2>1, <3>1, GoesMoves, TaskFields
    <3>3. holder' \in [Gens -> Clients \union {Free}] /\ holder'[task[c].gen] = c
      BY <1>0, <3>1, <3>2 DEF VideoTypeOK
    <3>4. ASSUME NEW d \in Clients \ {c}, At(d, "native")
          PROVE  holder'[task[d].gen] = holder[task[d].gen]
      <4>1. holder[task[d].gen] = d /\ d # Free
        BY <1>0, <3>4, ClientsAssumption DEF InsideHoldsLock, Free
      <4> QED
        BY <1>0, <3>1, <3>2, <4>1 DEF VideoTypeOK
    <3> QED
      BY <2>2, <3>1, <3>2, <3>3, <3>4, TaskStepKeepsIInv DEF Moved, Others
  <2>3. CASE source[task[c].gen] # "native"
    BY <1>6, <1>p, <2>1, <2>3, MovesOutside DEF Lock, sourceVars
  <2> QED
    BY <2>2, <2>3
<1>7. CASE NativeReturns(c)
  <2>1. ~At(c, "none") /\ At(c, "native")
    BY <1>7 DEF NativeReturns, At
  <2>2. PICK place \in {"writing", "loop"} : Moved(c, place)
    BY <1>0, <1>7, <1>p, <2>1, GoesMoves DEF NativeReturns
  <2>3. /\ holder' = [holder EXCEPT ![task[c].gen] = Free]
        /\ UNCHANGED <<coordinatorVars, source, native>>
    BY <1>7 DEF NativeReturns
  <2>4. holder' \in [Gens -> Clients \union {Free}]
    BY <1>0, <2>3 DEF VideoTypeOK
  <2>5. ASSUME NEW d \in Clients \ {c}, At(d, "native")
        PROVE  holder'[task[d].gen] = holder[task[d].gen]
    <3>1. holder[task[d].gen] = d /\ holder[task[c].gen] = c
      BY <1>0, <2>1, <2>5 DEF InsideHoldsLock
    <3> QED
      BY <1>0, <2>3, <3>1 DEF VideoTypeOK
  <2> QED
    BY <2>2, <2>3, <2>4, <2>5, TaskStepKeepsIInv DEF Moved, Others
<1>8. CASE FallbackFrame(c)
  BY <1>8, <1>p, MovesOutside DEF FallbackFrame, At
<1>9. CASE WriteFrame(c)
  BY <1>9, <1>p, MovesOutside DEF WriteFrame, At
<1>10. CASE WriteFails(c)
  BY <1>10, <1>p, MovesOutside DEF WriteFails, At
<1>11. CASE WriteTimesOut(c)
  BY <1>11, <1>p, MovesOutside DEF WriteTimesOut, At
<1> QED
  BY <1>1, <1>2, <1>3, <1>4, <1>5, <1>6, <1>7, <1>8, <1>9, <1>10, <1>11
  DEF TaskNext

\* A lock that is free keeps everyone out.
LEMMA FreeLock ==
  ASSUME InsideHoldsLock, NEW c \in Clients, At(c, "native")
  PROVE  holder[task[c].gen] # Free
  BY ClientsAssumption DEF InsideHoldsLock, Free

\* The coordinator.
LEMMA CoordinatorKeepsIInv ==
  ASSUME VideoIInv, CoordinatorNext
  PROVE  VideoIInv'
<1> USE MaxGenAssumption
    DEF VideoIInv, VideoTypeOK, RoomForNext, InsideHoldsLock, NativeIsCurrent,
        NoNativeMeanwhile, UpIsNative, InitIsAwaited, OneInit, Initialising,
        Gens, At, sourceVars
<1>0. \A c \in Clients : At(c, "native") => task[c].gen \in Gens
  BY TaskFields DEF At
<1>1. CASE StopBegins
  BY <1>1 DEF StopBegins
<1>2. CASE StopSnapshots
  BY <1>2 DEF StopSnapshots
<1>3. CASE StopWaited
  BY <1>3 DEF StopWaited
<1>4. CASE StopTimesOut
  BY <1>4 DEF StopTimesOut
<1>5. CASE DisposeSource
  <2>1. ASSUME NEW c \in Clients, At(c, "native"), task[c].gen = gen PROVE FALSE
    BY <1>5, <2>1, FreeLock DEF DisposeSource
  <2>2. VideoTypeOK'
    <3>1. source' \in [1 .. MaxGen -> {"none", "native", "fallback", "shut"}]
      BY <1>5 DEF DisposeSource
    <3>2. native' \in 0 .. MaxGen
      BY <1>5 DEF DisposeSource
    <3> QED
      BY <1>5, <3>1, <3>2 DEF DisposeSource
  <2>5. InsideHoldsLock'
    BY <1>5, <1>0, <2>1 DEF DisposeSource
  <2>3. (NativeIsCurrent /\ NoNativeMeanwhile)'
    BY <1>5 DEF DisposeSource
  <2>4. (RoomForNext /\ UpIsNative /\ InitIsAwaited /\ OneInit)'
    BY <1>5 DEF DisposeSource
  <2> QED
    BY <2>2, <2>3, <2>4, <2>5
<1>6. CASE BuildSource
  <2>1. gen \in 1 .. MaxGen /\ gen' = gen + 1 /\ gen' \in 1 .. MaxGen /\ gen' # gen
    BY <1>6 DEF BuildSource
  <2>2. VideoTypeOK'
    BY <1>6, <2>1 DEF BuildSource
  <2>3. (RoomForNext /\ NativeIsCurrent /\ NoNativeMeanwhile)'
    BY <1>6, <2>1 DEF BuildSource
  <2>5. InsideHoldsLock'
    BY <1>6, <1>0, <2>1 DEF BuildSource
  <2>4. (UpIsNative /\ InitIsAwaited /\ OneInit)'
    BY <1>6, <2>1 DEF BuildSource
  <2> QED
    BY <2>2, <2>3, <2>4, <2>5
<1>7. CASE Joined
  BY <1>7 DEF Joined, Tasks
<1>8. CASE MirrorsPrimary
  BY <1>8 DEF MirrorsPrimary, Tasks
<1>9. CASE Abandons
  BY <1>9 DEF Abandons, Tasks
<1>10. CASE Listens
  BY <1>10 DEF Listens
<1>11. CASE ListenFails
  BY <1>11 DEF ListenFails
<1> QED
  BY <1>1, <1>2, <1>3, <1>4, <1>5, <1>6, <1>7, <1>8, <1>9, <1>10,
     <1>11
  DEF CoordinatorNext

\* An Init that returns, waited for or not.
LEMMA InitKeepsIInv ==
  ASSUME VideoIInv, NEW g \in Gens, InitReturns(g)
  PROVE  VideoIInv'
  BY MaxGenAssumption
  DEF InitReturns, VideoIInv, VideoTypeOK, RoomForNext, InsideHoldsLock,
      NativeIsCurrent, NoNativeMeanwhile, UpIsNative, InitIsAwaited, OneInit,
      Initialising, Gens, At

\* The inductive invariant holds throughout, whatever is waited for in vain and
\* whichever Init hangs.
THEOREM VideoInvariant == VideoSafety => []VideoIInv
<1>1. ASSUME VideoIInv, [VideoNext]_videoVars PROVE VideoIInv'
  <2>1. CASE UNCHANGED videoVars
    BY <1>1, <2>1 DEF videoVars, VideoIInv, VideoTypeOK, RoomForNext,
       InsideHoldsLock, NativeIsCurrent, NoNativeMeanwhile, UpIsNative,
       InitIsAwaited, OneInit, Initialising, At
  <2> QED
    BY <1>1, <2>1, TaskKeepsIInv, CoordinatorKeepsIInv, InitKeepsIInv
    DEF VideoNext
<1> QED
  BY <1>1, VideoInitIInv, PTL DEF VideoSafety
-----------------------------------------------------------------------------
\* The types, for any number of connections.
THEOREM VideoTypeCorrect == VideoSafety => []VideoTypeOK
  BY VideoInvariant, PTL DEF VideoIInv

\* NoCallIntoFreedPipeline: DisposeSource needs the lock that the task inside
\* holds, however early Stop has returned.
THEOREM NoCallIntoFreedPipelineTheorem == VideoSafety => []NoCallIntoFreedPipeline
<1>1. VideoIInv => NoCallIntoFreedPipeline
  BY DEF VideoIInv, VideoTypeOK, Tasks, NoTask, InsideHoldsLock, NativeIsCurrent,
     NoCallIntoFreedPipeline, At, Gens
<1> QED
  BY <1>1, VideoInvariant, PTL

\* OneThreadInside: tasks exclude each other by the lock, Inits by the flag of
\* the abandoned thread, and either the other because no source is native
\* while one is built.
THEOREM OneThreadInsideTheorem == VideoSafety => []OneThreadInside
<1>1. ASSUME VideoIInv PROVE OneThreadInside
  <2>1. ASSUME NEW c \in Inside PROVE task[c].gen = gen /\ holder[gen] = c
    <3>1. task[c].gen \in Gens
      BY <1>1, <2>1, TaskFields DEF VideoIInv, Inside, At
    <3> QED
      BY <1>1, <2>1, <3>1 DEF VideoIInv, InsideHoldsLock, NativeIsCurrent, Inside
  <2>2. ASSUME NEW g \in Initialising, NEW c \in Inside PROVE FALSE
    <3>1. source[gen] = "native" /\ gen \in Gens
      BY <1>1, <2>1, <2>2 DEF VideoIInv, VideoTypeOK, InsideHoldsLock, Inside
    <3> QED
      BY <1>1, <2>2, <3>1
      DEF VideoIInv, NoNativeMeanwhile, InitIsAwaited, Initialising
  <2> QED
    BY <1>1, <2>1, <2>2 DEF VideoIInv, OneInit, OneThreadInside
<1> QED
  BY <1>1, VideoInvariant, PTL
=============================================================================
