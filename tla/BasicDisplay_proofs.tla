-------------------------- MODULE BasicDisplay_proofs -------------------------
(* For any frame buffer, any table of modes and any number of presents: the   *)
(* object outlives its threads, the copies go to the mapping that is there,   *)
(* and every pixel lands on its place in it.                                  *)
EXTENDS BasicDisplay, Blt_proofs, FiniteSetTheorems

\* The whole of a driver's call of which pc names the place.
Place == pc[1]
EnumPlaces == {"idle", "firstPath", "source", "target", "support", "nextPath",
               "releasePath", "exit"}

\* An enumeration stays within itself and changes no frame buffer.
LEMMA EnumerationStays ==
  ASSUME VidPnNext
  PROVE  Place \in EnumPlaces /\ Place' \in EnumPlaces /\ post' = post
<1> USE DEF Place, EnumPlaces, inputVars
<1>1. CASE EnumVidPnCofuncModality
  BY <1>1 DEF EnumVidPnCofuncModality
<1>2. CASE AcquireFirstPath
  BY <1>2 DEF AcquireFirstPath
<1>3. ASSUME NEW side \in {"source", "target"},
             \/ AcquireModeSet(side) \/ DropModeSet(side) \/ CreateModeSet(side)
             \/ ReleasePinnedMode(side) \/ ReleaseModeSet(side)
      PROVE  Place \in EnumPlaces /\ Place' \in EnumPlaces /\ post' = post
  BY <1>3 DEF AcquireModeSet, DropModeSet, CreateModeSet, ReleasePinnedMode,
     ReleaseModeSet
<1>4. ASSUME NEW side \in {"source", "target"},
             AcquirePinnedMode(side) \/ AssignModeSet(side)
      PROVE  Place \in EnumPlaces /\ Place' \in EnumPlaces /\ post' = post
  BY <1>4 DEF AcquirePinnedMode, AssignModeSet, AfterModes
<1>5. CASE AddSingleSourceMode \/ AddSingleTargetMode \/ UpdatePathSupport
  BY <1>5 DEF AddSingleSourceMode, AddSingleTargetMode, UpdatePathSupport
<1>6. CASE AcquireNextPath \/ NextPathFails \/ ReleaseLastPath
  BY <1>6 DEF AcquireNextPath, NextPathFails, ReleaseLastPath
<1>7. CASE CallFails
  BY <1>7 DEF CallFails, Calls
<1>8. CASE CleanUp
  BY <1>8 DEF CleanUp
<1> QED
  BY <1>1, <1>2, <1>3, <1>4, <1>5, <1>6, <1>7, <1>8 DEF VidPnNext

\* A step of a commit.
LEMMA CommitStays ==
  ASSUME Commits
  PROVE  /\ Place' \in {"commit", "idle"}
         /\ Place = "commit" \/ ActiveCall
         /\ UNCHANGED <<post, deviceVars, bltVars>>
<1> USE DEF Place, callVars
<1>1. CASE CommitVidPn
  BY <1>1 DEF CommitVidPn
<1>2. CASE CommitNoPath \/ CommitSourceModeSet \/ CommitPinnedMode
  BY <1>2 DEF CommitNoPath, CommitSourceModeSet, CommitPinnedMode, Commit
<1>3. CASE CommitUnmap \/ CommitPathInfo \/ CommitReleasePath
  BY <1>3 DEF CommitUnmap, CommitPathInfo, CommitReleasePath, Commit
<1>4. CASE SetSourceModeAndPath
  BY <1>4 DEF SetSourceModeAndPath, Commit
<1>7. CASE MapFrameBufferFails
  BY <1>7 DEF MapFrameBufferFails, Commit
<1>5. CASE CommitFails
  BY <1>5 DEF CommitFails, Commit
<1>6. CASE CommitReturns
  BY <1>6 DEF CommitReturns
<1> QED
  BY <1>1, <1>2, <1>3, <1>4, <1>5, <1>6, <1>7 DEF Commits
-----------------------------------------------------------------------------
\* One thread is remembered, and only a present may have one more, its own.
ThreadIInv ==
  /\ presents \in Nat /\ thread \in 0 .. presents
  /\ DOMAIN jobs \subseteq 1 .. presents
  /\ \A n \in DOMAIN jobs : n = thread \/ (Place = "present" /\ n = presents)
  /\ \A n \in DOMAIN jobs :
        jobs[n].stage = "inline" => pc = <<"present", "draw">> /\ n = presents
  /\ ~attached => DOMAIN jobs = {}

LEMMA InitThread == DisplayInit => ThreadIInv
  BY DEF DisplayInit, VidPnInit, ThreadIInv, Place

\* Steps that leave the threads alone, outside of a present.
LEMMA ThreadIdle ==
  ASSUME ThreadIInv, UNCHANGED <<jobs, presents, thread>>,
         attached' <=> attached, Place # "present"
  PROVE  ThreadIInv'
<1>1. pc # <<"present", "draw">>
  BY DEF Place
<1> QED
  BY <1>1 DEF ThreadIInv

LEMMA ThreadStep == ThreadIInv /\ [DisplayNext]_displayVars => ThreadIInv'
<1> SUFFICES ASSUME ThreadIInv, [DisplayNext]_displayVars PROVE ThreadIInv'
  OBVIOUS
<1>1. CASE Enumerates
  <2>1. Place # "present"
    BY <1>1, EnumerationStays DEF Enumerates, EnumPlaces
  <2>2. UNCHANGED <<jobs, presents, thread>> /\ (attached' <=> attached)
    BY <1>1 DEF Enumerates, bltVars, deviceVars
  <2> QED
    BY <2>1, <2>2, ThreadIdle
<1>2. CASE Commits
  <2>1. Place # "present"
    BY <1>2, CommitStays DEF ActiveCall, QuietCall, Called, Place
  <2>2. UNCHANGED <<jobs, presents, thread>> /\ (attached' <=> attached)
    BY <1>2, CommitStays DEF bltVars, deviceVars
  <2> QED
    BY <2>1, <2>2, ThreadIdle
<1>3. CASE StartDevice \/ StartDeviceFails \/ RemoveDevice
  <2>1. Place # "present" /\ UNCHANGED <<jobs, presents, thread>>
    BY <1>3 DEF StartDevice, StartDeviceFails, RemoveDevice, QuietCall, Called,
       Place, bltVars
  <2>2. attached' <=> attached
    BY <1>3 DEF StartDevice, StartDeviceFails, RemoveDevice, deviceVars
  <2> QED
    BY <2>1, <2>2, ThreadIdle
<1>16. CASE StopDevice \/ StopDeviceAndReleasePostDisplayOwnership
  <2>1. Place # "present" /\ UNCHANGED <<jobs, presents, thread>>
    BY <1>16 DEF StopDevice, StopDeviceAndReleasePostDisplayOwnership,
       QuietCall, Called, Place, bltVars
  <2>2. attached' <=> attached
    BY <1>16 DEF StopDevice, StopDeviceAndReleasePostDisplayOwnership
  <2> QED
    BY <2>1, <2>2, ThreadIdle
<1>17. CASE SetPowerState
  <2>1. Place # "present" /\ UNCHANGED <<jobs, presents, thread>>
    BY <1>17 DEF SetPowerState, ActiveCall, QuietCall, Called, Place, bltVars
  <2>2. attached' <=> attached
    BY <1>17 DEF SetPowerState
  <2> QED
    BY <2>1, <2>2, ThreadIdle
<1>19. CASE UpdateActiveVidPnPresentPath
  <2>1. Place # "present" /\ UNCHANGED <<jobs, presents, thread>>
    BY <1>19 DEF UpdateActiveVidPnPresentPath, ActiveCall, QuietCall, Called,
       Place, bltVars
  <2>2. attached' <=> attached
    BY <1>19 DEF UpdateActiveVidPnPresentPath, deviceVars
  <2> QED
    BY <2>1, <2>2, ThreadIdle
<1>18. CASE SourceVisibility
  <2>1. ActiveCall /\ UNCHANGED <<deviceVars, bltVars>>
    BY <1>18 DEF SourceVisibility
  <2>2. Place # "present" /\ UNCHANGED <<jobs, presents, thread>>
    BY <2>1 DEF ActiveCall, QuietCall, Called, Place, bltVars
  <2>3. attached' <=> attached
    BY <2>1 DEF deviceVars
  <2> QED
    BY <2>2, <2>3, ThreadIdle
<1>4. CASE DestructorReturns
  <2>1. Place = "remove" /\ UNCHANGED <<jobs, presents>> /\ thread' = 0
           /\ thread \notin DOMAIN jobs
    BY <1>4 DEF DestructorReturns, Place
  <2>2. DOMAIN jobs = {}
    BY <2>1 DEF ThreadIInv
  <2> QED
    BY <2>1, <2>2 DEF ThreadIInv
<1>5. CASE AddDevice
  BY <1>5 DEF AddDevice, ThreadIInv
<1>6. CASE PresentNothing
  BY <1>6 DEF PresentNothing, displayVars, vidPnVars, deviceVars, bltVars,
     ThreadIInv, Place
<1>7. CASE PresentFails
  <2>1. /\ Place # "present" /\ UNCHANGED <<jobs, presents, thread>>
        /\ attached' <=> attached
    BY <1>7 DEF PresentFails, Presents, Called, Place, deviceVars
  <2> QED
    BY <2>1, ThreadIdle
<1>8. ASSUME Presents, presents' = presents + 1, UNCHANGED <<attached, thread>>,
             Place' = "present",
             NEW c, jobs' = [n \in DOMAIN jobs \union {presents'} |->
                               IF n = presents' THEN c ELSE jobs[n]],
             c.stage = "inline" => pc' = <<"present", "draw">>
      PROVE  ThreadIInv'
  <2>1. attached /\ Place = "idle" /\ pc # <<"present", "draw">>
    BY <1>8 DEF Presents, Called, Place
  <2>2. /\ DOMAIN jobs' = DOMAIN jobs \union {presents'}
        /\ jobs'[presents'] = c
        /\ \A n \in DOMAIN jobs : n # presents' => jobs'[n] = jobs[n]
    BY <1>8
  <2> QED
    BY <1>8, <2>1, <2>2 DEF ThreadIInv
<1>9. CASE PresentSynch
  BY <1>8, <1>9 DEF PresentSynch, NewJob, deviceVars, Place
<1>10. CASE PresentAsynch
  <2>1. \A turn : Context(turn, "created").stage # "inline"
    BY DEF Context
  <2> QED
    BY <1>8, <1>10, <2>1 DEF PresentAsynch, NewJob, deviceVars, Place
<1>11. CASE PresentDraws
  <2>1. PICK n \in DOMAIN jobs : jobs[n].stage = "inline" /\ Gone(n)
    BY <1>11 DEF PresentDraws
  <2>2. /\ DOMAIN jobs' = DOMAIN jobs \ {n}
        /\ \A m \in DOMAIN jobs' : jobs'[m] = jobs[m]
    BY <2>1 DEF Gone
  <2>3. UNCHANGED <<presents, thread, attached>>
    BY <1>11 DEF PresentDraws, deviceVars
  <2> QED
    BY <2>1, <2>2, <2>3 DEF ThreadIInv
<1>12. CASE PresentThreadStarted
  BY <1>12 DEF PresentThreadStarted, ThreadIInv, Place, bltVars, deviceVars
<1>13. CASE PresentResumesThread
  BY <1>13 DEF PresentResumesThread, ThreadIInv, Place, deviceVars
<1>14. ASSUME NEW k \in 1 .. MaxPresents, Worker(k)
       PROVE  ThreadIInv'
  <2>1. k \in DOMAIN jobs /\ UNCHANGED <<presents, thread, attached, pc>>
    BY <1>14 DEF Worker, WorkerStarts, WorkerGoesOn, WorkerDraws,
       ReportPresentProgress, WorkerExits, vidPnVars, deviceVars
  <2>2. CASE WorkerExits(k)
    <3>1. /\ DOMAIN jobs' = DOMAIN jobs \ {k}
          /\ \A m \in DOMAIN jobs' : jobs'[m] = jobs[m]
      BY <2>2 DEF WorkerExits, Gone
    <3> QED
      BY <2>1, <3>1 DEF ThreadIInv, Place
  <2>3. CASE ~WorkerExits(k)
    <3>1. PICK to \in {"started", "drawing", "reporting", "exiting"} :
            jobs' = [jobs EXCEPT ![k] = [dst |-> jobs[k].dst, blt |-> jobs[k].blt,
                                         stage |-> to, shift |-> jobs[k].shift]]
      BY <1>14, <2>3 DEF Worker, WorkerStarts, WorkerGoesOn, WorkerDraws,
         ReportPresentProgress, AtStage
    <3>2. /\ DOMAIN jobs' = DOMAIN jobs
          /\ jobs'[k].stage # "inline"
          /\ \A m \in DOMAIN jobs : m # k => jobs'[m] = jobs[m]
      BY <2>1, <3>1
    <3> QED
      BY <2>1, <3>2 DEF ThreadIInv, Place
  <2> QED
    BY <2>2, <2>3
<1>15. CASE UNCHANGED displayVars
  BY <1>15 DEF displayVars, vidPnVars, deviceVars, bltVars, ThreadIInv, Place
<1> QED
  BY <1>1, <1>2, <1>3, <1>4, <1>5, <1>6, <1>7, <1>9, <1>10, <1>11, <1>12, <1>13,
     <1>14, <1>15, <1>16, <1>17, <1>18, <1>19
  DEF DisplayNext, PresentReturns

LEMMA ThreadInvariant == DisplaySafety => []ThreadIInv
  BY InitThread, ThreadStep, PTL DEF DisplaySafety

\* ObjectOutlivesThreads: the destructor waits for one thread only, and that is
\* enough, since a present that makes another waits for the one before.
THEOREM ObjectOutlivesThreadsTheorem == DisplaySafety => []ObjectOutlivesThreads
<1>1. ThreadIInv => ObjectOutlivesThreads
  BY DEF ThreadIInv, ObjectOutlivesThreads
<1> QED
  BY <1>1, ThreadInvariant, PTL
-----------------------------------------------------------------------------
\* The one mapping is the driver's, and what is being drawn goes there; while a
\* call may change it, nothing is being drawn.
MapIInv ==
  /\ mapped = {ptr} \ {0}
  /\ ptr \in Nat /\ maps \in Nat
  /\ active => ptr # 0
  /\ ~started => ptr = 0
  /\ ~attached => ~started
  /\ Place = "remove" => ~started
  /\ Place = "commit" => started
  /\ pc \in {<<"commit", "path">>, <<"commit", "set">>} => ptr = 0
  /\ Place \notin {"idle", "present"} => Outstanding = {}
  /\ \A n \in Outstanding : jobs[n].dst = ptr /\ ptr # 0

LEMMA InitMap == DisplayInit => MapIInv
  BY DEF DisplayInit, VidPnInit, MapIInv, Place, Outstanding

\* The steps that leave the mapping and the threads alone.
LEMMA MapKept ==
  ASSUME MapIInv, UNCHANGED <<ptr, mapped, maps, jobs>>, active' <=> active,
         started' <=> started, attached' <=> attached,
         Place' \notin {"remove", "commit"} \/ pc' = pc,
         Place' \notin {"idle", "present"} => Outstanding = {}
  PROVE  MapIInv'
  BY DEF MapIInv, Place, Outstanding

\* The steps that give it up.
LEMMA MapGone ==
  ASSUME MapIInv, ptr' = 0, ~active', mapped' = {}, UNCHANGED <<maps, jobs>>,
         Outstanding = {}, Place' = "remove" => ~started',
         Place' = "commit" => started', ~attached' => ~started'
  PROVE  MapIInv'
  BY DEF MapIInv, Place, Outstanding

LEMMA Unmapped ==
  ASSUME MapIInv, Unmap
  PROVE  ptr' = 0 /\ ~active' /\ mapped' = {}
  BY DEF MapIInv, Unmap

LEMMA MapDevice ==
  ASSUME MapIInv,
         \/ StartDevice \/ StartDeviceFails \/ StopDevice \/ RemoveDevice
         \/ StopDeviceAndReleasePostDisplayOwnership \/ AddDevice
         \/ DestructorReturns
  PROVE  MapIInv'
<1>1. CASE StartDevice
  BY <1>1, MapGone DEF StartDevice, ClearModes, QuietCall, Called, Place,
     bltVars, vidPnVars, MapIInv
<1>2. CASE StartDeviceFails
  BY <1>2, MapGone DEF StartDeviceFails, ClearModes, QuietCall, Called, Place,
     bltVars, vidPnVars, deviceVars, MapIInv
<1>3. CASE StopDevice
  <2>1. Outstanding = {} /\ UNCHANGED <<maps, jobs>> /\ Place' = "idle"
           /\ attached /\ (attached' <=> attached)
    BY <1>3 DEF StopDevice, QuietCall, Called, Place, bltVars, vidPnVars
  <2>2. ptr' = 0 /\ ~active' /\ mapped' = {}
    BY <1>3, Unmapped DEF StopDevice
  <2> QED
    BY <2>1, <2>2, MapGone
<1>4. CASE StopDeviceAndReleasePostDisplayOwnership
  <2>1. Outstanding = {} /\ UNCHANGED <<maps, jobs>> /\ Place' = "idle"
           /\ attached /\ (attached' <=> attached)
    BY <1>4 DEF StopDeviceAndReleasePostDisplayOwnership, QuietCall, Called,
       Place, bltVars, vidPnVars
  <2>2. ptr' = 0 /\ ~active' /\ mapped' = {}
    BY <1>4, Unmapped DEF StopDeviceAndReleasePostDisplayOwnership
  <2> QED
    BY <2>1, <2>2, MapGone
<1>5. CASE RemoveDevice
  <2>1. Outstanding = {} /\ UNCHANGED <<maps, jobs>> /\ Place' = "remove"
           /\ ~started
    BY <1>5 DEF RemoveDevice, QuietCall, Called, Place, bltVars
  <2>2. ptr' = 0 /\ ~active' /\ mapped' = {}
    BY <1>5, Unmapped DEF RemoveDevice
  <2>3. ~started'
    BY <1>5, <2>1 DEF RemoveDevice, deviceVars
  <2> QED
    BY <2>1, <2>2, <2>3, MapGone
<1>6. CASE AddDevice
  <2>1. Outstanding = {} /\ ptr = 0 /\ ~started
    BY <1>6 DEF AddDevice, MapIInv
  <2>2. UNCHANGED <<maps, jobs, mapped, pc>> /\ ptr' = 0 /\ ~active' /\ attached'
    BY <1>6 DEF AddDevice, ClearModes, vidPnVars
  <2>3. Place' # "commit"
    BY <2>1, <2>2 DEF MapIInv, Place
  <2>4. ~started'
    BY <1>6, <2>1 DEF AddDevice
  <2> QED
    BY <2>1, <2>2, <2>3, <2>4, MapGone DEF MapIInv
<1>7. CASE DestructorReturns
  <2>1. Place' = "idle" /\ UNCHANGED <<ptr, mapped, maps, jobs>> /\ ~started
    BY <1>7 DEF DestructorReturns, MapIInv, Place, screenVars
  <2>2. ~started' /\ (active' <=> active)
    BY <1>7, <2>1 DEF DestructorReturns, screenVars
  <2>3. Outstanding = {} /\ ptr = 0
    BY <1>7, <2>1 DEF DestructorReturns, MapIInv, Place
  <2> QED
    BY <2>1, <2>2, <2>3 DEF MapIInv, Outstanding, Place
<1> QED
  BY <1>1, <1>2, <1>3, <1>4, <1>5, <1>6, <1>7

\* The places of a commit, and what it does there to the mapping.
LEMMA MapCommits ==
  ASSUME MapIInv, Commits
  PROVE  MapIInv'
<1>1. started /\ attached /\ Outstanding = {}
  BY CommitStays DEF MapIInv, ActiveCall, QuietCall, Called
<1>2. /\ started' /\ attached' /\ UNCHANGED jobs /\ Outstanding' = {}
      /\ Place' \in {"commit", "idle"}
  BY <1>1, CommitStays DEF deviceVars, bltVars, Outstanding
<1>3. ASSUME UNCHANGED screenVars,
             pc' \in {<<"commit", "path">>, <<"commit", "set">>} => ptr = 0
      PROVE  MapIInv'
  BY <1>1, <1>2, <1>3 DEF MapIInv, screenVars
<1>4. CASE CommitVidPn \/ CommitNoPath \/ CommitSourceModeSet \/ CommitPinnedMode
  BY <1>3, <1>4 DEF CommitVidPn, CommitNoPath, CommitSourceModeSet,
     CommitPinnedMode, Commit
<1>5. CASE CommitUnmap
  <2>1. ptr' = 0 /\ ~active' /\ mapped' = {} /\ UNCHANGED maps
    BY <1>5, Unmapped DEF CommitUnmap
  <2> QED
    BY <1>1, <1>2, <2>1, MapGone
<1>6. CASE CommitPathInfo
  BY <1>3, <1>6 DEF CommitPathInfo, Commit, MapIInv
<1>7. CASE SetSourceModeAndPath
  <2>1. /\ maps' = maps + 1 /\ mapped' = mapped \union {maps'} /\ ptr' = maps'
        /\ pc = <<"commit", "set">> /\ pc' = <<"commit", "release">>
    BY <1>7 DEF SetSourceModeAndPath, Commit
  <2>2. mapped = {} /\ maps \in Nat
    BY <2>1 DEF MapIInv
  <2> QED
    BY <1>1, <1>2, <2>1, <2>2 DEF MapIInv
<1>8. CASE MapFrameBufferFails
  <2>1. pc' = <<"commit", "exit">> /\ UNCHANGED <<ptr, mapped, maps>>
    BY <1>8 DEF MapFrameBufferFails, Commit
  <2>2. active' <=> active
    BY <1>8 DEF MapFrameBufferFails
  <2> QED
    BY <1>1, <1>2, <2>1, <2>2 DEF MapIInv
<1>9. CASE CommitReleasePath \/ CommitFails \/ CommitReturns
  BY <1>3, <1>9 DEF CommitReleasePath, CommitFails, CommitReturns, Commit
<1> QED
  BY <1>4, <1>5, <1>6, <1>7, <1>8, <1>9 DEF Commits

\* A present copies to the mapping it finds.
LEMMA MapPresents ==
  ASSUME MapIInv, PresentSynch \/ PresentAsynch
  PROVE  MapIInv'
<1>1. Presents /\ Shown /\ Place' = "present" /\ UNCHANGED <<ptr, mapped, maps>>
  BY DEF PresentSynch, PresentAsynch, Place
<1>2. (active' <=> active) /\ (started' <=> started) /\ (attached' <=> attached)
  BY DEF PresentSynch, PresentAsynch, deviceVars
<1>3. attached /\ started /\ ptr # 0
  BY <1>1 DEF Presents, Shown, Called, MapIInv
<1>4. PICK stage, turn :
        jobs' = [n \in DOMAIN jobs \union {presents'} |->
                   IF n = presents' THEN Context(turn, stage) ELSE jobs[n]]
  BY DEF PresentSynch, PresentAsynch, NewJob
<1>5. Context(turn, stage).dst = ptr
  BY DEF Context
<1>6. \A n \in Outstanding' : jobs'[n].dst = ptr
  <2>1. ASSUME NEW n \in Outstanding', n # presents'
        PROVE  n \in Outstanding /\ jobs'[n] = jobs[n]
    BY <1>4, <2>1 DEF Outstanding
  <2>2. ASSUME presents' \in Outstanding'
        PROVE  jobs'[presents'] = Context(turn, stage)
    BY <1>4
  <2> QED
    BY <1>5, <2>1, <2>2 DEF MapIInv
<1> QED
  BY <1>1, <1>2, <1>3, <1>6 DEF MapIInv, Place

LEMMA MapWorker ==
  ASSUME MapIInv, NEW k \in 1 .. MaxPresents, Worker(k)
  PROVE  MapIInv'
<1>1. k \in DOMAIN jobs /\ UNCHANGED <<ptr, mapped, maps, pc>>
  BY DEF Worker, WorkerStarts, WorkerGoesOn, WorkerDraws,
     ReportPresentProgress, WorkerExits, vidPnVars, screenVars
<1>2. (active' <=> active) /\ (started' <=> started) /\ (attached' <=> attached)
  BY DEF Worker, WorkerStarts, WorkerGoesOn, WorkerDraws,
     ReportPresentProgress, WorkerExits, deviceVars, screenVars
<1>3. \A n \in Outstanding' : n \in Outstanding /\ jobs'[n].dst = jobs[n].dst
  <2>1. CASE WorkerExits(k)
    BY <2>1 DEF WorkerExits, Gone, Outstanding
  <2>2. CASE ~WorkerExits(k)
    <3>1. PICK to :
            jobs' = [jobs EXCEPT ![k] = [dst |-> jobs[k].dst, blt |-> jobs[k].blt,
                                         stage |-> to, shift |-> jobs[k].shift]]
      BY <2>2 DEF Worker, WorkerStarts, WorkerGoesOn, WorkerDraws,
         ReportPresentProgress, AtStage
    <3>2. jobs[k].stage # "exiting"
      BY <2>2 DEF Worker, WorkerStarts, WorkerGoesOn, WorkerDraws,
         ReportPresentProgress, AtStage
    <3> QED
      BY <1>1, <3>1, <3>2 DEF Outstanding
  <2> QED
    BY <2>1, <2>2
<1> QED
  BY <1>1, <1>2, <1>3 DEF MapIInv, Place

LEMMA MapStep == MapIInv /\ [DisplayNext]_displayVars => MapIInv'
<1> SUFFICES ASSUME MapIInv, [DisplayNext]_displayVars PROVE MapIInv'
  OBVIOUS
<1>1. CASE Enumerates
  <2>1. Place \in EnumPlaces /\ Place' \in EnumPlaces
    BY <1>1, EnumerationStays DEF Enumerates
  <2>2. Outstanding = {} \/ Place' = "idle"
    <3>1. CASE pc = <<"idle">>
      BY <1>1, <3>1 DEF Enumerates, ActiveCall, QuietCall
    <3>2. CASE pc # <<"idle">> /\ Place = "idle"
      BY <1>1, <3>2 DEF Enumerates, VidPnNext, EnumVidPnCofuncModality,
         AcquireFirstPath, AcquireModeSet, AcquirePinnedMode, DropModeSet,
         CreateModeSet, AssignModeSet, ReleasePinnedMode, ReleaseModeSet,
         AddSingleSourceMode, AddSingleTargetMode, UpdatePathSupport,
         AcquireNextPath, NextPathFails, ReleaseLastPath, CallFails, Calls,
         CleanUp, Place
    <3>3. CASE Place # "idle"
      BY <2>1, <3>3 DEF MapIInv, EnumPlaces
    <3> QED
      BY <3>1, <3>2, <3>3
  <2>3. UNCHANGED <<ptr, mapped, maps, jobs>>
    BY <1>1 DEF Enumerates, screenVars, bltVars
  <2>4. (active' <=> active) /\ (started' <=> started) /\ (attached' <=> attached)
    BY <1>1 DEF Enumerates, deviceVars, screenVars
  <2> QED
    BY <2>1, <2>2, <2>3, <2>4, MapKept DEF EnumPlaces
<1>2. CASE SourceVisibility \/ UpdateActiveVidPnPresentPath
  <2>1. UNCHANGED <<ptr, mapped, maps, jobs, pc>> /\ Place = "idle"
    BY <1>2 DEF SourceVisibility, UpdateActiveVidPnPresentPath, bltVars,
       vidPnVars, ActiveCall, QuietCall, Called, Place
  <2>2. (active' <=> active) /\ (started' <=> started) /\ (attached' <=> attached)
    BY <1>2 DEF SourceVisibility, UpdateActiveVidPnPresentPath, deviceVars
  <2> QED
    BY <2>1, <2>2, MapKept DEF Place
<1>3. CASE SetPowerState
  <2>1. UNCHANGED <<ptr, mapped, maps, jobs, pc>> /\ Place = "idle"
    BY <1>3 DEF SetPowerState, bltVars, vidPnVars, ActiveCall, QuietCall,
       Called, Place
  <2>2. (active' <=> active) /\ (started' <=> started) /\ (attached' <=> attached)
    BY <1>3 DEF SetPowerState
  <2> QED
    BY <2>1, <2>2, MapKept DEF Place
<1>4. CASE PresentFails
  <2>1. UNCHANGED <<ptr, mapped, maps, jobs, pc>> /\ Place = "idle"
    BY <1>4 DEF PresentFails, vidPnVars, Presents, Called, Place
  <2>2. (active' <=> active) /\ (started' <=> started) /\ (attached' <=> attached)
    BY <1>4 DEF PresentFails, deviceVars
  <2> QED
    BY <2>1, <2>2, MapKept DEF Place
<1>5. CASE PresentNothing \/ UNCHANGED displayVars
  <2>1. UNCHANGED displayVars
    BY <1>5 DEF PresentNothing
  <2>2. UNCHANGED <<ptr, mapped, maps, jobs, pc>>
    BY <2>1 DEF displayVars, vidPnVars, screenVars, bltVars
  <2>3. (active' <=> active) /\ (started' <=> started) /\ (attached' <=> attached)
    BY <2>1 DEF displayVars, deviceVars, screenVars
  <2> QED
    BY <2>2, <2>3, MapKept DEF MapIInv, Place
<1>6. CASE PresentDraws
  <2>1. PICK k \in DOMAIN jobs : Gone(k)
    BY <1>6 DEF PresentDraws
  <2>2. \A n \in Outstanding' : n \in Outstanding /\ jobs'[n] = jobs[n]
    BY <2>1 DEF Gone, Outstanding
  <2>3. UNCHANGED <<ptr, mapped, maps>> /\ Place' = "idle"
    BY <1>6 DEF PresentDraws, Place
  <2>4. (active' <=> active) /\ (started' <=> started) /\ (attached' <=> attached)
    BY <1>6 DEF PresentDraws, deviceVars
  <2> QED
    BY <2>2, <2>3, <2>4 DEF MapIInv, Place
<1>7. CASE PresentThreadStarted \/ PresentResumesThread
  <2>1. UNCHANGED <<ptr, mapped, maps, jobs>> /\ Place' \in {"idle", "present"}
    BY <1>7 DEF PresentThreadStarted, PresentResumesThread, screenVars, bltVars,
       Place
  <2>2. (active' <=> active) /\ (started' <=> started) /\ (attached' <=> attached)
    BY <1>7 DEF PresentThreadStarted, PresentResumesThread, deviceVars, screenVars
  <2> QED
    BY <2>1, <2>2, MapKept
<1> QED
  BY <1>1, <1>2, <1>3, <1>4, <1>5, <1>6, <1>7, MapDevice, MapCommits,
     MapPresents, MapWorker DEF DisplayNext, PresentReturns

LEMMA MapInvariant == DisplaySafety => []MapIInv
  BY InitMap, MapStep, PTL DEF DisplaySafety

\* DrawsIntoLiveMapping: the address that a thread carries from the present to
\* the copy is still that of the mapping, and no mapping is lost on the way.
THEOREM DrawsIntoLiveMappingTheorem == DisplaySafety => []DrawsIntoLiveMapping
<1>1. MapIInv => DrawsIntoLiveMapping
  <2> SUFFICES ASSUME MapIInv PROVE DrawsIntoLiveMapping
    OBVIOUS
  <2>1. ASSUME NEW n \in DOMAIN jobs, jobs[n].stage \in {"inline", "drawing"}
        PROVE  jobs[n].dst \in mapped
    BY <2>1 DEF MapIInv, Outstanding
  <2>2. ptr # 0 => SystemDisplayWrite.dst \in mapped
    BY DEF MapIInv, SystemDisplayWrite
  <2> QED
    BY <2>1, <2>2 DEF DrawsIntoLiveMapping, Drawing, MapIInv
<1> QED
  BY <1>1, MapInvariant, PTL
-----------------------------------------------------------------------------
\* The sizes a mode of this frame buffer may have, and what is being copied.
Sizes == {<<0, 0>>, post} \union Fitting
Turns == {0, 90}
JobFits(n) ==
  \E size \in Sizes, turn \in Turns :
    /\ jobs[n].blt = BltInfo(size, turn)
    /\ jobs[n].shift \in {0, CenterShift(BltInfo(size, turn), Width(post), Height(post))}

ModeIInv ==
  /\ post \in PostModes
  /\ mode \in [size : Sizes, centered : BOOLEAN, rotation : Turns]
  /\ \A n \in DOMAIN jobs : JobFits(n)

LEMMA SizesFit ==
  ASSUME post \in PostModes, NEW size \in Sizes
  PROVE  /\ Width(size) \in Nat /\ Height(size) \in Nat
         /\ Width(post) \in Nat /\ Height(post) \in Nat
         /\ Width(size) <= Width(post) /\ Height(size) <= Height(post)
<1>1. post \in Nat \X Nat
  BY ModesAssumption
<1>2. CASE size \in {<<0, 0>>, post}
  BY <1>1, <1>2 DEF Width, Height
<1>3. CASE size \in Fitting
  <2>0. SampleModes \in Seq(Nat \X Nat)
    BY ModesAssumption
  <2>1. PICK j \in DOMAIN SampleModes :
          /\ size = SampleModes[j]
          /\ \A k \in 1 .. j : ~Stops(k)
          /\ Height(SampleModes[j]) <= Height(post)
    BY <1>3 DEF Fitting
  <2>2. size \in Nat \X Nat /\ j \in 1 .. j
    BY <2>0, <2>1
  <2>3. Width(size) <= Width(post)
    BY <1>1, <2>1, <2>2 DEF Stops, Width
  <2> QED
    BY <1>1, <2>1, <2>2, <2>3 DEF Width, Height
<1> QED
  BY <1>2, <1>3 DEF Sizes

LEMMA InitMode == DisplayInit => ModeIInv
  BY DEF DisplayInit, VidPnInit, NoMode, ModeIInv, Sizes, Turns

\* The frame buffer stays what it is, and so does what fits into it.
LEMMA SizesStay ==
  ASSUME post' = post
  PROVE  /\ Sizes' = Sizes
         /\ \A size, turn : BltInfo(size, turn)' = BltInfo(size, turn)
  BY DEF Sizes, Fitting, Stops, BltInfo

LEMMA PostStays ==
  ASSUME DisplayNext
  PROVE  post' = post
<1> USE DEF callVars, vidPnVars
<1>1. CASE Enumerates
  BY <1>1, EnumerationStays DEF Enumerates
<1>2. CASE Commits
  BY <1>2, CommitStays
<1>3. CASE StartDevice \/ StartDeviceFails \/ StopDevice
           \/ StopDeviceAndReleasePostDisplayOwnership
  BY <1>3 DEF StartDevice, StartDeviceFails, StopDevice,
     StopDeviceAndReleasePostDisplayOwnership
<1>4. CASE RemoveDevice \/ DestructorReturns \/ AddDevice
  BY <1>4 DEF RemoveDevice, DestructorReturns, AddDevice
<1>5. CASE SourceVisibility
  BY <1>5 DEF SourceVisibility
<1>6. CASE SetPowerState
  BY <1>6 DEF SetPowerState
<1>7. CASE UpdateActiveVidPnPresentPath
  BY <1>7 DEF UpdateActiveVidPnPresentPath
<1>8. CASE PresentNothing \/ PresentFails \/ PresentSynch \/ PresentAsynch
  BY <1>8 DEF PresentNothing, PresentFails, PresentSynch, PresentAsynch, displayVars
<1>9. CASE PresentReturns
  BY <1>9 DEF PresentReturns, PresentDraws, PresentThreadStarted,
     PresentResumesThread
<1>10. ASSUME NEW k \in 1 .. MaxPresents, Worker(k)
       PROVE  post' = post
  BY <1>10 DEF Worker, WorkerStarts, WorkerGoesOn, WorkerDraws,
     ReportPresentProgress, WorkerExits
<1> QED
  BY <1>1, <1>2, <1>3, <1>4, <1>5, <1>6, <1>7, <1>8, <1>9, <1>10 DEF DisplayNext

\* A mode that is set is one of those that fit.
LEMMA ModeTypes ==
  ASSUME ModeIInv, DisplayNext
  PROVE  mode' \in [size : Sizes, centered : BOOLEAN, rotation : Turns]
<1>0. mode \in [size : Sizes, centered : BOOLEAN, rotation : Turns]
  BY DEF ModeIInv
<1>1. NoMode \in [size : Sizes, centered : BOOLEAN, rotation : Turns]
  BY DEF NoMode, Sizes, Turns
<1>2. CASE NewMode
  BY <1>2 DEF NewMode, Sizes, Turns
<1>3. CASE Enumerates
  BY <1>0, <1>3 DEF Enumerates, screenVars
<1>4. CASE StartDevice \/ StartDeviceFails \/ AddDevice
  BY <1>1, <1>4 DEF StartDevice, StartDeviceFails, AddDevice, ClearModes
<1>5. CASE StopDevice \/ StopDeviceAndReleasePostDisplayOwnership
  BY <1>0, <1>5 DEF StopDevice, StopDeviceAndReleasePostDisplayOwnership
<1>6. CASE RemoveDevice \/ DestructorReturns
  BY <1>0, <1>6 DEF RemoveDevice, DestructorReturns, screenVars
<1>7. CASE SourceVisibility
  BY <1>0, <1>7 DEF SourceVisibility
<1>8. CASE SetPowerState
  BY <1>0, <1>8 DEF SetPowerState
<1>9. CASE UpdateActiveVidPnPresentPath
  BY <1>0, <1>9 DEF UpdateActiveVidPnPresentPath, Turns
<1>10. CASE CommitVidPn \/ CommitNoPath \/ CommitSourceModeSet \/ CommitPinnedMode
            \/ CommitUnmap \/ CommitPathInfo
  BY <1>0, <1>10 DEF CommitVidPn, CommitNoPath, CommitSourceModeSet,
     CommitPinnedMode, CommitUnmap, CommitPathInfo, screenVars
<1>11. CASE CommitReleasePath \/ CommitFails \/ CommitReturns
  BY <1>0, <1>11 DEF CommitReleasePath, CommitFails, CommitReturns, screenVars
<1>12. CASE SetSourceModeAndPath \/ MapFrameBufferFails
  BY <1>2, <1>12 DEF SetSourceModeAndPath, MapFrameBufferFails
<1>13. CASE PresentNothing \/ PresentFails \/ PresentSynch \/ PresentAsynch
  BY <1>0, <1>13 DEF PresentNothing, PresentFails, PresentSynch, PresentAsynch,
     displayVars, screenVars
<1>14. CASE PresentReturns
  BY <1>0, <1>14 DEF PresentReturns, PresentDraws, PresentThreadStarted,
     PresentResumesThread, screenVars
<1>15. ASSUME NEW k \in 1 .. MaxPresents, Worker(k)
       PROVE  mode' \in [size : Sizes, centered : BOOLEAN, rotation : Turns]
  BY <1>0, <1>15 DEF Worker, WorkerStarts, WorkerGoesOn, WorkerDraws,
     ReportPresentProgress, WorkerExits, screenVars
<1> QED
  BY <1>3, <1>4, <1>5, <1>6, <1>7, <1>8, <1>9, <1>10, <1>11, <1>12, <1>13, <1>14,
     <1>15 DEF DisplayNext, Commits

\* The jobs stay as they are, but for those that come, go on or go.
LEMMA JobsMove ==
  ASSUME DisplayNext
  PROVE  \/ jobs' = jobs
         \/ \E k \in DOMAIN jobs : Gone(k)
         \/ \E k \in DOMAIN jobs : \E from, to : AtStage(k, from, to)
         \/ \E stage : NewJob(stage)
<1> USE DEF bltVars
<1>1. CASE Enumerates
  BY <1>1 DEF Enumerates
<1>2. CASE Commits
  BY <1>2, CommitStays
<1>3. CASE StartDevice \/ StartDeviceFails \/ StopDevice
           \/ StopDeviceAndReleasePostDisplayOwnership
  BY <1>3 DEF StartDevice, StartDeviceFails, StopDevice,
     StopDeviceAndReleasePostDisplayOwnership
<1>4. CASE RemoveDevice \/ DestructorReturns \/ AddDevice
  BY <1>4 DEF RemoveDevice, DestructorReturns, AddDevice
<1>5. CASE SourceVisibility
  BY <1>5 DEF SourceVisibility
<1>6. CASE SetPowerState
  BY <1>6 DEF SetPowerState
<1>7. CASE UpdateActiveVidPnPresentPath
  BY <1>7 DEF UpdateActiveVidPnPresentPath
<1>8. CASE PresentNothing \/ PresentFails
  BY <1>8 DEF PresentNothing, PresentFails, displayVars
<1>9. CASE PresentSynch \/ PresentAsynch
  BY <1>9 DEF PresentSynch, PresentAsynch
<1>10. CASE PresentReturns
  BY <1>10 DEF PresentReturns, PresentDraws, PresentThreadStarted,
     PresentResumesThread
<1>11. ASSUME NEW k \in 1 .. MaxPresents, Worker(k)
       PROVE  \/ \E n \in DOMAIN jobs : Gone(n)
              \/ \E n \in DOMAIN jobs : \E from, to : AtStage(n, from, to)
  BY <1>11 DEF Worker, WorkerStarts, WorkerGoesOn, WorkerDraws,
     ReportPresentProgress, WorkerExits
<1> QED
  BY <1>1, <1>2, <1>3, <1>4, <1>5, <1>6, <1>7, <1>8, <1>9, <1>10, <1>11
  DEF DisplayNext

LEMMA ModeStep == ModeIInv /\ [DisplayNext]_displayVars => ModeIInv'
<1>1. CASE UNCHANGED displayVars
  BY <1>1, SizesStay DEF displayVars, vidPnVars, screenVars, bltVars, ModeIInv,
     JobFits, Width, Height, CenterShift
<1>2. ASSUME ModeIInv, DisplayNext PROVE ModeIInv'
  <2>1. post' = post /\ post \in PostModes /\ Sizes' = Sizes
    BY <1>2, PostStays, SizesStay DEF ModeIInv
  <2>2. mode' \in [size : Sizes, centered : BOOLEAN, rotation : Turns]
    BY <1>2, ModeTypes
  <2>3. ASSUME NEW m \in DOMAIN jobs', NEW n \in DOMAIN jobs,
               jobs'[m].blt = jobs[n].blt, jobs'[m].shift = jobs[n].shift
        PROVE  JobFits(m)'
    <3>1. PICK size \in Sizes, turn \in Turns :
            /\ jobs[n].blt = BltInfo(size, turn)
            /\ jobs[n].shift \in {0, CenterShift(BltInfo(size, turn), Width(post), Height(post))}
      BY <1>2 DEF ModeIInv, JobFits
    <3> QED
      BY <2>1, <2>3, <3>1, SizesStay DEF JobFits, BltInfo
  <2>4. ASSUME jobs' = jobs
        PROVE  \A m \in DOMAIN jobs' : JobFits(m)'
    BY <2>3, <2>4
  <2>5. ASSUME NEW k \in DOMAIN jobs, Gone(k)
        PROVE  \A m \in DOMAIN jobs' : JobFits(m)'
    BY <2>3, <2>5 DEF Gone
  <2>6. ASSUME NEW k \in DOMAIN jobs, NEW from, NEW to, AtStage(k, from, to)
        PROVE  \A m \in DOMAIN jobs' : JobFits(m)'
    <3>1. \A m \in DOMAIN jobs' :
            m \in DOMAIN jobs /\ jobs'[m].blt = jobs[m].blt
                              /\ jobs'[m].shift = jobs[m].shift
      BY <2>6 DEF AtStage
    <3> QED
      BY <2>3, <3>1
  <2>7. ASSUME NEW stage, NewJob(stage)
        PROVE  \A m \in DOMAIN jobs' : JobFits(m)'
    <3>1. PICK turn \in {0, mode.rotation} :
            jobs' = [n \in DOMAIN jobs \union {presents'} |->
                       IF n = presents' THEN Context(turn, stage) ELSE jobs[n]]
      BY <2>7 DEF NewJob
    <3>2. mode.size \in Sizes /\ turn \in Turns
      BY <1>2, <3>1 DEF ModeIInv, Turns
    <3>3. /\ jobs'[presents'].blt = BltInfo(mode.size, turn)
          /\ jobs'[presents'].shift \in
               {0, CenterShift(BltInfo(mode.size, turn), Width(post), Height(post))}
      BY <3>1 DEF Context
    <3>4. JobFits(presents)'
      BY <2>1, <3>2, <3>3 DEF JobFits, BltInfo
    <3>5. \A m \in DOMAIN jobs' : m # presents' =>
            m \in DOMAIN jobs /\ jobs'[m] = jobs[m]
      BY <3>1
    <3> QED
      BY <2>3, <3>4, <3>5
  <2>8. \A m \in DOMAIN jobs' : JobFits(m)'
    BY <1>2, <2>4, <2>5, <2>6, <2>7, JobsMove DEF ModeIInv
  <2> QED
    BY <2>1, <2>2, <2>8 DEF ModeIInv
<1> QED
  BY <1>1, <1>2

LEMMA ModeInvariant == DisplaySafety => []ModeIInv
  BY InitMode, ModeStep, PTL DEF DisplaySafety

\* The picture of a mode that fits, turned or not, at the corner or centered.
LEMMA DrawnRight ==
  ASSUME ModeIInv, NEW size \in Sizes, NEW turn \in Turns,
         NEW b, b = BltInfo(size, turn),
         NEW shift \in {0, CenterShift(b, Width(post), Height(post))},
         NEW left \in 0 .. LookedAtWidth(b) - 1,
         NEW top \in 0 .. LookedAtHeight(b) - 1,
         NEW x \in 0 .. LookedAtWidth(b) - left - 1,
         NEW y \in 0 .. LookedAtHeight(b) - top - 1
  PROVE  LET address == BltAddress(b, left, top, x, y)
         IN /\ address = CellAddress(b, Turned(b, left + x, top + y))
            /\ 0 <= shift + address
            /\ shift + address + b.bytes <= Height(post) * b.pitch
<1>1. /\ Width(size) \in Nat /\ Height(size) \in Nat
      /\ Width(post) \in Nat /\ Height(post) \in Nat
      /\ Width(size) <= Width(post) /\ Height(size) <= Height(post)
  BY SizesFit DEF ModeIInv
<1>2. Width(post) * Bytes \in Nat /\ Bytes \in Nat /\ Padding \in Nat
  <2>1. Bytes \in Nat /\ Padding \in Nat
    BY PixelAssumption
  <2> QED
    BY <1>1, <2>1, Monotone
<1>3. /\ b.width = Width(size) /\ b.height = Height(size) /\ b.bytes = Bytes
      /\ b.pitch = Width(post) * Bytes + Padding /\ b.rotation = turn
      /\ b.x = 0 /\ b.y = 0
  BY DEF BltInfo
<1>4. b \in BltInfos
  <2>1. Width(post) * Bytes + Padding \in Nat /\ turn \in Rotations /\ 0 \in Int
    BY <1>2 DEF Turns, Rotations
  <2> QED
    BY <1>1, <1>2, <2>1 DEF BltInfos, BltInfo
<1>5. Width(post) * b.bytes <= b.pitch
  BY <1>2, <1>3
<1>6. LookedAtWidth(b) \in Nat /\ LookedAtHeight(b) \in Nat
  BY <1>1, <1>3 DEF LookedAtWidth, LookedAtHeight
<1>7. /\ left + x \in 0 .. LookedAtWidth(b) - 1
      /\ top + y \in 0 .. LookedAtHeight(b) - 1
      /\ left \in Int /\ top \in Int /\ x \in Int /\ y \in Int
  BY <1>6
<1>8. BltAddress(b, left, top, x, y) = CellAddress(b, Turned(b, left + x, top + y))
  BY <1>3, <1>4, <1>7, AddressOfItsCell
<1>9. /\ 0 <= shift + CellAddress(b, Turned(b, left + x, top + y))
      /\ shift + CellAddress(b, Turned(b, left + x, top + y)) + b.bytes
           <= Height(post) * b.pitch
  BY <1>1, <1>3, <1>4, <1>5, <1>7, InsideFrameBuffer
<1> QED
  BY <1>8, <1>9

\* DrawsThePicture, for any frame buffer and any table of modes: in every
\* state what is being drawn is a picture that fits.
THEOREM DrawsThePictureTheorem == DisplaySafety => []DrawsThePicture
<1>1. ModeIInv => DrawsThePicture
  <2> SUFFICES ASSUME ModeIInv PROVE DrawsThePicture
    OBVIOUS
  <2>1. ASSUME NEW d \in Drawing
        PROVE  \E size \in Sizes, turn \in Turns :
                 /\ d.blt = BltInfo(size, turn)
                 /\ d.shift \in {0, CenterShift(d.blt, Width(post), Height(post))}
    <3>1. CASE d = SystemDisplayWrite
      <4>1. d.blt = BltInfo(post, mode.rotation) /\ d.shift = 0
        BY <3>1 DEF SystemDisplayWrite
      <4>2. post \in Sizes /\ mode.rotation \in Turns
        BY DEF ModeIInv, Sizes
      <4> QED
        BY <4>1, <4>2
    <3>2. CASE \E n \in DOMAIN jobs : d = jobs[n]
      BY <3>2 DEF ModeIInv, JobFits
    <3> QED
      BY <2>1, <3>1, <3>2 DEF Drawing
  <2> QED
    BY <2>1, DrawnRight DEF DrawsThePicture
<1> QED
  BY <1>1, ModeInvariant, PTL
-----------------------------------------------------------------------------
\* The manager is owed what the driver holds.
One(h) == IF h \in has THEN 1 ELSE 0
Owed(k) == IF k = "path" THEN One("path") + One("lastPath") ELSE One(k)
Counted == /\ has \subseteq Handles /\ held \in [Kinds -> Int]
           /\ \A k \in Kinds : held[k] = Owed(k)

\* What the driver holds at each place of an enumeration and of a commit.
Has(must, may) == must \subseteq has /\ has \subseteq must \union may
Source == {"sourceSet", "sourceMode"}
HasInEnumeration ==
  /\ Place \in {"idle", "firstPath", "remove", "present"} => has = {}
  /\ pc \in {<<"source", "acquire">>, <<"source", "create">>, <<"support">>, <<"nextPath">>}
       => has = {"path"}
  /\ pc \in {"source"} \X {"pinned", "drop", "add", "assign"}
       => has = {"path", "sourceSet"}
  /\ Place = "target" => ~IsPivot("target")
  /\ pc \in {"target"} \X {"acquire", "create"} => Has({"path"}, Source)
  /\ pc \in {"target"} \X {"pinned", "drop", "add", "assign", "releaseSet"}
       => Has({"path", "targetSet"}, Source)
  /\ pc = <<"target", "releaseMode">> => Has({"path", "targetSet", "targetMode"}, Source)
  /\ pc = <<"source", "releaseMode">> => Has({"path"}, Source)
  /\ pc = <<"source", "releaseSet">> => Has({"path"}, {"sourceSet"})
  /\ pc = <<"releasePath">> => Has({"lastPath"}, {"path"})
HasInCommit ==
  /\ pc = <<"commit", "paths">> => has = {}
  /\ pc = <<"commit", "pinned">> => has = {"sourceSet"}
  /\ pc = <<"commit", "unmap">> => Has({}, Source)
  /\ pc = <<"commit", "path">> => has = Source
  /\ pc \in {"commit"} \X {"set", "release"} => has = Source \union {"path"}
WithSet == /\ "sourceMode" \in has => "sourceSet" \in has
           /\ "targetMode" \in has => "targetSet" \in has

HandleIInv == Counted /\ HasInEnumeration /\ HasInCommit /\ WithSet

LEMMA AcquireCounts ==
  ASSUME Counted, NEW h \in Handles \ has, Acquire(h)
  PROVE  Counted'
  BY DEF Counted, Owed, One, Acquire, KindOf, Kinds, Handles

LEMMA ReleaseCounts ==
  ASSUME Counted, NEW h \in has, Release(h)
  PROVE  Counted'
  BY DEF Counted, Owed, One, Release, KindOf, Kinds, Handles

\* What ReleaseAll gives back is what is owed.
LEMMA OwedIsCount ==
  ASSUME has \subseteq Handles, NEW k \in Kinds
  PROVE  Cardinality({h \in has : KindOf(h) = k}) = Owed(k)
<1> DEFINE H == {h \in has : KindOf(h) = k}
<1>e. Cardinality({}) = 0 /\ \A a : Cardinality({a}) = 1
  BY FS_EmptySet, FS_Singleton
<1>1. CASE k # "path"
  <2>1. H = IF k \in has THEN {k} ELSE {}
    BY <1>1 DEF KindOf, Kinds, Handles
  <2> QED
    BY <1>1, <1>e, <2>1 DEF Owed, One
<1>2. CASE k = "path"
  <2>1. H = has \intersect {"path", "lastPath"}
    BY <1>2 DEF KindOf, Handles
  <2>2. CASE {"path", "lastPath"} \subseteq has
    <3>1. H = {"path"} \union {"lastPath"} /\ "lastPath" \notin {"path"}
      BY <2>1, <2>2
    <3>2. Cardinality({"path"} \union {"lastPath"}) = Cardinality({"path"}) + 1
      <4>1. IsFiniteSet({"path"})
        BY FS_Singleton
      <4> QED
        BY <3>1, <4>1, FS_AddElement
    <3>3. Cardinality({"path"} \union {"lastPath"}) = 2
      BY <1>e, <3>2
    <3>4. Cardinality(H) = 2
      BY <3>1, <3>3
    <3> QED
      BY <1>2, <2>2, <3>4 DEF Owed, One
  <2>3. CASE ~({"path", "lastPath"} \subseteq has)
    <3>1. H = IF "path" \in has THEN {"path"}
              ELSE IF "lastPath" \in has THEN {"lastPath"} ELSE {}
      BY <2>1, <2>3
    <3> QED
      BY <1>2, <1>e, <2>3, <3>1 DEF Owed, One
  <2> QED
    BY <2>2, <2>3
<1> QED
  BY <1>1, <1>2

LEMMA ReleaseAllCounts ==
  ASSUME Counted, ReleaseAll
  PROVE  Counted' /\ has' = {}
<1>1. \A k \in Kinds : held'[k] = 0
  BY OwedIsCount DEF Counted, ReleaseAll, Owed, One
<1> QED
  BY <1>1 DEF Counted, ReleaseAll, Owed, One

LEMMA InitHandle == DisplayInit => HandleIInv
  BY DEF DisplayInit, VidPnInit, DmmInit, HandleIInv, Counted, Owed, One, Kinds,
     Handles, HasInEnumeration, HasInCommit, WithSet, Place, Has

\* The steps of an enumeration that acquire something.
LEMMA EnumerationAcquires ==
  ASSUME HandleIInv,
         \/ AcquireFirstPath
         \/ \E side \in {"source", "target"} :
              AcquireModeSet(side) \/ AcquirePinnedMode(side) \/ CreateModeSet(side)
  PROVE  HandleIInv'
<1> USE DEF HandleIInv, HasInEnumeration, HasInCommit, WithSet, Place, Has, Source
<1>1. CASE AcquireFirstPath
  <2>1. pc' = <<"source", "acquire">> /\ has = {} /\ Acquire("path")
    BY <1>1 DEF AcquireFirstPath
  <2>2. has' = {"path"}
    BY <2>1 DEF Acquire
  <2>3. Counted'
    BY <2>1, AcquireCounts DEF Handles
  <2> QED
    BY <2>1, <2>2, <2>3
<1>2. ASSUME NEW side \in {"source", "target"}, AcquireModeSet(side) \/ CreateModeSet(side)
      PROVE  HandleIInv'
  <2>1. /\ Acquire(Set(side)) /\ Set(side) \in Handles \ has
        /\ has' = has \union {Set(side)}
    BY <1>2 DEF AcquireModeSet, CreateModeSet, Acquire, Set, Handles
  <2>2. Counted'
    BY <2>1, AcquireCounts
  <2> QED
    BY <1>2, <2>1, <2>2 DEF AcquireModeSet, CreateModeSet, Set, IsPivot, inputVars
<1>3. ASSUME NEW side \in {"source", "target"}, AcquirePinnedMode(side)
      PROVE  HandleIInv'
  <2>1. CASE Pinned(side)
    <3>1. /\ Acquire(Mode(side)) /\ Mode(side) \in Handles \ has
          /\ has' = has \union {Mode(side)}
      BY <1>3, <2>1 DEF AcquirePinnedMode, Acquire, Mode, Handles
    <3>2. Counted'
      BY <3>1, AcquireCounts
    <3> QED
      BY <1>3, <2>1, <3>1, <3>2 DEF AcquirePinnedMode, AfterModes, Mode, IsPivot,
         inputVars
  <2>2. CASE ~Pinned(side)
    <3>1. has' = has /\ Counted'
      BY <1>3, <2>2 DEF AcquirePinnedMode, dmmVars, Counted, Owed, One
    <3> QED
      BY <1>3, <2>2, <3>1 DEF AcquirePinnedMode, AfterModes, IsPivot, inputVars
  <2> QED
    BY <2>1, <2>2
<1> QED
  BY <1>1, <1>2, <1>3

\* Those that give something back.
LEMMA EnumerationReleases ==
  ASSUME HandleIInv, NEW side \in {"source", "target"},
         \/ DropModeSet(side) \/ AssignModeSet(side)
         \/ ReleasePinnedMode(side) \/ ReleaseModeSet(side)
  PROVE  HandleIInv'
<1> USE DEF HandleIInv, HasInEnumeration, HasInCommit, WithSet, Place, Has, Source
<1>1. CASE DropModeSet(side) \/ AssignModeSet(side)
  <2>1. Release(Set(side)) /\ Set(side) \in has /\ has' = has \ {Set(side)}
    BY <1>1 DEF DropModeSet, AssignModeSet, Release, Set
  <2>2. Counted'
    BY <2>1, ReleaseCounts
  <2> QED
    BY <1>1, <2>1, <2>2 DEF DropModeSet, AssignModeSet, AfterModes, Set, IsPivot,
       inputVars
<1>2. CASE ReleasePinnedMode(side)
  <2>1. has' = has \ {Mode(side)} /\ Counted'
    <3>1. CASE Mode(side) \in has
      BY <1>2, <3>1, ReleaseCounts DEF ReleasePinnedMode, Release
    <3>2. CASE Mode(side) \notin has
      BY <1>2, <3>2 DEF ReleasePinnedMode, dmmVars, Counted, Owed, One
    <3> QED
      BY <3>1, <3>2
  <2> QED
    BY <1>2, <2>1 DEF ReleasePinnedMode, Mode, IsPivot, inputVars
<1>3. CASE ReleaseModeSet(side)
  <2>1. has' = has \ {Set(side)} /\ Counted'
    <3>1. CASE Set(side) \in has
      BY <1>3, <3>1, ReleaseCounts DEF ReleaseModeSet, Release
    <3>2. CASE Set(side) \notin has
      BY <1>3, <3>2 DEF ReleaseModeSet, dmmVars, Counted, Owed, One
    <3> QED
      BY <3>1, <3>2
  <2> QED
    BY <1>3, <2>1 DEF ReleaseModeSet, Set, IsPivot, inputVars
<1> QED
  BY <1>1, <1>2, <1>3

LEMMA EnumerationOther ==
  ASSUME HandleIInv, FailureClears,
         \/ EnumVidPnCofuncModality
         \/ AddSingleSourceMode \/ AddSingleTargetMode \/ UpdatePathSupport
         \/ AcquireNextPath \/ NextPathFails \/ ReleaseLastPath
         \/ CallFails \/ CleanUp
  PROVE  HandleIInv'
<1> USE DEF HandleIInv, HasInEnumeration, HasInCommit, WithSet, Place, Has, Source
<1>1. ASSUME UNCHANGED dmmVars
      PROVE  Counted' /\ UNCHANGED has
  BY <1>1 DEF dmmVars, Counted, Owed, One
<1>2. CASE EnumVidPnCofuncModality
  BY <1>1, <1>2 DEF EnumVidPnCofuncModality
<1>3. CASE AddSingleSourceMode \/ AddSingleTargetMode
  BY <1>1, <1>3 DEF AddSingleSourceMode, AddSingleTargetMode, IsPivot, inputVars
<1>4. CASE UpdatePathSupport
  BY <1>1, <1>4 DEF UpdatePathSupport
<1>5. CASE AcquireNextPath
  <2>1. /\ pc' = <<"releasePath">> /\ has = {"path"}
        /\ Leave({"path"}) \/ Leave({})
    BY <1>5 DEF AcquireNextPath
  <2>2. Cardinality({"path"}) = 1 /\ Cardinality({}) = 0
    BY FS_Singleton, FS_EmptySet
  <2>3. CASE Leave({"path"})
    <3>1. has' = {"path", "lastPath"} /\ held' = [held EXCEPT !["path"] = @ + 1]
      BY <2>1, <2>2, <2>3 DEF Leave
    <3>2. Counted'
      BY <2>1, <3>1 DEF Counted, Owed, One, Kinds, Handles
    <3> QED
      BY <2>1, <3>1, <3>2
  <2>4. CASE Leave({})
    <3>1. has' = {"lastPath"} /\ held' = [held EXCEPT !["path"] = @ + 0]
      BY <2>1, <2>2, <2>4 DEF Leave
    <3>2. Counted'
      BY <2>1, <3>1 DEF Counted, Owed, One, Kinds, Handles
    <3> QED
      BY <2>1, <3>1, <3>2
  <2> QED
    BY <2>1, <2>3, <2>4
<1>6. CASE NextPathFails
  <2>1. /\ pc' = <<"exit">> /\ has = {"path"} /\ has' = {"lastPath"}
        /\ UNCHANGED held
    BY <1>6 DEF NextPathFails
  <2>2. Counted'
    BY <2>1 DEF Counted, Owed, One, Kinds, Handles
  <2> QED
    BY <2>1, <2>2
<1>7. CASE ReleaseLastPath
  <2>1. /\ Release("lastPath") /\ "lastPath" \in has /\ has \subseteq {"path", "lastPath"}
        /\ has' = has \ {"lastPath"}
        /\ pc' = IF "path" \in has THEN <<"source", "acquire">> ELSE <<"exit">>
    BY <1>7 DEF ReleaseLastPath, Release
  <2>2. Counted'
    BY <2>1, ReleaseCounts
  <2>3. has' = IF "path" \in has THEN {"path"} ELSE {}
    BY <2>1
  <2> QED
    BY <2>1, <2>2, <2>3
<1>8. CASE CallFails
  BY <1>1, <1>8 DEF CallFails
<1>9. CASE CleanUp
  BY <1>9, ReleaseAllCounts DEF CleanUp
<1> QED
  BY <1>2, <1>3, <1>4, <1>5, <1>6, <1>7, <1>8, <1>9

LEMMA CommitHandles ==
  ASSUME HandleIInv, Commits
  PROVE  HandleIInv'
<1> USE DEF HandleIInv, HasInEnumeration, HasInCommit, WithSet, Place, Has, Source
<1>1. ASSUME UNCHANGED dmmVars
      PROVE  Counted' /\ UNCHANGED has
  BY <1>1 DEF dmmVars, Counted, Owed, One
<1>2. CASE CommitVidPn
  BY <1>1, <1>2 DEF CommitVidPn, ActiveCall, QuietCall, Called
<1>3. CASE CommitNoPath \/ CommitFails
  BY <1>1, <1>3 DEF CommitNoPath, CommitFails, Commit
<1>4. CASE CommitSourceModeSet
  <2>1. has' = {"sourceSet"} /\ Counted'
    BY <1>4, AcquireCounts DEF CommitSourceModeSet, Commit, Acquire, Handles
  <2> QED
    BY <1>4, <2>1 DEF CommitSourceModeSet, Commit
<1>5. CASE CommitPinnedMode
  <2>1. CASE Acquire("sourceMode")
    <3>1. has' = Source /\ Counted'
      BY <1>5, <2>1, AcquireCounts DEF CommitPinnedMode, Commit, Acquire, Handles
    <3> QED
      BY <1>5, <3>1 DEF CommitPinnedMode, Commit
  <2>2. CASE UNCHANGED dmmVars
    BY <1>1, <1>5, <2>2 DEF CommitPinnedMode, Commit
  <2> QED
    BY <1>5, <2>1, <2>2 DEF CommitPinnedMode
<1>6. CASE CommitUnmap
  BY <1>1, <1>6 DEF CommitUnmap, Commit
<1>7. CASE CommitPathInfo
  <2>1. CASE Acquire("path")
    <3>1. /\ has = Source /\ has' = Source \union {"path"} /\ Counted'
      BY <1>7, <2>1, AcquireCounts DEF CommitPathInfo, Commit, Acquire, Handles
    <3> QED
      BY <1>7, <3>1 DEF CommitPathInfo, Commit
  <2>2. CASE UNCHANGED dmmVars /\ Commit("path", "exit")
    BY <1>1, <2>2 DEF Commit
  <2> QED
    BY <1>7, <2>1, <2>2 DEF CommitPathInfo
<1>8. CASE SetSourceModeAndPath
  BY <1>1, <1>8 DEF SetSourceModeAndPath, Commit
<1>9. CASE MapFrameBufferFails
  BY <1>1, <1>9 DEF MapFrameBufferFails, Commit
<1>10. CASE CommitReleasePath
  <2>1. has = Source \union {"path"} /\ has' = Source /\ Counted'
    BY <1>10, ReleaseCounts DEF CommitReleasePath, Commit, Release
  <2> QED
    BY <1>10, <2>1 DEF CommitReleasePath, Commit
<1>11. CASE CommitReturns
  BY <1>11, ReleaseAllCounts DEF CommitReturns
<1> QED
  BY <1>2, <1>3, <1>4, <1>5, <1>6, <1>7, <1>8, <1>9, <1>10, <1>11 DEF Commits

\* Every other step is outside of both.
LEMMA HandlesElsewhere ==
  ASSUME HandleIInv, DisplayNext, ~Enumerates, ~Commits
  PROVE  HandleIInv'
<1>1. ASSUME UNCHANGED dmmVars, pc' = pc \/ Place' \in {"idle", "remove", "present"},
             UNCHANGED <<pivot, path>>, Place \in {"idle", "remove", "present"} \/ pc' = pc
      PROVE  HandleIInv'
  BY <1>1 DEF HandleIInv, Counted, Owed, One, HasInEnumeration, HasInCommit,
     WithSet, Has, Place, dmmVars, IsPivot
<1> USE DEF vidPnVars, callVars, Place
<1>2. CASE StartDevice \/ StartDeviceFails \/ StopDevice
           \/ StopDeviceAndReleasePostDisplayOwnership
  BY <1>1, <1>2 DEF StartDevice, StartDeviceFails, StopDevice,
     StopDeviceAndReleasePostDisplayOwnership
<1>3. CASE RemoveDevice \/ DestructorReturns \/ AddDevice
  BY <1>1, <1>3 DEF RemoveDevice, DestructorReturns, AddDevice, QuietCall, Called
<1>4. CASE SourceVisibility
  BY <1>1, <1>4 DEF SourceVisibility
<1>5. CASE SetPowerState
  BY <1>1, <1>5 DEF SetPowerState
<1>6. CASE UpdateActiveVidPnPresentPath
  BY <1>1, <1>6 DEF UpdateActiveVidPnPresentPath
<1>7. CASE PresentNothing \/ PresentFails
  BY <1>1, <1>7 DEF PresentNothing, PresentFails, displayVars
<1>8. CASE PresentSynch \/ PresentAsynch
  BY <1>1, <1>8 DEF PresentSynch, PresentAsynch, Presents, Called
<1>9. CASE PresentReturns
  BY <1>1, <1>9 DEF PresentReturns, PresentDraws, PresentThreadStarted,
     PresentResumesThread
<1>10. ASSUME NEW k \in 1 .. MaxPresents, Worker(k)
       PROVE  HandleIInv'
  BY <1>1, <1>10 DEF Worker, WorkerStarts, WorkerGoesOn, WorkerDraws,
     ReportPresentProgress, WorkerExits
<1> QED
  BY <1>2, <1>3, <1>4, <1>5, <1>6, <1>7, <1>8, <1>9, <1>10 DEF DisplayNext

LEMMA HandleStep ==
  FailureClears /\ HandleIInv /\ [DisplayNext]_displayVars => HandleIInv'
<1> SUFFICES ASSUME FailureClears, HandleIInv, [DisplayNext]_displayVars
             PROVE  HandleIInv'
  OBVIOUS
<1>1. CASE Enumerates
  BY <1>1, EnumerationAcquires, EnumerationReleases, EnumerationOther
  DEF Enumerates, VidPnNext
<1>2. CASE Commits
  BY <1>2, CommitHandles
<1>3. CASE DisplayNext /\ ~Enumerates /\ ~Commits
  BY <1>3, HandlesElsewhere
<1>4. CASE UNCHANGED displayVars
  BY <1>4 DEF displayVars, vidPnVars, dmmVars, HandleIInv, Counted, Owed, One,
     HasInEnumeration, HasInCommit, WithSet, Has, Place, IsPivot
<1> QED
  BY <1>1, <1>2, <1>3, <1>4

LEMMA HandleInvariant ==
  ASSUME FailureClears
  PROVE  DisplaySafety => []HandleIInv
<1>1. HandleIInv /\ [DisplayNext]_displayVars => HandleIInv'
  BY HandleStep
<1> QED
  BY <1>1, InitHandle, PTL DEF DisplaySafety

\* EveryHandleReturned, for any topology and any failure, if a call of the
\* manager that fails leaves no pointer behind.
THEOREM EveryHandleReturnedTheorem ==
  ASSUME FailureClears
  PROVE  DisplaySafety => []EveryHandleReturned
<1>1. HandleIInv => EveryHandleReturned
  BY DEF HandleIInv, HasInEnumeration, WithSet, Place, Counted, Owed, One,
     EveryHandleReturned
<1> QED
  BY <1>1, HandleInvariant, PTL

LEMMA FailureStep ==
  ASSUME HandleIInv, CleanUpOnlyAfterFailure, [DisplayNext]_displayVars
  PROVE  CleanUpOnlyAfterFailure'
<1> USE DEF CleanUpOnlyAfterFailure, Place
<1>1. ASSUME UNCHANGED <<has, status>>, pc' = pc \/ pc' # <<"exit">>
      PROVE  CleanUpOnlyAfterFailure'
  BY <1>1
<1>2. CASE Enumerates
  <2>1. CASE pc' # <<"exit">>
    BY <2>1
  <2>2. CASE pc' = <<"exit">>
    <3>1. \/ NextPathFails \/ ReleaseLastPath \/ CallFails
      BY <1>2, <2>2 DEF Enumerates, VidPnNext, EnumVidPnCofuncModality,
         AcquireFirstPath, AcquireModeSet, AcquirePinnedMode, DropModeSet, CreateModeSet,
         AssignModeSet, ReleasePinnedMode, ReleaseModeSet, AfterModes,
         AddSingleSourceMode, AddSingleTargetMode, UpdatePathSupport,
         AcquireNextPath, CleanUp
    <3>3. CASE NextPathFails \/ CallFails
      BY <3>3 DEF NextPathFails, CallFails
    <3>4. CASE ReleaseLastPath
      <4>1. has' = has \ {"lastPath"} /\ "path" \notin has /\ pc = <<"releasePath">>
        BY <2>2, <3>4 DEF ReleaseLastPath, Release
      <4>2. has \subseteq {"path", "lastPath"}
        BY <4>1 DEF HandleIInv, HasInEnumeration, Has
      <4> QED
        BY <4>1, <4>2
    <3> QED
      BY <3>1, <3>3, <3>4
  <2> QED
    BY <2>1, <2>2
<1>3. CASE Commits
  <2>1. Place' # "exit"
    BY <1>3, CommitStays
  <2> QED
    BY <2>1
<1> USE DEF vidPnVars, callVars, dmmVars
<1>4. CASE StartDevice \/ StartDeviceFails \/ StopDevice
           \/ StopDeviceAndReleasePostDisplayOwnership
  BY <1>1, <1>4 DEF StartDevice, StartDeviceFails, StopDevice,
     StopDeviceAndReleasePostDisplayOwnership
<1>5. CASE RemoveDevice \/ DestructorReturns \/ AddDevice
  BY <1>1, <1>5 DEF RemoveDevice, DestructorReturns, AddDevice
<1>6. CASE SourceVisibility
  BY <1>1, <1>6 DEF SourceVisibility
<1>7. CASE SetPowerState
  BY <1>1, <1>7 DEF SetPowerState
<1>8. CASE UpdateActiveVidPnPresentPath
  BY <1>1, <1>8 DEF UpdateActiveVidPnPresentPath
<1>9. CASE PresentNothing \/ PresentFails \/ UNCHANGED displayVars
  BY <1>1, <1>9 DEF PresentNothing, PresentFails, displayVars
<1>10. CASE PresentSynch \/ PresentAsynch
  BY <1>1, <1>10 DEF PresentSynch, PresentAsynch
<1>11. CASE PresentReturns
  BY <1>1, <1>11 DEF PresentReturns, PresentDraws, PresentThreadStarted,
     PresentResumesThread
<1>12. ASSUME NEW k \in 1 .. MaxPresents, Worker(k)
       PROVE  CleanUpOnlyAfterFailure'
  BY <1>1, <1>12 DEF Worker, WorkerStarts, WorkerGoesOn, WorkerDraws,
     ReportPresentProgress, WorkerExits
<1> QED
  BY <1>2, <1>3, <1>4, <1>5, <1>6, <1>7, <1>8, <1>9, <1>10, <1>11, <1>12
  DEF DisplayNext

\* CleanUpOnlyAfterFailure, the assertion at the end of the enumeration.
THEOREM CleanUpOnlyAfterFailureTheorem ==
  ASSUME FailureClears
  PROVE  DisplaySafety => []CleanUpOnlyAfterFailure
<1>1. HandleIInv /\ CleanUpOnlyAfterFailure /\ [DisplayNext]_displayVars
        => CleanUpOnlyAfterFailure'
  BY FailureStep
<1>2. DisplayInit => CleanUpOnlyAfterFailure
  BY DEF DisplayInit, VidPnInit, CleanUpOnlyAfterFailure
<1> QED
  BY <1>1, <1>2, HandleInvariant, PTL DEF DisplaySafety

\* DisplayTypeOK: what the four invariants say of the types.
THEOREM DisplayTypeCorrect ==
  ASSUME FailureClears
  PROVE  DisplaySafety => []DisplayTypeOK
<1>1. ThreadIInv /\ MapIInv /\ ModeIInv /\ HandleIInv => DisplayTypeOK
  BY DEF ThreadIInv, MapIInv, ModeIInv, HandleIInv, Counted, Sizes, Turns,
     DisplayTypeOK
<1> QED
  BY <1>1, ThreadInvariant, MapInvariant, ModeInvariant, HandleInvariant, PTL
-----------------------------------------------------------------------------
\* What an enumeration has offered.  The table of sizes is sorted by width and
\* then by height, as C_SampleSourceMode is.
Sorted ==
  \A i, j \in DOMAIN SampleModes : i < j =>
    \/ Width(SampleModes[i]) < Width(SampleModes[j])
    \/ /\ Width(SampleModes[i]) = Width(SampleModes[j])
       /\ Height(SampleModes[i]) <= Height(SampleModes[j])

Offers == {"source", "target", "scaling"}
Open(what, p) == what \notin topology[p] /\ ~(pivot.type = what /\ pivot.path = p)

\* What the loop has decided of its own path at the place where it is.
ModeSteps == {"acquire", "pinned", "drop", "create", "add", "assign"}
Decided(what) ==
  /\ what = "source" => pc \notin {"source"} \X ModeSteps
  /\ what = "target" => pc \notin {"source", "target"} \X ModeSteps
  /\ what = "scaling" => pc \in {<<"nextPath">>, <<"releasePath">>}

InLoop == Place \in {"source", "target", "support", "nextPath", "releasePath"}

\* What is open has been offered: on the paths that the loop has left, and on
\* its own path in as far as that is decided.
OfferedSoFar ==
  \A p \in 1 .. Len(topology), what \in Offers :
    <<what, p>> \in offered <=> Open(what, p) /\ (p < path \/ (p = path /\ Decided(what)))
OfferedAll ==
  \A p \in 1 .. Len(topology), what \in Offers : <<what, p>> \in offered <=> Open(what, p)

OfferIInv ==
  /\ topology \in Seq(SUBSET Aspects)
  /\ modes \subseteq {post} \union Fitting
  /\ ~InLoop /\ Place # "exit" => offered = {}
  /\ Place = "firstPath" => path = 1 /\ topology # <<>>
  /\ InLoop => path \in 1 .. Len(topology) /\ OfferedSoFar
  /\ Place = "target" => ~IsPivot("target")
  /\ \A side \in {"source", "target"} :
       pc \in {side} \X {"drop", "create", "add", "assign"} => ~Pinned(side) /\ ~IsPivot(side)
  /\ pc = <<"releasePath">> => ("path" \in has <=> path < Len(topology))
  /\ pc = <<"exit">> /\ status = "success" => OfferedAll

\* With a sorted table the loop over it leaves out no size that fits.
LEMMA FittingIsAll ==
  ASSUME post \in PostModes, Sorted
  PROVE  Fitting = {m \in {SampleModes[i] : i \in DOMAIN SampleModes} :
                      /\ Width(m) <= Width(post) /\ Height(m) <= Height(post)
                      /\ m # post}
<1> DEFINE All == {m \in {SampleModes[i] : i \in DOMAIN SampleModes} :
                      /\ Width(m) <= Width(post) /\ Height(m) <= Height(post)
                      /\ m # post}
<1>1. post \in Nat \X Nat /\ SampleModes \in Seq(Nat \X Nat)
  BY ModesAssumption
<1>2. \A i \in DOMAIN SampleModes : SampleModes[i] \in Nat \X Nat /\ i \in 1 .. Len(SampleModes)
  BY <1>1
<1>3. ASSUME NEW m \in Fitting
      PROVE  m \in All
  <2>1. PICK j \in DOMAIN SampleModes :
          /\ m = SampleModes[j]
          /\ \A k \in 1 .. j : ~Stops(k)
          /\ Height(SampleModes[j]) <= Height(post)
    BY DEF Fitting
  <2>2. m \in Nat \X Nat /\ j \in 1 .. j
    BY <1>2, <2>1
  <2>3. ~Stops(j)
    BY <2>1, <2>2
  <2> QED
    BY <1>1, <2>1, <2>2, <2>3 DEF Stops, Width, Height
<1>4. ASSUME NEW m \in All
      PROVE  m \in Fitting
  <2>1. PICK j \in DOMAIN SampleModes : m = SampleModes[j]
    OBVIOUS
  <2>2. m \in Nat \X Nat /\ j \in 1 .. Len(SampleModes)
    BY <1>2, <2>1
  <2>3. Width(m) < Width(post) \/ (Width(m) = Width(post) /\ Height(m) < Height(post))
    <3>1. /\ Width(m) \in Nat /\ Height(m) \in Nat /\ Width(post) \in Nat /\ Height(post) \in Nat
          /\ Width(m) <= Width(post) /\ Height(m) <= Height(post) /\ m # post
      BY <1>1, <2>2 DEF Width, Height
    <3>2. Width(m) = Width(post) => Height(m) # Height(post)
      BY <1>1, <2>2, <3>1 DEF Width, Height
    <3> QED
      BY <3>1, <3>2
  <2>4. ASSUME NEW k \in 1 .. j
        PROVE  ~Stops(k)
    <3>1. k \in DOMAIN SampleModes /\ SampleModes[k] \in Nat \X Nat
      BY <1>1, <1>2, <2>2
    <3>2. \/ Width(SampleModes[k]) < Width(m)
          \/ Width(SampleModes[k]) = Width(m) /\ Height(SampleModes[k]) <= Height(m)
      <4>1. CASE k = j
        BY <2>1, <2>2, <4>1 DEF Height
      <4>2. CASE k < j
        BY <2>1, <3>1, <4>2 DEF Sorted
      <4> QED
        BY <2>2, <4>1, <4>2
    <3>3. /\ {Width(m), Width(post), Width(SampleModes[k])} \subseteq Nat
          /\ {Height(m), Height(post), Height(SampleModes[k])} \subseteq Nat
      BY <1>1, <2>2, <3>1 DEF Width, Height
    <3> QED
      BY <2>3, <3>2, <3>3 DEF Stops
  <2>5. Height(SampleModes[j]) <= Height(post)
    BY <2>1
  <2> QED
    BY <2>1, <2>4, <2>5 DEF Fitting
<1> HIDE DEF All
<1>5. Fitting = All
  BY <1>3, <1>4
<1> QED
  BY <1>5 DEF All

LEMMA InitOffer == DisplayInit => OfferIInv
  BY DEF DisplayInit, VidPnInit, OfferIInv, InLoop, Place, Pinned, IsPivot

\* A step that decides what it offers, and nothing else.
LEMMA OfferedMore ==
  ASSUME OfferedSoFar, UNCHANGED <<path, topology, pivot>>,
         path \in Nat, topology \in Seq(SUBSET Aspects),
         \A what \in Offers : Decided(what) => Decided(what)',
         \A what \in Offers, p \in 1 .. Len(topology) :
           <<what, p>> \in offered' <=>
             \/ <<what, p>> \in offered
             \/ p = path /\ ~Decided(what) /\ Decided(what)' /\ Open(what, p)
  PROVE  OfferedSoFar'
<1> SUFFICES ASSUME NEW p \in 1 .. Len(topology), NEW what \in Offers
             PROVE  <<what, p>> \in offered' <=>
                      Open(what, p)' /\ (p < path \/ (p = path /\ Decided(what)'))
  BY DEF OfferedSoFar
<1>1. Open(what, p)' <=> Open(what, p)
  BY DEF Open
<1>2. <<what, p>> \in offered <=> Open(what, p) /\ (p < path \/ (p = path /\ Decided(what)))
  BY DEF OfferedSoFar
<1>3. p < path => p # path
  OBVIOUS
<1> QED
  BY <1>1, <1>2, <1>3
\* The topology and the modes of a set, whatever the step of the enumeration.
LEMMA InputsStay ==
  ASSUME OfferIInv, VidPnNext
  PROVE  /\ topology' \in Seq(SUBSET Aspects)
         /\ modes' \subseteq ({post} \union Fitting)'
<1> USE DEF inputVars
<1>0. ({post} \union Fitting)' = {post} \union Fitting
  BY EnumerationStays DEF Fitting, Stops
<1>1. topology \in Seq(SUBSET Aspects) /\ modes \subseteq {post} \union Fitting
  BY DEF OfferIInv
<1>2. CASE EnumVidPnCofuncModality
  <2>1. PICK n \in 1 .. Views : topology' \in [1 .. n -> SUBSET Aspects]
    BY <1>2 DEF EnumVidPnCofuncModality
  <2>2. n \in Nat
    BY ViewsAssumption
  <2>3. topology' \in Seq(SUBSET Aspects)
    BY <2>1, <2>2
  <2> QED
    BY <1>0, <1>1, <1>2, <2>3 DEF EnumVidPnCofuncModality
<1>3. CASE AcquireFirstPath
  BY <1>0, <1>1, <1>3 DEF AcquireFirstPath
<1>4. ASSUME NEW side \in {"source", "target"},
             \/ AcquireModeSet(side) \/ AcquirePinnedMode(side)
             \/ DropModeSet(side) \/ CreateModeSet(side) \/ AssignModeSet(side)
             \/ ReleasePinnedMode(side) \/ ReleaseModeSet(side)
      PROVE  topology' \in Seq(SUBSET Aspects) /\ modes' \subseteq ({post} \union Fitting)'
  BY <1>0, <1>1, <1>4 DEF AcquireModeSet, AcquirePinnedMode, DropModeSet,
     CreateModeSet, AssignModeSet, ReleasePinnedMode, ReleaseModeSet
<1>5. CASE AddSingleSourceMode
  <2>1. modes' \subseteq {post} \union Fitting /\ topology' = topology
    BY <1>5 DEF AddSingleSourceMode
  <2> QED
    BY <1>0, <1>1, <2>1
<1>6. CASE AddSingleTargetMode \/ UpdatePathSupport
  BY <1>0, <1>1, <1>6 DEF AddSingleTargetMode, UpdatePathSupport
<1>7. CASE AcquireNextPath \/ NextPathFails \/ ReleaseLastPath \/ CallFails
  BY <1>0, <1>1, <1>7 DEF AcquireNextPath, NextPathFails, ReleaseLastPath, CallFails
<1>8. CASE CleanUp
  <2>1. <<>> \in Seq(SUBSET Aspects)
    OBVIOUS
  <2> QED
    BY <1>8, <2>1 DEF CleanUp
<1> QED
  BY <1>2, <1>3, <1>4, <1>5, <1>6, <1>7, <1>8 DEF VidPnNext

\* A step within the loop, at one path.
LEMMA OfferStays ==
  ASSUME OfferIInv, VidPnNext, InLoop, InLoop', UNCHANGED <<path, topology, pivot>>,
         \A what \in Offers : Decided(what) => Decided(what)',
         \A what \in Offers, p \in 1 .. Len(topology) :
           <<what, p>> \in offered' <=>
             \/ <<what, p>> \in offered
             \/ p = path /\ ~Decided(what) /\ Decided(what)' /\ Open(what, p),
         Place' = "target" => ~IsPivot("target"),
         \A side \in {"source", "target"} :
           pc' \in {side} \X {"drop", "create", "add", "assign"}
             => ~Pinned(side) /\ ~IsPivot(side),
         pc' = <<"releasePath">> => ("path" \in has' <=> path < Len(topology))
  PROVE  OfferIInv'
<1>1. topology \in Seq(SUBSET Aspects) /\ path \in 1 .. Len(topology) /\ OfferedSoFar
  BY DEF OfferIInv
<1>2. path \in Nat
  BY <1>1
<1>3. OfferedSoFar'
  BY <1>1, <1>2, OfferedMore
<1>4. pc' # <<"exit">> /\ Place' # "firstPath"
  BY DEF InLoop, Place
<1>5. \A what : (Pinned(what)' <=> Pinned(what)) /\ (IsPivot(what)' <=> IsPivot(what))
  BY DEF Pinned, IsPivot
<1> QED
  BY <1>1, <1>3, <1>4, <1>5, InputsStay DEF OfferIInv
\* Before the modes of a side are there, nothing is decided; then, at the place
\* where the loop goes on, what was to be offered has been.
LEMMA DecidedAt ==
  /\ pc \in {"source"} \X ModeSteps => \A what \in Offers : ~Decided(what)
  /\ pc \in {"target"} \X ModeSteps => \A what \in Offers : Decided(what) <=> what = "source"
  /\ Place \in {"source", "target"} /\ pc[2] \in {"releaseMode", "releaseSet"}
       => \A what \in Offers : Decided(what) <=> what # "scaling"
  /\ pc = <<"support">> => \A what \in Offers : Decided(what) <=> what # "scaling"
  /\ pc \in {<<"nextPath">>, <<"releasePath">>} => \A what \in Offers : Decided(what)
<1>1. CASE pc \in {"source"} \X ModeSteps
  BY <1>1 DEF Decided, Offers, Place, ModeSteps
<1>2. CASE pc \in {"target"} \X ModeSteps
  BY <1>2 DEF Decided, Offers, Place, ModeSteps
<1>3. ASSUME Place \in {"source", "target"}, pc[2] \in {"releaseMode", "releaseSet"}
      PROVE  \A what \in Offers : Decided(what) <=> what # "scaling"
  BY <1>3 DEF Decided, Offers, Place, ModeSteps
<1>4. CASE pc = <<"support">>
  BY <1>4 DEF Decided, Offers, Place, ModeSteps
<1>5. CASE pc \in {<<"nextPath">>, <<"releasePath">>}
  BY <1>5 DEF Decided, Offers, Place, ModeSteps
<1> QED
  BY <1>1, <1>2, <1>3, <1>4, <1>5 DEF Place, ModeSteps

\* From one step of the modes of a side to the next.
LEMMA OfferModeStep ==
  ASSUME OfferIInv, VidPnNext, NEW side \in {"source", "target"},
         \/ AcquireModeSet(side) \/ DropModeSet(side) \/ CreateModeSet(side)
         \/ AcquirePinnedMode(side) /\ ~Pinned(side) /\ ~IsPivot(side)
         \/ side = "source" /\ AddSingleSourceMode
         \/ side = "target" /\ AddSingleTargetMode
  PROVE  OfferIInv'
<1> USE DEF inputVars, ModeSteps, Place
<1>1. /\ pc \in {side} \X ModeSteps /\ pc' \in {side} \X ModeSteps
      /\ UNCHANGED <<path, topology, pivot, offered>>
      /\ pc[2] \in {"acquire", "pinned"} => pc' = <<side, "pinned">> \/ (~Pinned(side) /\ ~IsPivot(side))
  BY DEF AcquireModeSet, DropModeSet, CreateModeSet, AcquirePinnedMode,
     AddSingleSourceMode, AddSingleTargetMode
<1>2. InLoop /\ InLoop' /\ Place' = Place /\ Place = side
  BY <1>1 DEF InLoop
<1>3. \A what \in Offers : Decided(what) <=> Decided(what)'
  BY <1>1 DEF Decided
<1>4. pc \in {side} \X {"drop", "create", "add", "assign"} => ~Pinned(side) /\ ~IsPivot(side)
  BY DEF OfferIInv
<1>5. \A s \in {"source", "target"} :
           pc' \in {s} \X {"drop", "create", "add", "assign"} => ~Pinned(s) /\ ~IsPivot(s)
  BY <1>1, <1>4
<1>6. Place' = "target" => ~IsPivot("target")
  BY <1>2 DEF OfferIInv
<1>7. pc' # <<"releasePath">>
  BY <1>1
<1> QED
  BY <1>1, <1>2, <1>3, <1>5, <1>6, <1>7, OfferStays

\* The modes of a side are done: assigned, or there is no need for them.
LEMMA OfferModesDone ==
  ASSUME OfferIInv, VidPnNext, NEW side \in {"source", "target"},
         \/ AssignModeSet(side)
         \/ AcquirePinnedMode(side) /\ (Pinned(side) \/ IsPivot(side))
  PROVE  OfferIInv'
<1> USE DEF inputVars
<1>1. /\ pc \in {<<side, "assign">>, <<side, "pinned">>}
      /\ UNCHANGED <<path, topology, pivot>>
      /\ pc' = AfterModes(side) \/ (side = "target" /\ pc' = <<"target", "releaseMode">>)
  BY DEF AssignModeSet, AcquirePinnedMode
<1>2. offered' = offered \union {o \in {<<side, path>>} : Open(side, path)}
  <2>1. CASE AssignModeSet(side)
    <3>1. ~Pinned(side) /\ ~IsPivot(side)
      BY <2>1 DEF OfferIInv, AssignModeSet
    <3> QED
      BY <2>1, <3>1 DEF AssignModeSet, Open, Pinned, IsPivot
  <2>2. CASE AcquirePinnedMode(side) /\ (Pinned(side) \/ IsPivot(side))
    BY <2>2 DEF AcquirePinnedMode, Open, Pinned, IsPivot
  <2> QED
    BY <2>1, <2>2
<1>3. pc \in {side} \X ModeSteps
  BY <1>1 DEF ModeSteps
<1>4. InLoop /\ InLoop'
  BY <1>1, <1>3 DEF InLoop, Place, AfterModes
<1>5. side = "target" => ~IsPivot("target")
  BY <1>3 DEF OfferIInv, Place
<1>6. CASE side = "source" /\ ~IsPivot("target")
  <2>1. pc' = <<"target", "acquire">>
    BY <1>1, <1>6 DEF AfterModes
  <2>2. \A what \in Offers : ~Decided(what) /\ (Decided(what)' <=> what = "source")
    BY <1>3, <1>6, <2>1, DecidedAt DEF Decided, Offers, ModeSteps
  <2>3. \A what \in Offers, p \in 1 .. Len(topology) :
          <<what, p>> \in offered' <=>
             \/ <<what, p>> \in offered
             \/ p = path /\ ~Decided(what) /\ Decided(what)' /\ Open(what, p)
    BY <1>2, <1>6, <2>2
  <2> QED
    BY <1>1, <1>4, <1>6, <2>1, <2>2, <2>3, OfferStays DEF Place
<1>7. CASE side = "target" \/ IsPivot("target")
  <2>1. /\ pc' \in {<<"source", "releaseMode">>, <<"target", "releaseMode">>}
        /\ pc' = <<"source", "releaseMode">> \/ side = "target"
    BY <1>1, <1>7 DEF AfterModes
  <2>2. \A what \in Offers : Decided(what)' <=> what # "scaling"
    BY <2>1 DEF Decided, Offers, ModeSteps
  <2>3. \A what \in Offers : Decided(what) <=> what = "source" /\ side = "target"
    BY <1>3, DecidedAt DEF Offers
  <2>4. IsPivot("target") => side = "source" /\ ~Open("target", path)
    BY <1>5 DEF Open, IsPivot
  <2>5. \A what \in Offers, p \in 1 .. Len(topology) :
          <<what, p>> \in offered' <=>
             \/ <<what, p>> \in offered
             \/ p = path /\ ~Decided(what) /\ Decided(what)' /\ Open(what, p)
    BY <1>2, <1>7, <2>2, <2>3, <2>4 DEF Offers
  <2> QED
    BY <1>1, <1>4, <1>5, <2>1, <2>2, <2>3, <2>5, OfferStays DEF Place
<1> QED
  BY <1>6, <1>7
\* What was held for the modes is given back.
LEMMA OfferModesReleased ==
  ASSUME OfferIInv, VidPnNext, NEW side \in {"source", "target"},
         ReleasePinnedMode(side) \/ ReleaseModeSet(side)
  PROVE  OfferIInv'
<1> USE DEF inputVars
<1>1. /\ pc \in {<<side, "releaseMode">>, <<side, "releaseSet">>}
      /\ UNCHANGED <<path, topology, pivot, offered>>
      /\ pc' \in {<<side, "releaseSet">>, <<"source", "releaseMode">>, <<"support">>}
  BY DEF ReleasePinnedMode, ReleaseModeSet
<1>2. InLoop /\ InLoop' /\ (Place' = "target" => Place = "target")
  BY <1>1 DEF InLoop, Place
<1>3. \A what \in Offers : (Decided(what) <=> what # "scaling") /\ (Decided(what)' <=> what # "scaling")
  BY <1>1 DEF Decided, Offers, ModeSteps
<1>4. Place' = "target" => ~IsPivot("target")
  BY <1>2 DEF OfferIInv
<1>5. /\ pc' # <<"releasePath">>
      /\ \A s \in {"source", "target"} : pc' \notin {s} \X {"drop", "create", "add", "assign"}
  BY <1>1
<1> QED
  BY <1>1, <1>2, <1>3, <1>4, <1>5, OfferStays

\* Scaling is offered where it is open, and the next path is asked for.
LEMMA OfferPathEnds ==
  ASSUME OfferIInv, VidPnNext, UpdatePathSupport \/ AcquireNextPath
  PROVE  OfferIInv'
<1> USE DEF inputVars
<1>1. CASE UpdatePathSupport
  <2>1. /\ pc = <<"support">> /\ pc' = <<"nextPath">>
        /\ UNCHANGED <<path, topology, pivot>>
    BY <1>1 DEF UpdatePathSupport
  <2>2. InLoop /\ InLoop' /\ Place' = "nextPath"
    BY <2>1 DEF InLoop, Place
  <2>3. \A what \in Offers : (Decided(what) <=> what # "scaling") /\ Decided(what)'
    BY <2>1 DEF Decided, Offers, ModeSteps
  <2>4. OffersScaling <=> Open("scaling", path)
    BY DEF OffersScaling, Open, Pinned, IsPivot
  <2>5. \A what \in Offers, p \in 1 .. Len(topology) :
          <<what, p>> \in offered' <=>
             \/ <<what, p>> \in offered
             \/ p = path /\ ~Decided(what) /\ Decided(what)' /\ Open(what, p)
    BY <1>1, <2>3, <2>4 DEF UpdatePathSupport, Offers
  <2> QED
    BY <2>1, <2>2, <2>3, <2>5, OfferStays
<1>2. CASE AcquireNextPath
  <2>1. /\ pc = <<"nextPath">> /\ pc' = <<"releasePath">>
        /\ UNCHANGED <<path, topology, pivot, offered>>
        /\ "path" \in has' <=> path < Len(topology)
    BY <1>2 DEF AcquireNextPath, Leave
  <2>2. InLoop /\ InLoop' /\ Place' = "releasePath"
    BY <2>1 DEF InLoop, Place
  <2>3. \A what \in Offers : Decided(what) /\ Decided(what)'
    BY <2>1 DEF Decided, Offers, ModeSteps
  <2> QED
    BY <2>1, <2>2, <2>3, OfferStays
<1> QED
  BY <1>1, <1>2

\* From one path to the next: what is decided of the one is all there is.
LEMMA OfferNextPath ==
  ASSUME OfferIInv, VidPnNext, ReleaseLastPath
  PROVE  OfferIInv'
<1> USE DEF inputVars
<1>1. pc = <<"releasePath">> /\ UNCHANGED <<topology, pivot, offered>>
  BY DEF ReleaseLastPath
<1>2. /\ path \in 1 .. Len(topology) /\ OfferedSoFar
      /\ "path" \in has <=> path < Len(topology)
      /\ Len(topology) \in Nat
  BY <1>1 DEF OfferIInv, InLoop, Place
<1>3. \A what \in Offers, p \in 1 .. Len(topology) :
        <<what, p>> \in offered <=> Open(what, p) /\ p <= path
  <2>1. \A what \in Offers : Decided(what)
    BY <1>1, DecidedAt
  <2>2. \A p \in 1 .. Len(topology) : p <= path <=> p < path \/ p = path
    BY <1>2
  <2> QED
    BY <1>2, <2>1, <2>2 DEF OfferedSoFar
<1>4. \A what, p : Open(what, p)' <=> Open(what, p)
  BY <1>1 DEF Open
<1>5. CASE "path" \in has
  <2>1. pc' = <<"source", "acquire">> /\ path' = path + 1
    BY <1>5 DEF ReleaseLastPath
  <2>2. \A what \in Offers : ~Decided(what)'
    BY <2>1 DEF Decided, Offers, ModeSteps
  <2>3. path' \in 1 .. Len(topology) /\ \A p \in 1 .. Len(topology) : p < path' <=> p <= path
    BY <1>2, <1>5, <2>1
  <2>4. OfferedSoFar'
    BY <1>1, <1>3, <1>4, <2>2, <2>3 DEF OfferedSoFar
  <2> QED
    BY <1>1, <2>1, <2>3, <2>4, InputsStay DEF OfferIInv, InLoop, Place
<1>6. CASE "path" \notin has
  <2>1. pc' = <<"exit">>
    BY <1>6 DEF ReleaseLastPath
  <2>2. \A p \in 1 .. Len(topology) : p <= path
    BY <1>2, <1>6
  <2>3. OfferedAll'
    BY <1>1, <1>3, <1>4, <2>2 DEF OfferedAll
  <2> QED
    BY <1>1, <2>1, <2>3, InputsStay DEF OfferIInv, InLoop, Place
<1> QED
  BY <1>5, <1>6

\* The enumeration begins, reaches its first path, fails or returns.
LEMMA OfferEnds ==
  ASSUME OfferIInv, VidPnNext,
         EnumVidPnCofuncModality \/ NextPathFails \/ CallFails \/ CleanUp
  PROVE  OfferIInv'
<1>1. CASE EnumVidPnCofuncModality
  <2>1. pc' = <<"firstPath">> /\ path' = 1 /\ offered' = {}
    BY <1>1 DEF EnumVidPnCofuncModality, OfferIInv, InLoop, Place
  <2>2. PICK n \in 1 .. Views : topology' \in [1 .. n -> SUBSET Aspects]
    BY <1>1 DEF EnumVidPnCofuncModality
  <2>3. topology' # <<>>
    <3>1. 1 \in DOMAIN topology' /\ 1 \notin DOMAIN <<>>
      BY <2>2, ViewsAssumption
    <3> QED
      BY <3>1
  <2> QED
    BY <2>1, <2>3, InputsStay DEF OfferIInv, InLoop, Place
<1>2. CASE NextPathFails \/ CallFails
  <2>1. pc' = <<"exit">> /\ status' = "failed"
    BY <1>2 DEF NextPathFails, CallFails
  <2> QED
    BY <2>1, InputsStay DEF OfferIInv, InLoop, Place
<1>3. CASE CleanUp
  <2>1. pc' = <<"idle">> /\ offered' = {}
    BY <1>3 DEF CleanUp
  <2> QED
    BY <2>1, InputsStay DEF OfferIInv, InLoop, Place
<1> QED
  BY <1>1, <1>2, <1>3

LEMMA OfferFirstPath ==
  ASSUME OfferIInv, VidPnNext, AcquireFirstPath
  PROVE  OfferIInv'
<1> USE DEF inputVars
<1>1. /\ pc = <<"firstPath">> /\ path = 1 /\ offered = {} /\ topology \in Seq(SUBSET Aspects)
      /\ UNCHANGED <<path, topology, pivot, offered>>
  BY DEF AcquireFirstPath, OfferIInv, InLoop, Place
<1>2. pc' = <<"source", "acquire">> /\ topology # <<>>
  BY DEF AcquireFirstPath, OfferIInv, Place
<1>3. \A what \in Offers : ~Decided(what)'
  BY <1>2 DEF Decided, Offers, ModeSteps
<1>4. Len(topology) \in Nat /\ Len(topology) # 0
  BY <1>1, <1>2
<1>5. path \in 1 .. Len(topology) /\ \A p \in 1 .. Len(topology) : ~(p < path)
  BY <1>1, <1>4
<1>6. OfferedSoFar'
  BY <1>1, <1>3, <1>5 DEF OfferedSoFar
<1> QED
  BY <1>1, <1>2, <1>5, <1>6, InputsStay DEF OfferIInv, InLoop, Place
\* A step of another call, or outside of all calls.
Elsewhere == {"idle", "remove", "commit", "present"}
LEMMA OfferQuiet ==
  ASSUME OfferIInv, UNCHANGED callVars,
         UNCHANGED <<pc, has>> \/ (Place \in Elsewhere /\ Place' \in Elsewhere)
  PROVE  OfferIInv'
<1> USE DEF callVars
<1>1. Fitting' = Fitting
  BY DEF Fitting, Stops
<1>2. CASE UNCHANGED <<pc, has>>
  BY <1>1, <1>2 DEF OfferIInv, InLoop, Place, OfferedSoFar, OfferedAll, Open,
     Decided, Pinned, IsPivot
<1>3. CASE Place \in Elsewhere /\ Place' \in Elsewhere
  <2>1. topology \in Seq(SUBSET Aspects) /\ modes \subseteq {post} \union Fitting
        /\ offered = {}
    BY <1>3 DEF OfferIInv, InLoop, Elsewhere
  <2>2. /\ ~InLoop' /\ Place' \notin {"exit", "firstPath", "target"}
        /\ pc' # <<"exit">> /\ pc' # <<"releasePath">>
        /\ \A side \in {"source", "target"} :
             pc' \notin {side} \X {"drop", "create", "add", "assign"}
    BY <1>3 DEF InLoop, Place, Elsewhere
  <2> QED
    BY <1>1, <2>1, <2>2 DEF OfferIInv
<1> QED
  BY <1>2, <1>3

LEMMA OfferElsewhere ==
  ASSUME OfferIInv, DisplayNext, ~Enumerates
  PROVE  OfferIInv'
<1> USE DEF vidPnVars, Place, Elsewhere
<1>1. CASE StartDevice \/ StartDeviceFails \/ StopDevice
           \/ StopDeviceAndReleasePostDisplayOwnership
  BY <1>1, OfferQuiet DEF StartDevice, StartDeviceFails, StopDevice,
     StopDeviceAndReleasePostDisplayOwnership, callVars, dmmVars
<1>2. CASE RemoveDevice \/ DestructorReturns
  BY <1>2, OfferQuiet DEF RemoveDevice, DestructorReturns, QuietCall, Called
<1>3. CASE AddDevice \/ SourceVisibility
  BY <1>3, OfferQuiet DEF AddDevice, SourceVisibility, callVars, dmmVars
<1>4. CASE SetPowerState \/ UpdateActiveVidPnPresentPath
  BY <1>4, OfferQuiet DEF SetPowerState, UpdateActiveVidPnPresentPath, callVars, dmmVars
<1>5. CASE Commits
  <2>1. Place' \in {"commit", "idle"} /\ Place \in {"commit", "idle"}
    BY <1>5, CommitStays DEF ActiveCall, QuietCall, Called
  <2>2. CASE CommitVidPn \/ CommitNoPath \/ CommitSourceModeSet \/ CommitPinnedMode
    BY <2>1, <2>2, OfferQuiet DEF CommitVidPn, CommitNoPath, CommitSourceModeSet,
       CommitPinnedMode
  <2>3. CASE CommitUnmap \/ CommitPathInfo \/ SetSourceModeAndPath \/ MapFrameBufferFails
    BY <2>1, <2>3, OfferQuiet DEF CommitUnmap, CommitPathInfo, SetSourceModeAndPath,
       MapFrameBufferFails
  <2>4. CASE CommitReleasePath \/ CommitFails \/ CommitReturns
    BY <2>1, <2>4, OfferQuiet DEF CommitReleasePath, CommitFails, CommitReturns
  <2> QED
    BY <1>5, <2>2, <2>3, <2>4 DEF Commits
<1>6. CASE PresentNothing \/ PresentFails
  BY <1>6, OfferQuiet DEF PresentNothing, PresentFails, displayVars, callVars, dmmVars
<1>7. CASE PresentSynch \/ PresentAsynch
  BY <1>7, OfferQuiet DEF PresentSynch, PresentAsynch, Presents, Called
<1>8. CASE PresentReturns
  BY <1>8, OfferQuiet DEF PresentReturns, PresentDraws, PresentThreadStarted,
     PresentResumesThread
<1>9. ASSUME NEW k \in 1 .. MaxPresents, Worker(k)
      PROVE  OfferIInv'
  BY <1>9, OfferQuiet DEF Worker, WorkerStarts, WorkerGoesOn, WorkerDraws,
     ReportPresentProgress, WorkerExits, callVars, dmmVars
<1> QED
  BY <1>1, <1>2, <1>3, <1>4, <1>5, <1>6, <1>7, <1>8, <1>9 DEF DisplayNext

LEMMA OfferStep == OfferIInv /\ [DisplayNext]_displayVars => OfferIInv'
<1> SUFFICES ASSUME OfferIInv, [DisplayNext]_displayVars PROVE OfferIInv'
  OBVIOUS
<1>1. CASE Enumerates
  <2>1. VidPnNext
    BY <1>1 DEF Enumerates
  <2>2. ASSUME NEW side \in {"source", "target"}, AcquirePinnedMode(side)
        PROVE  OfferIInv'
    BY <2>1, <2>2, OfferModeStep, OfferModesDone
  <2> QED
    BY <2>1, <2>2, OfferModeStep, OfferModesDone, OfferModesReleased,
       OfferPathEnds, OfferNextPath, OfferEnds, OfferFirstPath DEF VidPnNext
<1>2. CASE DisplayNext /\ ~Enumerates
  BY <1>2, OfferElsewhere
<1>3. CASE UNCHANGED displayVars
  BY <1>3, OfferQuiet DEF displayVars, vidPnVars, callVars, dmmVars
<1> QED
  BY <1>1, <1>2, <1>3

\* OffersWhatIsOpen, for any number of paths, any topology and any table of
\* sizes that is sorted as that of the driver is.
THEOREM OffersWhatIsOpenTheorem ==
  ASSUME Sorted
  PROVE  DisplaySafety => []OffersWhatIsOpen
<1>1. OfferIInv /\ ModeIInv => OffersWhatIsOpen
  <2> SUFFICES ASSUME OfferIInv, ModeIInv, pc = <<"exit">>, status = "success"
               PROVE  OffersWhatIsOpen
    BY DEF OffersWhatIsOpen
  <2>1. post \in PostModes
    BY DEF ModeIInv
  <2>2. \A m \in modes : Width(m) <= Width(post) /\ Height(m) <= Height(post)
    BY <2>1, SizesFit DEF OfferIInv, Sizes
  <2>3. OfferedAll
    BY DEF OfferIInv
  <2>4. Fitting = {m \in {SampleModes[i] : i \in DOMAIN SampleModes} :
                     /\ Width(m) <= Width(post) /\ Height(m) <= Height(post)
                     /\ m # post}
    BY <2>1, FittingIsAll
  <2> QED
    BY <2>2, <2>3, <2>4 DEF OffersWhatIsOpen, OfferedAll, Open, Offers
<1>2. OfferIInv /\ [DisplayNext]_displayVars => OfferIInv'
  BY OfferStep
<1> QED
  BY <1>1, <1>2, InitOffer, ModeInvariant, PTL DEF DisplaySafety
-----------------------------------------------------------------------------
(* Who waits for whom.  With one present outstanding at a time, as Windows     *)
(* has it, the one event under which threads go on is set for one thread only. *)
OneOutstanding == MaxOutstanding = 1

\* The event is set for the remembered thread until that goes on, and a present
\* begins when every thread before it has reported.
WaitIInv ==
  /\ Place = "present" =>
       /\ presents \in DOMAIN jobs /\ thread # presents /\ ~suspend
       /\ thread \in DOMAIN jobs => jobs[thread].stage = "exiting"
       /\ IF pc \in ForThread THEN Waiting(presents) ELSE jobs[presents].stage = "inline"
  /\ Place # "present" => \A n \in DOMAIN jobs : Waiting(n) => suspend
  /\ suspend => thread \in DOMAIN jobs /\ Waiting(thread)
  /\ \A n \in DOMAIN jobs : jobs[n].stage \notin {"inline", "created"} => startup

LEMMA InitWait == DisplayInit => WaitIInv
  BY DEF DisplayInit, VidPnInit, WaitIInv, Place

\* Steps outside of a present that leave threads and events alone.
LEMMA WaitIdle ==
  ASSUME WaitIInv, UNCHANGED <<jobs, thread>>, suspend' <=> suspend, startup' <=> startup,
         Place # "present", Place' # "present"
  PROVE  WaitIInv'
  BY DEF WaitIInv, Waiting

\* A new present finds at most one thread, and that has reported.
LEMMA NothingWaits ==
  ASSUME OneOutstanding, ThreadIInv, WaitIInv, Presents
  PROVE  /\ Place = "idle" /\ ~suspend /\ thread \in Nat /\ thread <= presents
         /\ \A n \in DOMAIN jobs : n = thread /\ jobs[n].stage = "exiting"
<1>1. Place = "idle"
  BY DEF Presents, Called, Place
<1>2. Outstanding = {}
  <2>1. DOMAIN jobs \subseteq 1 .. presents /\ presents \in Nat
    BY DEF ThreadIInv
  <2>2. IsFiniteSet(Outstanding)
    <3>1. Outstanding \subseteq 1 .. presents
      BY <2>1 DEF Outstanding
    <3>2. 1 \in Int /\ presents \in Int
      BY <2>1
    <3>3. IsFiniteSet(1 .. presents)
      BY <3>2, FS_Interval
    <3> QED
      BY <3>1, <3>3, FS_Subset
  <2>3. Cardinality(Outstanding) \in Nat /\ Cardinality(Outstanding) < 1
    BY <2>2, FS_CardinalityType DEF Presents, OneOutstanding
  <2> QED
    BY <2>2, <2>3, FS_EmptySet
<1>3. \A n \in DOMAIN jobs : n = thread /\ jobs[n].stage = "exiting"
  BY <1>1, <1>2 DEF Outstanding, ThreadIInv
<1> QED
  BY <1>1, <1>3 DEF WaitIInv, Waiting, ThreadIInv

LEMMA WaitPresents ==
  ASSUME OneOutstanding, ThreadIInv, WaitIInv, PresentSynch \/ PresentAsynch
  PROVE  WaitIInv'
<1>1. /\ Presents /\ UNCHANGED thread /\ presents' = presents + 1
      /\ suspend' <=> suspend
      /\ startup' <=> startup
  BY DEF PresentSynch, PresentAsynch, NewJob
<1>2. PICK stage, turn :
        /\ jobs' = [n \in DOMAIN jobs \union {presents'} |->
                      IF n = presents' THEN Context(turn, stage) ELSE jobs[n]]
        /\ \/ stage = "inline" /\ pc' = <<"present", "draw">>
           \/ stage = "created" /\ pc' = <<"present", "startup">>
  BY DEF PresentSynch, PresentAsynch, NewJob
<1>3. Context(turn, stage).stage = stage
  BY DEF Context
<1>4. /\ DOMAIN jobs' = DOMAIN jobs \union {presents'} /\ jobs'[presents'].stage = stage
      /\ \A n \in DOMAIN jobs : n # presents' => jobs'[n] = jobs[n]
  BY <1>2, <1>3
<1>5. presents \in Nat /\ thread # presents'
  BY <1>1, NothingWaits DEF ThreadIInv
<1>6. Place' = "present"
  BY <1>2 DEF Place
<1>7. \A n \in DOMAIN jobs' : jobs'[n].stage \notin {"inline", "created"} => startup'
  BY <1>1, <1>2, <1>4 DEF WaitIInv
<1>8. thread' \in DOMAIN jobs' => jobs'[thread'].stage = "exiting"
  BY <1>1, <1>4, <1>5, NothingWaits
<1>9. (IF pc \in ForThread THEN Waiting(presents) ELSE jobs[presents].stage = "inline")'
  BY <1>2, <1>4 DEF ForThread, Waiting
<1> QED
  BY <1>1, <1>4, <1>5, <1>6, <1>7, <1>8, <1>9, NothingWaits DEF WaitIInv

LEMMA WaitReturns ==
  ASSUME ThreadIInv, WaitIInv, PresentReturns
  PROVE  WaitIInv'
<1>1. CASE PresentDraws
  <2>1. PICK n \in DOMAIN jobs : jobs[n].stage = "inline" /\ Gone(n)
    BY <1>1 DEF PresentDraws
  <2>2. /\ DOMAIN jobs' = DOMAIN jobs \ {n}
        /\ \A m \in DOMAIN jobs' : jobs'[m] = jobs[m]
    BY <2>1 DEF Gone
  <2>3. /\ Place = "present" /\ Place' = "idle" /\ UNCHANGED thread
        /\ suspend' <=> suspend
        /\ startup' <=> startup
    BY <1>1 DEF PresentDraws, Place
  <2>4. \A m \in DOMAIN jobs' : m = thread /\ jobs[m].stage = "exiting"
    BY <2>1, <2>2, <2>3 DEF ThreadIInv, WaitIInv
  <2> QED
    BY <2>2, <2>3, <2>4 DEF WaitIInv, Waiting
<1>2. CASE PresentThreadStarted
  <2>1. UNCHANGED <<jobs, thread, presents>> /\ Place = "present" /\ Place' = "present"
        /\ pc \in ForThread /\ pc' \in ForThread
    BY <1>2 DEF PresentThreadStarted, Place, ForThread, bltVars
  <2>2. (suspend' <=> suspend) /\ (startup' <=> startup)
    BY <1>2 DEF PresentThreadStarted, bltVars
  <2> QED
    BY <2>1, <2>2 DEF WaitIInv, Waiting
<1>3. CASE PresentResumesThread
  <2>1. /\ UNCHANGED <<jobs, presents>> /\ Place = "present" /\ Place' = "idle"
        /\ pc \in ForThread /\ thread' = presents /\ suspend' = TRUE
        /\ startup' <=> startup
    BY <1>3 DEF PresentResumesThread, Place, ForThread
  <2> QED
    BY <2>1 DEF WaitIInv, Waiting
<1> QED
  BY <1>1, <1>2, <1>3 DEF PresentReturns

LEMMA WaitWorker ==
  ASSUME ThreadIInv, WaitIInv, NEW k \in 1 .. MaxPresents, Worker(k)
  PROVE  WaitIInv'
<1>1. k \in DOMAIN jobs /\ UNCHANGED <<presents, thread, pc>> /\ Place' = Place
  BY DEF Worker, WorkerStarts, WorkerGoesOn, WorkerDraws,
     ReportPresentProgress, WorkerExits, vidPnVars, Place
<1>2. CASE WorkerExits(k)
  <2>1. /\ jobs[k].stage = "exiting"
        /\ DOMAIN jobs' = DOMAIN jobs \ {k}
        /\ \A m \in DOMAIN jobs' : jobs'[m] = jobs[m]
        /\ suspend' <=> suspend
        /\ startup' <=> startup
    BY <1>2 DEF WorkerExits, Gone
  <2>2. Place = "present" => k # presents
    BY <2>1 DEF WaitIInv, Waiting
  <2>3. suspend => k # thread
    BY <2>1 DEF WaitIInv, Waiting
  <2> QED
    BY <1>1, <2>1, <2>2, <2>3 DEF WaitIInv, Waiting
<1>3. ASSUME NEW from, NEW to \in {"started", "drawing", "reporting", "exiting"}, AtStage(k, from, to)
      PROVE  /\ jobs[k].stage = from
             /\ DOMAIN jobs' = DOMAIN jobs /\ jobs'[k].stage = to
             /\ \A m \in DOMAIN jobs : m # k => jobs'[m] = jobs[m]
  BY <1>1, <1>3 DEF AtStage
<1>4. CASE WorkerStarts(k)
  <2>1. /\ jobs[k].stage = "created" /\ jobs'[k].stage = "started"
        /\ DOMAIN jobs' = DOMAIN jobs
        /\ \A m \in DOMAIN jobs : m # k => jobs'[m] = jobs[m]
    BY <1>3, <1>4 DEF WorkerStarts
  <2>2. startup' = TRUE /\ (suspend' <=> suspend)
    BY <1>4 DEF WorkerStarts
  <2>3. \A m \in DOMAIN jobs : Waiting(m)' <=> Waiting(m)
    BY <2>1 DEF Waiting
  <2>4. Place = "present" =>
          k # thread /\ (jobs[presents].stage = "inline" => k # presents)
    BY <1>1, <2>1 DEF WaitIInv
  <2>5. (Place = "present")' =>
          /\ presents' \in DOMAIN jobs' /\ thread' # presents' /\ ~suspend'
          /\ thread' \in DOMAIN jobs' => jobs'[thread'].stage = "exiting"
    BY <1>1, <2>1, <2>2, <2>4 DEF WaitIInv, Place
  <2>6. (Place = "present")' =>
          IF pc' \in ForThread THEN Waiting(presents)' ELSE jobs'[presents'].stage = "inline"
    BY <1>1, <2>1, <2>3, <2>4 DEF WaitIInv, Place, Waiting
  <2>7. (Place # "present")' => \A n \in DOMAIN jobs' : Waiting(n)' => suspend'
    BY <1>1, <2>1, <2>2, <2>3 DEF WaitIInv, Place
  <2>8. suspend' => thread' \in DOMAIN jobs' /\ Waiting(thread)'
    BY <1>1, <2>1, <2>2, <2>3 DEF WaitIInv, Waiting
  <2> QED
    BY <2>2, <2>5, <2>6, <2>7, <2>8 DEF WaitIInv, ForThread
<1>5. CASE WorkerGoesOn(k)
  <2>1. /\ jobs[k].stage = "started" /\ jobs'[k].stage = "drawing"
        /\ DOMAIN jobs' = DOMAIN jobs
        /\ \A m \in DOMAIN jobs : m # k => jobs'[m] = jobs[m]
    BY <1>3, <1>5 DEF WorkerGoesOn
  <2>2. suspend = TRUE /\ suspend' = FALSE /\ (startup' <=> startup)
    BY <1>5 DEF WorkerGoesOn
  <2>3. Place # "present"
    BY <2>2 DEF WaitIInv
  <2>4. \A m \in DOMAIN jobs : m = k
    BY <1>1, <2>3 DEF ThreadIInv
  <2> QED
    BY <1>1, <2>1, <2>2, <2>3, <2>4 DEF WaitIInv, Waiting
<1>6. CASE WorkerDraws(k) \/ ReportPresentProgress(k)
  <2>1. /\ jobs[k].stage \in {"drawing", "reporting"} /\ jobs'[k].stage \in {"reporting", "exiting"}
        /\ DOMAIN jobs' = DOMAIN jobs
        /\ \A m \in DOMAIN jobs : m # k => jobs'[m] = jobs[m]
    BY <1>3, <1>6 DEF WorkerDraws, ReportPresentProgress
  <2>2. (suspend' <=> suspend) /\ (startup' <=> startup)
    BY <1>6 DEF WorkerDraws, ReportPresentProgress
  <2>3. Place # "present"
    BY <1>1, <2>1 DEF WaitIInv, Waiting, ThreadIInv
  <2>4. ~suspend
    BY <1>1, <2>1, <2>3 DEF WaitIInv, Waiting, ThreadIInv
  <2> QED
    BY <1>1, <2>1, <2>2, <2>3, <2>4 DEF WaitIInv, Waiting
<1> QED
  BY <1>2, <1>4, <1>5, <1>6 DEF Worker

LEMMA WaitElsewhere ==
  ASSUME ThreadIInv, WaitIInv,
         \/ Enumerates \/ Commits
         \/ StartDevice \/ StartDeviceFails \/ StopDevice
         \/ StopDeviceAndReleasePostDisplayOwnership
         \/ RemoveDevice \/ SourceVisibility \/ SetPowerState
         \/ UpdateActiveVidPnPresentPath \/ PresentFails
  PROVE  WaitIInv'
<1>1. CASE Enumerates
  <2>1. Place # "present" /\ Place' # "present"
    BY <1>1, EnumerationStays DEF Enumerates, EnumPlaces
  <2> QED
    BY <1>1, <2>1, WaitIdle DEF Enumerates, bltVars
<1>2. CASE Commits
  <2>1. Place # "present" /\ Place' # "present"
    BY <1>2, CommitStays DEF ActiveCall, QuietCall, Called, Place
  <2> QED
    BY <1>2, <2>1, CommitStays, WaitIdle DEF bltVars
<1> USE DEF QuietCall, ActiveCall, Called, Place, vidPnVars, bltVars
<1>3. CASE StartDevice \/ StartDeviceFails \/ RemoveDevice
  BY <1>3, WaitIdle DEF StartDevice, StartDeviceFails, RemoveDevice
<1>4. CASE StopDevice \/ StopDeviceAndReleasePostDisplayOwnership
  BY <1>4, WaitIdle DEF StopDevice, StopDeviceAndReleasePostDisplayOwnership
<1>5. CASE SetPowerState
  BY <1>5, WaitIdle DEF SetPowerState
<1>6. CASE UpdateActiveVidPnPresentPath
  BY <1>6, WaitIdle DEF UpdateActiveVidPnPresentPath
<1>7. CASE SourceVisibility
  <2>1. ActiveCall /\ UNCHANGED <<vidPnVars, bltVars>>
    BY <1>7 DEF SourceVisibility
  <2> QED
    BY <2>1, WaitIdle
<1>8. CASE PresentFails
  BY <1>8, WaitIdle DEF PresentFails, Presents
<1> QED
  BY <1>1, <1>2, <1>3, <1>4, <1>5, <1>6, <1>7, <1>8

LEMMA WaitStep ==
  OneOutstanding /\ ThreadIInv /\ WaitIInv /\ [DisplayNext]_displayVars => WaitIInv'
<1> SUFFICES ASSUME OneOutstanding, ThreadIInv, WaitIInv, [DisplayNext]_displayVars
             PROVE  WaitIInv'
  OBVIOUS
<1>1. CASE DestructorReturns
  <2>1. /\ Place = "remove" /\ Place' = "idle" /\ UNCHANGED jobs /\ thread \notin DOMAIN jobs
        /\ suspend' <=> suspend
    BY <1>1 DEF DestructorReturns, Place
  <2>2. DOMAIN jobs = {} /\ ~suspend
    BY <2>1 DEF ThreadIInv, WaitIInv
  <2> QED
    BY <2>1, <2>2 DEF WaitIInv
<1>2. CASE AddDevice
  <2>1. /\ DOMAIN jobs = {} /\ UNCHANGED <<jobs, pc>> /\ suspend' = FALSE
    BY <1>2 DEF AddDevice, ThreadIInv, vidPnVars
  <2>2. Place' # "present"
    BY <2>1 DEF WaitIInv, Place
  <2> QED
    BY <2>1, <2>2 DEF WaitIInv
<1>3. CASE PresentNothing \/ UNCHANGED displayVars
  BY <1>3 DEF PresentNothing, displayVars, vidPnVars, bltVars, WaitIInv, Place, Waiting
<1>4. CASE PresentSynch \/ PresentAsynch
  BY <1>4, WaitPresents
<1>5. CASE PresentReturns
  BY <1>5, WaitReturns
<1>6. ASSUME NEW k \in 1 .. MaxPresents, Worker(k)
      PROVE  WaitIInv'
  BY <1>6, WaitWorker
<1> QED
  BY <1>1, <1>2, <1>3, <1>4, <1>5, <1>6, WaitElsewhere DEF DisplayNext

\* What PresentIsReported needs to be safe from: no present, no destructor and
\* no thread is ever left to wait for something that nobody will do, for any
\* number of presents (StartHwBltPresentWorkerThread, HwContextWorkerThread).
\* With a second present outstanding its thread could take the event that was
\* set for the first one's.
THEOREM EveryWaitEndsTheorem ==
  ASSUME OneOutstanding
  PROVE  DisplaySafety => []EveryWaitEnds
<1>1. ThreadIInv /\ WaitIInv => EveryWaitEnds
  <2> SUFFICES ASSUME ThreadIInv, WaitIInv PROVE EveryWaitEnds
    OBVIOUS
  <2>1. CASE Place = "present"
    <3>1. pc # <<"remove">>
      BY <2>1 DEF Place
    <3>2. pc = <<"present", "startup">> =>
            startup \/ (presents \in DOMAIN jobs /\ jobs[presents].stage = "created")
      BY <2>1 DEF WaitIInv, Waiting, ForThread
    <3>3. \A n \in DOMAIN jobs : Waiting(n) => n = presents /\ pc \in ForThread
      BY <2>1 DEF WaitIInv, ThreadIInv, Waiting
    <3> QED
      BY <2>1, <3>1, <3>2, <3>3 DEF EveryWaitEnds, WaitIInv
  <2>2. CASE Place # "present"
    BY <2>2 DEF EveryWaitEnds, WaitIInv, Place
  <2> QED
    BY <2>1, <2>2
<1>2. ThreadIInv /\ WaitIInv /\ [DisplayNext]_displayVars => WaitIInv'
  BY WaitStep
<1> QED
  BY <1>1, <1>2, InitWait, ThreadInvariant, PTL DEF DisplaySafety

=============================================================================
