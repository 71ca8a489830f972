-------------------------------- MODULE VidPn --------------------------------
(* EnumVidPnCofuncModality of the display-only driver: for every path of the  *)
(* topology it offers source modes, target modes, scalings and rotations, for *)
(* whatever is not pinned and is not the pivot of the enumeration.  Every     *)
(* call of the mode manager may fail and ends the loop where it stands; what  *)
(* is then still held is given back at the end.                               *)
EXTENDS Dmm, Sequences

CONSTANTS Views,           \* MAX_VIEWS: a path has a source and a target
          PostModes,       \* sizes of the frame buffer the driver may start on
          SampleModes,     \* C_SampleSourceMode
          FailureClears    \* a failed call of the manager clears its result

ASSUME ViewsAssumption == Views \in Nat
ASSUME ModesAssumption ==
  PostModes \subseteq Nat \X Nat /\ SampleModes \in Seq(Nat \X Nat)
ASSUME FailureAssumption == FailureClears \in BOOLEAN

VARIABLES pc,          \* the next call of the manager, <<side, call>> for modes
          path,        \* the path the loop is at
          topology,    \* what is pinned on each path
          pivot,       \* what the enumeration must leave alone, and where
          post,        \* m_CurrentModes[].DispInfo: width and height
          status,      \* Status
          offered,     \* what has been offered so far, <<what, path>>
          modes        \* the sizes in the last source mode set

vidPnVars == <<pc, path, topology, pivot, post, status, offered, modes, dmmVars>>
inputVars == <<topology, pivot, post>>

Aspects == {"source", "target", "scaling", "rotation"}

NoPivot == [type |-> "none", path |-> 0]
Pivots == [type : Aspects, path : 1 .. Views] \union {NoPivot}

VidPnInit ==
  /\ DmmInit
  /\ pc = <<"idle">>
  /\ post \in PostModes
  /\ path = 0 /\ topology = <<>> /\ pivot = NoPivot
  /\ status = "success" /\ offered = {} /\ modes = {}

\* The manager asks: any topology that has a path, with any pivot.
EnumVidPnCofuncModality ==
  /\ pc = <<"idle">>
  /\ \E n \in 1 .. Views : topology' \in [1 .. n -> SUBSET Aspects]
  /\ pivot' \in Pivots
  /\ path' = 1
  /\ pc' = <<"firstPath">>
  /\ UNCHANGED <<post, status, offered, modes, dmmVars>>
-----------------------------------------------------------------------------
Set(side) == IF side = "source" THEN "sourceSet" ELSE "targetSet"
Mode(side) == IF side = "source" THEN "sourceMode" ELSE "targetMode"

Pinned(what) == what \in topology[path]
IsPivot(what) == pivot.type = what /\ pivot.path = path

\* The target modes come after the source modes, and the source set is kept
\* until both are done.
AfterModes(side) ==
  IF side = "source" /\ ~IsPivot("target") THEN <<"target", "acquire">>
                                           ELSE <<"source", "releaseMode">>

\* The loop ends at the code that says there is no next path, which the first
\* path of a topology that has one never returns: it is always entered.
AcquireFirstPath ==
  /\ pc = <<"firstPath">> /\ pc' = <<"source", "acquire">>
  /\ Acquire("path")
  /\ UNCHANGED <<path, inputVars, status, offered, modes>>

AcquireModeSet(side) ==
  /\ pc = <<side, "acquire">> /\ pc' = <<side, "pinned">>
  /\ Acquire(Set(side))
  /\ UNCHANGED <<path, inputVars, status, offered, modes>>

\* A mode that is pinned has been offered before.  A source that is the pivot
\* is left alone; a pivot target does not get here.
AcquirePinnedMode(side) ==
  /\ pc = <<side, "pinned">>
  /\ IF Pinned(side) THEN Acquire(Mode(side)) ELSE UNCHANGED dmmVars
  /\ pc' = CASE ~Pinned(side) /\ ~IsPivot(side) -> <<side, "drop">>
             [] Pinned(side) /\ side = "target" -> <<"target", "releaseMode">>
             [] OTHER -> AfterModes(side)
  /\ UNCHANGED <<path, inputVars, status, offered, modes>>

\* The set with nothing pinned makes room for a new one.
DropModeSet(side) ==
  /\ pc = <<side, "drop">> /\ pc' = <<side, "create">>
  /\ Release(Set(side))
  /\ UNCHANGED <<path, inputVars, status, offered, modes>>

CreateModeSet(side) ==
  /\ pc = <<side, "create">> /\ pc' = <<side, "add">>
  /\ Acquire(Set(side))
  /\ UNCHANGED <<path, inputVars, status, offered, modes>>

\* The loop over the table, which is sorted by width: it stops at the first
\* mode that is too wide, or as wide and not lower, and skips one too high.
Width(mode) == mode[1]
Height(mode) == mode[2]
Stops(i) == \/ Width(SampleModes[i]) > Width(post)
            \/ /\ Width(SampleModes[i]) = Width(post)
               /\ Height(SampleModes[i]) >= Height(post)
Fitting == {SampleModes[i] : i \in
             {j \in DOMAIN SampleModes : /\ \A k \in 1 .. j : ~Stops(k)
                                         /\ Height(SampleModes[j]) <= Height(post)}}

\* The required mode must go in; one of the table that is refused is left out.
AddSingleSourceMode ==
  /\ pc = <<"source", "add">> /\ pc' = <<"source", "assign">>
  /\ \E refused \in {{}} \union {{m} : m \in Fitting} :
       modes' = {post} \union (Fitting \ refused)
  /\ UNCHANGED <<path, inputVars, status, offered, dmmVars>>

AddSingleTargetMode ==
  /\ pc = <<"target", "add">> /\ pc' = <<"target", "assign">>
  /\ UNCHANGED <<path, inputVars, status, offered, modes, dmmVars>>

\* Mutation of AssignModeSet: the handle is not set to null.
AssignModeSetKeepsHandle(side) ==
  /\ pc = <<side, "assign">> /\ pc' = AfterModes(side)
  /\ held' = [held EXCEPT ![KindOf(Set(side))] = @ - 1]
  /\ offered' = offered \union {<<side, path>>}
  /\ UNCHANGED <<path, inputVars, status, modes, has>>

\* A set that is assigned belongs to the manager again.
AssignModeSet(side) ==
  /\ pc = <<side, "assign">> /\ pc' = AfterModes(side)
  /\ Release(Set(side))
  /\ offered' = offered \union {<<side, path>>}
  /\ UNCHANGED <<path, inputVars, status, modes>>

\* Mutation of ReleasePinnedMode: only a target mode is given back.
ReleasePinnedTargetMode(side) ==
  /\ pc = <<side, "releaseMode">> /\ pc' = <<side, "releaseSet">>
  /\ IF "targetMode" \in has THEN Release("targetMode") ELSE UNCHANGED dmmVars
  /\ UNCHANGED <<path, inputVars, status, offered, modes>>

ReleasePinnedMode(side) ==
  /\ pc = <<side, "releaseMode">> /\ pc' = <<side, "releaseSet">>
  /\ IF Mode(side) \in has THEN Release(Mode(side)) ELSE UNCHANGED dmmVars
  /\ UNCHANGED <<path, inputVars, status, offered, modes>>

ReleaseModeSet(side) ==
  /\ pc = <<side, "releaseSet">>
  /\ pc' = IF side = "target" THEN <<"source", "releaseMode">> ELSE <<"support">>
  /\ IF Set(side) \in has THEN Release(Set(side)) ELSE UNCHANGED dmmVars
  /\ UNCHANGED <<path, inputVars, status, offered, modes>>
-----------------------------------------------------------------------------
\* Mutation of OffersScaling: the pivot is not looked at.
OffersScalingUnlessPinned == ~Pinned("scaling")

\* Identity and centered scaling; identity and a quarter turn.  The rotation
\* is skipped where its test of the pivot type says so; a pivot names source
\* and target together only for a scaling or a rotation.
OffersScaling == ~IsPivot("scaling") /\ ~Pinned("scaling")
OffersRotation ==
  /\ ~(pivot.type # "rotation" /\ pivot.type = "scaling" /\ pivot.path = path)
  /\ ~Pinned("rotation")

UpdatePathSupport ==
  /\ pc = <<"support">> /\ pc' = <<"nextPath">>
  /\ offered' = offered \union
       {a \in {<<"scaling", path>>} : OffersScaling} \union
       {a \in {<<"rotation", path>>} : OffersRotation}
  /\ UNCHANGED <<path, inputVars, status, modes, dmmVars>>

\* The path becomes the last path; there may be no next one.
Leave(acquired) ==
  /\ has' = (has \ {"path"}) \union {"lastPath"} \union acquired
  /\ held' = [held EXCEPT !["path"] = @ + Cardinality(acquired)]

AcquireNextPath ==
  /\ pc = <<"nextPath">> /\ pc' = <<"releasePath">>
  /\ Leave(IF path < Len(topology) THEN {"path"} ELSE {})
  /\ UNCHANGED <<path, inputVars, status, offered, modes>>

NextPathFails ==
  /\ pc = <<"nextPath">> /\ pc' = <<"exit">>
  /\ has' = {"lastPath"} \union (IF FailureClears THEN {} ELSE {"path"})
  /\ status' = "failed"
  /\ UNCHANGED <<held, path, inputVars, offered, modes>>

ReleaseLastPath ==
  /\ pc = <<"releasePath">>
  /\ Release("lastPath")
  /\ IF "path" \in has
     THEN pc' = <<"source", "acquire">> /\ path' = path + 1
     ELSE pc' = <<"exit">> /\ UNCHANGED path
  /\ UNCHANGED <<inputVars, status, offered, modes>>
-----------------------------------------------------------------------------
\* Where a call of the manager is made, and may fail.
Calls ==
  \/ pc \in {<<"firstPath">>, <<"releasePath">>}
  \/ \E side \in {"source", "target"} :
       \/ pc \in {side} \X {"acquire", "pinned", "drop", "create", "add", "assign"}
       \/ pc = <<side, "releaseMode">> /\ Mode(side) \in has
       \/ pc = <<side, "releaseSet">> /\ Set(side) \in has
  \/ pc = <<"support">> /\ (OffersScaling \/ OffersRotation)

\* The loop is left at once, with what it holds.
CallFails ==
  /\ Calls
  /\ status' = "failed"
  /\ pc' = <<"exit">>
  /\ UNCHANGED <<path, inputVars, offered, modes, dmmVars>>

\* The locals of the call are gone with it.
CleanUp ==
  /\ pc = <<"exit">> /\ pc' = <<"idle">>
  /\ ReleaseAll
  /\ path' = 0 /\ topology' = <<>> /\ pivot' = NoPivot
  /\ status' = "success" /\ offered' = {} /\ modes' = {}
  /\ UNCHANGED post

VidPnNext ==
  \/ EnumVidPnCofuncModality
  \/ AcquireFirstPath
  \/ \E side \in {"source", "target"} :
       \/ AcquireModeSet(side) \/ AcquirePinnedMode(side)
       \/ DropModeSet(side) \/ CreateModeSet(side) \/ AssignModeSet(side)
       \/ ReleasePinnedMode(side) \/ ReleaseModeSet(side)
  \/ AddSingleSourceMode \/ AddSingleTargetMode
  \/ UpdatePathSupport
  \/ AcquireNextPath \/ NextPathFails \/ ReleaseLastPath
  \/ CallFails \/ CleanUp

VidPnSpec == VidPnInit /\ [][VidPnNext]_vidPnVars
=============================================================================
