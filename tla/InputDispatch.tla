---------------------------- MODULE InputDispatch ----------------------------
(***************************************************************************)
(* From a finger on the tablet to mouse and touch input on the PC.         *)
(*                                                                         *)
(* TouchCaptureView turns every MotionEvent into one message holding a     *)
(* sample for each finger on the panel.  The host's InputDispatcher takes  *)
(* the samples one by one: InputModeClassifier routes each to the cursor   *)
(* or to touch injection, and the dispatcher keeps the mouse button and    *)
(* the injected contacts in step with the routes.  Nothing of it is reset  *)
(* when the control connection is lost.                                    *)
(*                                                                         *)
(* A position is the zone it lies in.  Historical samples repeat the       *)
(* current one, and are left out with pressure, tool type and time.        *)
(***************************************************************************)
EXTENDS Naturals, Sequences, FiniteSets

CONSTANTS
    MaxPointer,     \* fingers have identities 0..MaxPointer, as Android numbers them
    MaxWire         \* bound: messages in flight

ASSUME PointerAssumption == MaxPointer \in Nat
ASSUME WireAssumption == MaxWire \in Nat

Pointers == 0..MaxPointer
Zones == {"inner", "edge"}
TouchActions == {"down", "move", "up", "cancel"}
Samples == [pointer : Pointers, action : TouchActions, zone : Zones]
Messages == SUBSET Samples

VARIABLES
    panel,              \* external: where each finger rests, "off" when it does not
    lifted,             \* history: a finger has been lifted since one last came down
    online,             \* the control connection is up
    wire,               \* messages under way, each a sample for every finger down
    intact,             \* history: no message has been lost yet
    batch,              \* what is left of the message being dispatched
    activePointers,     \* InputModeClassifier._activePointers, its keys
    previousRoute,      \* _currentRoute and _previousRoute, "none" for null
    cursorButtonDown,   \* _cursorButtonDown, and with it the left mouse button
    contacts            \* external: touch contacts Windows was told are down

tabletVars == <<panel, lifted, online, wire, intact>>
hostVars == <<batch, activePointers, previousRoute, cursorButtonDown, contacts>>
vars == <<tabletVars, hostVars>>

Init ==
    /\ panel = [p \in Pointers |-> "off"]
    /\ lifted = FALSE
    /\ online = TRUE
    /\ wire = <<>>
    /\ intact = TRUE
    /\ batch = {}
    /\ activePointers = {}
    /\ previousRoute = "none"
    /\ cursorButtonDown = FALSE
    /\ contacts = {}

OnPanel == {p \in Pointers : panel[p] # "off"}

----------------------------------------------------------------------------
(* The tablet *)

\* One sample for each finger of `resting', and all carry the action of the
\* event, whichever finger it is about.
Message(resting, action) ==
    {[pointer |-> p, action |-> action, zone |-> resting[p]] :
        p \in {q \in Pointers : resting[q] # "off"}}

\* Offline the writer drops what it is given.
SendToHost(message) ==
    /\ Len(wire) < MaxWire
    /\ wire' = IF online THEN Append(wire, message) ELSE wire
    /\ intact' = (intact /\ online)
    /\ UNCHANGED <<online, hostVars>>

\* Android gives a new finger the lowest free identity.
FingerDown ==
    \E p \in Pointers, z \in Zones :
        /\ p \notin OnPanel /\ \A q \in 0..(p - 1) : q \in OnPanel
        /\ panel' = [panel EXCEPT ![p] = z]
        /\ lifted' = FALSE
        /\ SendToHost(Message(panel', "down"))

\* Android batches the moves of any of the fingers into one event.
FingerMove ==
    \E to \in [OnPanel -> Zones] :
        /\ OnPanel # {}
        /\ panel' = [p \in Pointers |-> IF p \in OnPanel THEN to[p] ELSE "off"]
        /\ SendToHost(Message(panel', "move"))
        /\ UNCHANGED lifted

FingerUp ==
    \E p \in OnPanel :
        /\ panel' = [panel EXCEPT ![p] = "off"]
        /\ lifted' = TRUE
        /\ SendToHost(Message(panel, "up"))

\* Android takes the gesture away from the view.
GestureCancelled ==
    /\ OnPanel # {}
    /\ panel' = [p \in Pointers |-> "off"]
    /\ SendToHost(Message(panel, "cancel"))
    /\ UNCHANGED lifted

\* A stylus over the panel is sent as a move of a pointer that is not down.
StylusHovers ==
    /\ OnPanel = {}
    /\ \E z \in Zones : SendToHost({[pointer |-> 0, action |-> "move", zone |-> z]})
    /\ UNCHANGED <<panel, lifted>>

ConnectionLost ==
    /\ online
    /\ online' = FALSE
    /\ wire' = <<>>
    /\ intact' = (intact /\ wire = <<>>)
    /\ UNCHANGED <<panel, lifted, hostVars>>

ConnectionBack ==
    /\ ~online
    /\ online' = TRUE
    /\ UNCHANGED <<panel, lifted, wire, intact, hostVars>>

----------------------------------------------------------------------------
(* The host *)

\* DispatchBatch, on the read task of the connection
MessageArrives ==
    /\ batch = {} /\ wire # <<>>
    /\ batch' = Head(wire)
    /\ wire' = Tail(wire)
    /\ UNCHANGED <<panel, lifted, online, intact, activePointers, previousRoute, cursorButtonDown, contacts>>

\* Mutation of PointersAfter: a cancelled pointer stays.
PointersAfterUp(s) ==
    CASE s.action = "down" -> activePointers \cup {s.pointer}
      [] s.action \in {"move", "cancel"} -> activePointers
      [] s.action = "up" -> activePointers \ {s.pointer}

\* A move of a pointer that is not down changes nothing.
PointersAfter(s) ==
    CASE s.action = "down" -> activePointers \cup {s.pointer}
      [] s.action = "move" -> activePointers
      [] s.action \in {"up", "cancel"} -> activePointers \ {s.pointer}

\* Mutation of Route: only three pointers make a touch.
RouteFromThree(s) ==
    IF s.zone = "edge" \/ Cardinality(PointersAfter(s)) > 2 THEN "Touch" ELSE "Cursor"

\* InputModeClassifier.Classify
Route(s) ==
    IF s.zone = "edge" \/ Cardinality(PointersAfter(s)) >= 2 THEN "Touch" ELSE "Cursor"

\* Mutations of HeldAfterSwitch: no release, and a release only for a new pointer.
HeldThroughSwitch(s) == cursorButtonDown
HeldUnlessDown(s) ==
    cursorButtonDown /\ ~(previousRoute = "Cursor" /\ Route(s) = "Touch" /\ s.action = "down")

\* The button is released when the route turns from Cursor to Touch.
HeldAfterSwitch(s) == cursorButtonDown /\ ~(previousRoute = "Cursor" /\ Route(s) = "Touch")

\* Mutation of CursorSample: a cancel does not release the button.
CursorSampleUpOnly(s) ==
    /\ Route(s) = "Cursor"
    /\ cursorButtonDown' = CASE s.action = "down" -> TRUE
                             [] s.action \in {"move", "cancel"} -> HeldAfterSwitch(s)
                             [] s.action = "up" -> FALSE
    /\ UNCHANGED contacts

CursorSample(s) ==
    /\ Route(s) = "Cursor"
    /\ cursorButtonDown' = CASE s.action = "down" -> TRUE
                             [] s.action = "move" -> HeldAfterSwitch(s)
                             [] s.action \in {"up", "cancel"} -> FALSE
    /\ UNCHANGED contacts

\* TouchInjector.Inject: Windows rejects the update of a contact that is not down.
TouchSample(s) ==
    /\ Route(s) = "Touch"
    /\ cursorButtonDown' = HeldAfterSwitch(s)
    /\ contacts' = CASE s.action = "down" -> contacts \cup {s.pointer}
                     [] s.action = "move" -> contacts
                     [] s.action \in {"up", "cancel"} -> contacts \ {s.pointer}

\* InputDispatcher.Dispatch, for one sample after the other: the samples of a
\* message are in the order of the fingers' identities.
DispatchSample(s) ==
    /\ s \in batch /\ \A t \in batch : s.pointer <= t.pointer
    /\ batch' = batch \ {s}
    /\ CursorSample(s) \/ TouchSample(s)
    /\ activePointers' = PointersAfter(s)
    /\ previousRoute' = Route(s)
    /\ UNCHANGED tabletVars

Dispatch == \E s \in Samples : DispatchSample(s)

----------------------------------------------------------------------------

Next ==
    \/ FingerDown \/ FingerMove \/ FingerUp \/ GestureCancelled \/ StylusHovers
    \/ ConnectionLost \/ ConnectionBack
    \/ MessageArrives \/ Dispatch

Spec == Init /\ [][Next]_vars

----------------------------------------------------------------------------
(* Properties *)

\* The type invariant.
TypeOK ==
    /\ panel \in [Pointers -> Zones \cup {"off"}]
    /\ lifted \in BOOLEAN /\ online \in BOOLEAN /\ intact \in BOOLEAN
    /\ wire \in Seq(Messages)
    /\ batch \subseteq Samples
    /\ activePointers \subseteq Pointers
    /\ previousRoute \in {"none", "Cursor", "Touch"}
    /\ cursorButtonDown \in BOOLEAN
    /\ contacts \subseteq Pointers

\* The mouse button is never held while touch is being injected.
NoButtonUnderTouch == cursorButtonDown => previousRoute = "Cursor"

\* No sample that ends a touch leaves the mouse button held, however it and the
\* samples before it were routed and whatever was lost in between.
UpReleasesButton ==
    [][\A s \in Samples : DispatchSample(s) /\ s.action \in {"up", "cancel"}
          => ~cursorButtonDown']_vars

\* The host has caught up with the tablet, from which it has had every message.
Settled == intact /\ wire = <<>> /\ batch = {}

\* When nothing is lost, the button is not held with no finger on the panel.
NoButtonAfterGesture == Settled /\ OnPanel = {} => ~cursorButtonDown

\* When nothing is lost, the host counts no finger that has left the panel: a
\* phantom would turn every later tap into a touch.
NoPhantomPointer == Settled => activePointers \subseteq OnPanel

\* The last sample under way, which is where its finger is now.
Catching(s) == intact /\ wire = <<>> /\ batch = {s} /\ DispatchSample(s)

\* The classifier's two rules: "1 active pointer, outside the edge-zone -> Cursor
\* route" and "2+ concurrently active pointers -> Touch route".  When nothing is
\* lost, the only finger on the panel, away from the edges, moves the cursor,
\* whatever fingers there were before; and of several fingers that rest on the panel
\* each moves as touch input, those that an earlier event had ended included, once
\* another finger has come down.  Between a finger's lifting and the next one's
\* coming down the code does not keep the second rule: the event of the one that
\* lifted ends all of them, and two that stay move the cursor.
RouteFollowsFingers ==
    [][\A s \in Samples : Catching(s) =>
          /\ OnPanel = {s.pointer} /\ s.zone = "inner" => previousRoute' = "Cursor"
          /\ s.action = "move" /\ Cardinality(OnPanel) >= 2 /\ ~lifted
                => previousRoute' = "Touch"]_vars
=============================================================================
