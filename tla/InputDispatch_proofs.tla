------------------------ MODULE InputDispatch_proofs ------------------------
(***************************************************************************)
(* Proofs about InputDispatch, for any number of fingers and with the      *)
(* connection lost at any moment.                                          *)
(*                                                                         *)
(* NoButtonUnderTouch is inductive as it stands: a sample routed to touch  *)
(* either turns the route from Cursor, and then releases the button, or    *)
(* finds the route elsewhere, and then the button was not held.  It also   *)
(* carries UpReleasesButton.                                               *)
(***************************************************************************)
EXTENDS InputDispatch, FiniteSetTheorems, TLAPS

\* A sample routed to touch leaves the button released, whatever its action.
LEMMA TouchReleases ==
    ASSUME NoButtonUnderTouch, NEW s, TouchSample(s)
    PROVE  ~cursorButtonDown'
BY DEF NoButtonUnderTouch, TouchSample, HeldAfterSwitch

\* No step of the tablet or of the network touches button or route.
LEMMA OthersKeepButton ==
    ASSUME [Next]_vars, ~Dispatch
    PROVE  UNCHANGED <<cursorButtonDown, previousRoute>>
BY DEF Next, vars, hostVars, SendToHost, FingerDown, FingerMove, FingerUp, GestureCancelled,
       StylusHovers, ConnectionLost, ConnectionBack, MessageArrives

\* Every step keeps the button released under touch.
LEMMA ButtonStep == NoButtonUnderTouch /\ [Next]_vars => NoButtonUnderTouch'
<1> SUFFICES ASSUME NoButtonUnderTouch, [Next]_vars
             PROVE  NoButtonUnderTouch'
    OBVIOUS
<1>1. ASSUME NEW s \in Samples, DispatchSample(s)
      PROVE  NoButtonUnderTouch'
  <2>1. previousRoute' = Route(s) /\ (CursorSample(s) \/ TouchSample(s))
      BY <1>1 DEF DispatchSample
  <2>2. CASE CursorSample(s)
      BY <2>1, <2>2 DEF CursorSample, NoButtonUnderTouch
  <2>3. CASE TouchSample(s)
      BY <2>3, TouchReleases DEF NoButtonUnderTouch
  <2> QED BY <2>1, <2>2, <2>3
<1>2. CASE ~Dispatch
    BY <1>2, OthersKeepButton DEF NoButtonUnderTouch
<1> QED BY <1>1, <1>2 DEF Dispatch

\* What a finger, the connection, the route and the button can be: the types the
\* host's and the tablet's handlers keep.
THEOREM InputTypeCorrect == Spec => []TypeOK
<1>1. Init => TypeOK
  <2> SUFFICES ASSUME Init PROVE TypeOK
      OBVIOUS
  <2>1. <<>> \in Seq(Messages)
      OBVIOUS
  <2>2. wire \in Seq(Messages)
      BY <2>1 DEF Init
  <2>3. panel \in [Pointers -> Zones \cup {"off"}]
      BY DEF Init
  <2> QED BY <2>2, <2>3 DEF Init, TypeOK
<1>2. TypeOK /\ [Next]_vars => TypeOK'
  <2> SUFFICES ASSUME TypeOK, [Next]_vars PROVE TypeOK'
      OBVIOUS
  <2> USE DEF TypeOK
  <2>1. ASSUME NEW resting \in [Pointers -> Zones \cup {"off"}], NEW action \in TouchActions
        PROVE  Message(resting, action) \in Messages
      BY DEF Message, Messages, Samples
  <2>2. ASSUME NEW m \in Messages, SendToHost(m), panel' \in [Pointers -> Zones \cup {"off"}],
               lifted' \in BOOLEAN
        PROVE  TypeOK'
      BY <2>2 DEF TypeOK, SendToHost, hostVars
  <2>3. CASE FingerDown
    <3>1. PICK p \in Pointers, z \in Zones : panel' = [panel EXCEPT ![p] = z]
                                           /\ SendToHost(Message(panel', "down"))
                                           /\ lifted' \in BOOLEAN
        BY <2>3, Zenon DEF FingerDown
    <3>2. panel' \in [Pointers -> Zones \cup {"off"}]
        BY <3>1 DEF TypeOK
    <3> QED BY <2>1, <2>2, <3>1, <3>2 DEF TouchActions
  <2>4. CASE FingerMove
    <3>1. PICK to \in [OnPanel -> Zones] :
             /\ panel' = [p \in Pointers |-> IF p \in OnPanel THEN to[p] ELSE "off"]
             /\ SendToHost(Message(panel', "move")) /\ lifted' \in BOOLEAN
        BY <2>4, Zenon DEF FingerMove, TypeOK
    <3>2. panel' \in [Pointers -> Zones \cup {"off"}]
        BY <3>1
    <3> QED BY <2>1, <2>2, <3>1, <3>2 DEF TouchActions
  <2>5. CASE FingerUp
    <3>1. panel' \in [Pointers -> Zones \cup {"off"}] /\ SendToHost(Message(panel, "up"))
        BY <2>5 DEF FingerUp, TypeOK
    <3>2. lifted' \in BOOLEAN
        BY <2>5, Zenon DEF FingerUp
    <3> QED BY <3>2, <2>1, <2>2, <3>1 DEF TypeOK, TouchActions
  <2>6. CASE GestureCancelled
    <3>1. /\ panel' \in [Pointers -> Zones \cup {"off"}] /\ SendToHost(Message(panel, "cancel"))
          /\ lifted' = lifted
        BY <2>6 DEF GestureCancelled
    <3> QED BY <2>1, <2>2, <3>1 DEF TypeOK, TouchActions
  <2>7. CASE StylusHovers
    <3>1. PICK z \in Zones : SendToHost({[pointer |-> 0, action |-> "move", zone |-> z]})
        BY <2>7 DEF StylusHovers
    <3>2. {[pointer |-> 0, action |-> "move", zone |-> z]} \in Messages
        BY PointerAssumption DEF Messages, Samples, Pointers, TouchActions
    <3>3. panel' \in [Pointers -> Zones \cup {"off"}] /\ lifted' \in BOOLEAN
        BY <2>7 DEF StylusHovers, TypeOK
    <3> QED BY <2>2, <3>1, <3>2, <3>3
  <2>8. CASE ConnectionLost \/ ConnectionBack
    <3>1. <<>> \in Seq(Messages)
        OBVIOUS
    <3>2. wire' \in Seq(Messages)
        BY <2>8, <3>1 DEF TypeOK, ConnectionLost, ConnectionBack
    <3> QED BY <2>8, <3>2 DEF TypeOK, ConnectionLost, ConnectionBack, hostVars
  <2>9. CASE MessageArrives
    <3>1. wire' \in Seq(Messages) /\ Head(wire) \in Messages
        BY <2>9 DEF TypeOK, MessageArrives
    <3> QED BY <2>9, <3>1 DEF TypeOK, MessageArrives, Messages
  <2>11. CASE UNCHANGED vars
      BY <2>11 DEF TypeOK, vars, tabletVars, hostVars
  <2>10. ASSUME NEW s \in Samples, DispatchSample(s)
         PROVE  TypeOK'
    <3>1. s.pointer \in Pointers /\ s.action \in TouchActions
        BY DEF Samples
    <3>2. Route(s) \in {"Cursor", "Touch"}
        BY DEF Route
    <3>3. PointersAfter(s) \subseteq Pointers
      <4>1. PointersAfter(s) \in {activePointers \cup {s.pointer}, activePointers,
                                 activePointers \ {s.pointer}}
          BY <3>1 DEF PointersAfter, TouchActions
      <4> QED BY <3>1, <4>1 DEF TypeOK
    <3>4. HeldAfterSwitch(s) \in BOOLEAN
        BY DEF HeldAfterSwitch
    <3>5. cursorButtonDown' \in BOOLEAN /\ contacts' \subseteq Pointers
      <4>1. CASE CursorSample(s)
        <5>1. s.action = "down" \/ s.action = "move" \/ s.action \in {"up", "cancel"}
            BY <3>1 DEF TouchActions
        <5>2. cursorButtonDown' \in {TRUE, FALSE, HeldAfterSwitch(s)}
            BY <4>1, <5>1, Zenon DEF CursorSample
        <5> QED BY <3>4, <4>1, <5>2 DEF CursorSample, TypeOK
      <4>2. CASE TouchSample(s)
        <5>1. contacts' \in {contacts \cup {s.pointer}, contacts, contacts \ {s.pointer}}
            BY <3>1, <4>2 DEF TouchSample, TouchActions
        <5> QED BY <3>1, <3>4, <4>2, <5>1 DEF TouchSample, TypeOK
      <4> QED BY <2>10, <4>1, <4>2 DEF DispatchSample
    <3> QED BY <2>10, <3>2, <3>3, <3>5 DEF DispatchSample, tabletVars, TypeOK
  <2> QED BY <2>3, <2>4, <2>5, <2>6, <2>7, <2>8, <2>9, <2>10, <2>11 DEF Next, Dispatch
<1> QED BY <1>1, <1>2, PTL DEF Spec

\* The mouse button is never held while touch is being injected
\* (InputDispatcher.Dispatch, the release on a switch of route).
THEOREM NoButtonUnderTouchTheorem == Spec => []NoButtonUnderTouch
<1>1. Init => NoButtonUnderTouch
    BY DEF Init, NoButtonUnderTouch
<1> QED BY <1>1, ButtonStep, PTL DEF Spec

\* No sample that ends a touch leaves the mouse button held, however it was
\* routed (InputDispatcher.Dispatch).
THEOREM UpReleasesButtonTheorem == Spec => UpReleasesButton
<1> DEFINE Released == \A s \in Samples :
             DispatchSample(s) /\ s.action \in {"up", "cancel"} => ~cursorButtonDown'
<1>1. ASSUME NoButtonUnderTouch, NEW s \in Samples, DispatchSample(s),
             s.action \in {"up", "cancel"}
      PROVE  ~cursorButtonDown'
  <2>1. CASE TouchSample(s)
      BY <1>1, <2>1, TouchReleases
  <2>2. CASE CursorSample(s)
      BY <1>1, <2>2 DEF CursorSample
  <2> QED BY <1>1, <2>1, <2>2 DEF DispatchSample
<1>2. NoButtonUnderTouch /\ [Next]_vars => [Released]_vars
    BY <1>1
<1>3. Spec => [][Released]_vars
    BY <1>2, NoButtonUnderTouchTheorem, PTL DEF Spec
<1> QED BY <1>3 DEF UpReleasesButton
----------------------------------------------------------------------------
(* What is under way.  A message is the event of every finger on the panel,  *)
(* so that what the host still believes of a finger that has left the panel  *)
(* is on its way to be corrected.                                            *)

TouchStarts == {"down"}
TouchEnds == {"up", "cancel"}

Says(p, A, m) == \E s \in m : s.pointer = p /\ s.action \in A

\* Some message after the i-th says A of p; every B of p is followed by an A;
\* an A of p is to come.
Later(p, A, i) == \E j \in 1 .. Len(wire) : j > i /\ Says(p, A, wire[j])
Followed(p, B, A) ==
    /\ \A i \in 1 .. Len(wire) : Says(p, B, wire[i]) => Later(p, A, i)
    /\ Says(p, B, batch) => Later(p, A, 0)
Due(p, A) == Says(p, A, batch) \/ Later(p, A, 0)

\* A finger that has left the panel is ended after each of its beginnings, and
\* if it is counted its end is to come; a held button's release is to come when
\* no finger is left.
GestureEnds ==
    intact =>
       /\ \A p \in Pointers \ OnPanel :
             /\ Followed(p, TouchStarts, TouchEnds)
             /\ p \in activePointers => Due(p, TouchEnds)
       /\ OnPanel = {} /\ cursorButtonDown => \E p \in Pointers : Due(p, TouchEnds)

\* Unless one has been lifted since, all fingers on the panel are counted, or about to
\* be: whoever came down last had all of them sent as coming down.
RestingFingersCount ==
    intact /\ ~lifted =>
       \A p \in OnPanel :
          /\ Followed(p, TouchEnds, TouchStarts)
          /\ p \notin activePointers => Due(p, TouchStarts)

GestureIInv == GestureEnds /\ RestingFingersCount

\* A message is sent.
LEMMA SentLater ==
    ASSUME wire \in Seq(Messages), NEW m \in Messages, wire' = Append(wire, m),
           NEW p, NEW A, NEW i \in Nat, i <= Len(wire),
           Says(p, A, m) \/ Later(p, A, i)
    PROVE  Later(p, A, i)'
<1>n. PICK n \in Nat : n = Len(wire) + 1
    OBVIOUS
<1>1. /\ Len(wire') = n /\ wire'[n] = m /\ n \in 1 .. n /\ n > i
      /\ \A j \in 1 .. Len(wire) : wire'[j] = wire[j] /\ j \in 1 .. n
    BY <1>n
<1>2. CASE Says(p, A, m)
    BY <1>1, <1>2 DEF Later
<1>3. CASE Later(p, A, i)
    BY <1>1, <1>3 DEF Later
<1> QED BY <1>2, <1>3

LEMMA SentFollowed ==
    ASSUME wire \in Seq(Messages), NEW m \in Messages, wire' = Append(wire, m),
           UNCHANGED batch, NEW p, NEW A, NEW B,
           ~Says(p, B, m), Says(p, A, m) \/ Followed(p, B, A)
    PROVE  Followed(p, B, A)'
<1>n. PICK n \in Nat : n = Len(wire) + 1
    OBVIOUS
<1>1. /\ Len(wire') = n /\ wire'[n] = m
      /\ \A j \in 1 .. n : j = n \/ (j \in 1 .. Len(wire) /\ wire'[j] = wire[j])
      /\ \A j \in 1 .. Len(wire) : j \in Nat /\ j <= Len(wire)
      /\ 0 \in Nat /\ 0 <= Len(wire)
    BY <1>n
<1>2. ASSUME NEW i \in 1 .. Len(wire'), Says(p, B, wire'[i])
      PROVE  Later(p, A, i)'
  <2>1. i \in 1 .. Len(wire) /\ wire'[i] = wire[i]
      BY <1>1, <1>2
  <2>2. Says(p, A, m) \/ Later(p, A, i)
      BY <1>2, <2>1 DEF Followed
  <2> QED BY <1>1, <2>1, <2>2, SentLater
<1>3. ASSUME Says(p, B, batch)
      PROVE  Later(p, A, 0)'
  <2>1. Says(p, A, m) \/ Later(p, A, 0)
      BY <1>3 DEF Followed
  <2> QED BY <1>1, <2>1, SentLater
<1> QED BY <1>2, <1>3 DEF Followed

LEMMA SentDue ==
    ASSUME wire \in Seq(Messages), NEW m \in Messages, wire' = Append(wire, m),
           UNCHANGED batch, NEW p, NEW A, Says(p, A, m) \/ Due(p, A)
    PROVE  Due(p, A)'
<1>1. 0 \in Nat /\ 0 <= Len(wire)
    OBVIOUS
<1>2. Says(p, A, m) \/ Later(p, A, 0) => Later(p, A, 0)'
    BY <1>1, SentLater
<1> QED BY <1>2 DEF Due

\* A message arrives.
LEMMA ArrivedLater ==
    ASSUME wire \in Seq(Messages), wire # <<>>, wire' = Tail(wire),
           NEW p, NEW A, NEW i \in Nat, Later(p, A, i + 1)
    PROVE  Later(p, A, i)'
<1>1. PICK j \in 1 .. Len(wire) : j > i + 1 /\ Says(p, A, wire[j])
    BY DEF Later
<1>2. PICK k \in Nat : k + 1 = j
    BY <1>1
<1>3. k \in 1 .. Len(wire') /\ k > i /\ wire'[k] = wire[j]
    BY <1>1, <1>2
<1> QED BY <1>1, <1>3 DEF Later

LEMMA ArrivedFollowed ==
    ASSUME wire \in Seq(Messages), MessageArrives, NEW p, NEW A, NEW B, Followed(p, B, A)
    PROVE  Followed(p, B, A)'
<1>1. wire # <<>> /\ wire' = Tail(wire) /\ batch' = Head(wire)
    BY DEF MessageArrives
<1>2. ASSUME NEW i \in 1 .. Len(wire'), Says(p, B, wire'[i])
      PROVE  Later(p, A, i)'
  <2>1. PICK k \in Nat : k = i + 1
      BY <1>1
  <2>2. k \in 1 .. Len(wire) /\ wire'[i] = wire[k] /\ i \in Nat
      BY <1>1, <2>1
  <2>3. Later(p, A, k)
      BY <1>2, <2>2 DEF Followed
  <2> QED BY <1>1, <2>1, <2>2, <2>3, ArrivedLater
<1>3. ASSUME Says(p, B, batch')
      PROVE  Later(p, A, 0)'
  <2>1. 1 \in 1 .. Len(wire) /\ batch' = wire[1] /\ 0 + 1 = 1
      BY <1>1
  <2>2. Later(p, A, 0 + 1)
      BY <1>3, <2>1 DEF Followed
  <2> QED BY <1>1, <2>2, ArrivedLater
<1> QED BY <1>2, <1>3 DEF Followed

LEMMA ArrivedDue ==
    ASSUME wire \in Seq(Messages), MessageArrives, NEW p, NEW A, Due(p, A)
    PROVE  Due(p, A)'
<1>1. batch = {} /\ wire # <<>> /\ wire' = Tail(wire) /\ batch' = Head(wire)
    BY DEF MessageArrives
<1>2. PICK j \in 1 .. Len(wire) : Says(p, A, wire[j])
    BY <1>1 DEF Due, Says, Later
<1>3. CASE j = 1
    BY <1>1, <1>2, <1>3 DEF Due
<1>4. CASE j # 1
  <2>1. j > 0 + 1 /\ 0 \in Nat
      BY <1>4
  <2>2. Later(p, A, 0 + 1)
      BY <1>2, <2>1 DEF Later
  <2> QED BY <1>1, <2>1, <2>2, ArrivedLater DEF Due
<1> QED BY <1>3, <1>4

\* A sample is dispatched.
LEMMA DispatchedFollowed ==
    ASSUME NEW s \in Samples, DispatchSample(s), NEW p, NEW A, NEW B, Followed(p, B, A)
    PROVE  /\ Followed(p, B, A)'
           /\ s.pointer = p /\ s.action \in B => Due(p, A)'
BY DEF DispatchSample, tabletVars, Followed, Later, Says, Due

LEMMA DispatchedDue ==
    ASSUME NEW s \in Samples, DispatchSample(s), NEW p, NEW A, Due(p, A),
           ~(s.pointer = p /\ s.action \in A)
    PROVE  Due(p, A)'
BY DEF DispatchSample, tabletVars, Later, Says, Due

LEMMA MessageSays ==
    ASSUME NEW resting, NEW action, NEW p, NEW A
    PROVE  Says(p, A, Message(resting, action))
             <=> p \in Pointers /\ resting[p] # "off" /\ action \in A
<1>1. ASSUME Says(p, A, Message(resting, action))
      PROVE  p \in Pointers /\ resting[p] # "off" /\ action \in A
  <2>1. PICK s \in Message(resting, action) : s.pointer = p /\ s.action \in A
      BY <1>1 DEF Says
  <2>2. PICK q \in Pointers : resting[q] # "off"
           /\ s = [pointer |-> q, action |-> action, zone |-> resting[q]]
      BY DEF Message
  <2> QED BY <2>1, <2>2
<1>2. ASSUME p \in Pointers, resting[p] # "off", action \in A
      PROVE  Says(p, A, Message(resting, action))
  <2>1. [pointer |-> p, action |-> action, zone |-> resting[p]] \in Message(resting, action)
      BY <1>2 DEF Message
  <2> QED BY <1>2, <2>1 DEF Says
<1> QED BY <1>1, <1>2

\* An event of the tablet ends the fingers that leave the panel with it, and
\* begins all that are there when one comes.
Tells(m) ==
    /\ \A p \in Pointers \ OnPanel' :
          ~Says(p, TouchStarts, m) /\ (p \in OnPanel => Says(p, TouchEnds, m))
    /\ ~lifted' =>
          \A p \in OnPanel' :
             ~Says(p, TouchEnds, m) /\ ((~lifted /\ p \in OnPanel) \/ Says(p, TouchStarts, m))

LEMMA SendStep ==
    ASSUME TypeOK, GestureEnds, RestingFingersCount, NEW m \in Messages, SendToHost(m), Tells(m)
    PROVE  GestureEnds' /\ RestingFingersCount'
<1>0. wire \in Seq(Messages)
    BY DEF TypeOK
<1>1. UNCHANGED <<batch, activePointers, cursorButtonDown>>
    BY DEF SendToHost, hostVars
<1>2. CASE intact'
  <2>1. intact /\ wire' = Append(wire, m)
      BY <1>2 DEF SendToHost
  <2>2. ASSUME NEW p \in Pointers \ OnPanel'
        PROVE  /\ Followed(p, TouchStarts, TouchEnds)'
               /\ p \in activePointers' => Due(p, TouchEnds)'
    <3>1. ~Says(p, TouchStarts, m) /\ (p \in OnPanel => Says(p, TouchEnds, m))
        BY DEF Tells
    <3>2. Followed(p, TouchStarts, TouchEnds)'
        BY <1>0, <1>1, <2>1, <3>1, SentFollowed DEF GestureEnds
    <3>3. p \in activePointers' => Due(p, TouchEnds)'
        BY <1>0, <1>1, <2>1, <3>1, SentDue DEF GestureEnds
    <3> QED BY <3>2, <3>3
  <2>3. ASSUME OnPanel' = {}, cursorButtonDown'
        PROVE  \E p \in Pointers : Due(p, TouchEnds)'
    <3>1. CASE OnPanel = {}
      <4>1. PICK p \in Pointers : Due(p, TouchEnds)
          BY <1>1, <2>1, <2>3, <3>1 DEF GestureEnds
      <4>2. Due(p, TouchEnds)'
          BY <1>0, <1>1, <2>1, <4>1, SentDue
      <4> QED BY <4>2
    <3>2. CASE OnPanel # {}
      <4>1. PICK p \in Pointers : p \in OnPanel
          BY <3>2 DEF OnPanel
      <4>2. Says(p, TouchEnds, m)
          BY <2>3, <4>1 DEF Tells
      <4>3. Due(p, TouchEnds)'
          BY <1>0, <1>1, <2>1, <4>2, SentDue
      <4> QED BY <4>3
    <3> QED BY <3>1, <3>2
  <2>4. ASSUME ~lifted', NEW p \in OnPanel'
        PROVE  /\ Followed(p, TouchEnds, TouchStarts)'
               /\ p \notin activePointers' => Due(p, TouchStarts)'
    <3>1. ~Says(p, TouchEnds, m) /\ ((~lifted /\ p \in OnPanel) \/ Says(p, TouchStarts, m))
        BY <2>4 DEF Tells
    <3>2. Followed(p, TouchEnds, TouchStarts)'
        BY <1>0, <1>1, <2>1, <3>1, SentFollowed DEF RestingFingersCount
    <3>3. p \notin activePointers' => Due(p, TouchStarts)'
        BY <1>0, <1>1, <2>1, <3>1, SentDue DEF RestingFingersCount
    <3> QED BY <3>2, <3>3
  <2>5. GestureEnds'
      BY <2>2, <2>3 DEF GestureEnds, TouchStarts, TouchEnds
  <2>6. RestingFingersCount'
      BY <2>4 DEF RestingFingersCount, TouchStarts, TouchEnds
  <2> QED BY <2>5, <2>6
<1>3. CASE ~intact'
    BY <1>3 DEF GestureEnds, RestingFingersCount
<1> QED BY <1>2, <1>3

LEMMA TabletStep ==
    ASSUME TypeOK, GestureEnds, RestingFingersCount,
           FingerDown \/ FingerMove \/ FingerUp \/ GestureCancelled \/ StylusHovers
    PROVE  GestureEnds' /\ RestingFingersCount'
<1>3. ASSUME NEW resting \in [Pointers -> Zones \cup {"off"}], NEW action \in TouchActions
      PROVE  Message(resting, action) \in Messages
    BY DEF Message, Messages, Samples
<1>0. 0 \in Pointers
    BY PointerAssumption DEF Pointers
<1>p. panel \in [Pointers -> Zones \cup {"off"}] /\ "off" \notin Zones
    BY DEF TypeOK, Zones
<1>4. CASE FingerDown \/ FingerMove
  <2>1. PICK action \in {"down", "move"} :
           /\ panel' \in [Pointers -> Zones \cup {"off"}]
           /\ SendToHost(Message(panel', action))
           /\ OnPanel \subseteq OnPanel'
           /\ action = "move" => OnPanel' = OnPanel /\ lifted' = lifted
    <3>1. CASE FingerDown
      <4>1. PICK p \in Pointers, z \in Zones :
               panel' = [panel EXCEPT ![p] = z] /\ SendToHost(Message(panel', "down"))
          BY <3>1 DEF FingerDown
      <4>2. panel' \in [Pointers -> Zones \cup {"off"}] /\ OnPanel \subseteq OnPanel'
          BY <1>p, <4>1 DEF OnPanel
      <4> QED BY <4>1, <4>2
    <3>2. CASE FingerMove
      <4>1. PICK to \in [OnPanel -> Zones] :
               /\ panel' = [p \in Pointers |-> IF p \in OnPanel THEN to[p] ELSE "off"]
               /\ SendToHost(Message(panel', "move")) /\ lifted' = lifted
          BY <3>2, Zenon DEF FingerMove
      <4>2. panel' \in [Pointers -> Zones \cup {"off"}] /\ OnPanel' = OnPanel
          BY <1>p, <4>1 DEF OnPanel
      <4> QED BY <4>1, <4>2
    <3> QED BY <1>4, <3>1, <3>2
  <2>m. PICK m \in Messages : m = Message(panel', action)
      BY <1>3, <2>1 DEF TouchActions
  <2>4. \A q \in Pointers :
           /\ ~Says(q, TouchEnds, m)
           /\ Says(q, TouchStarts, m) <=> q \in OnPanel' /\ action = "down"
    <3>1. \A q \in Pointers : \A A : Says(q, A, m) <=> q \in OnPanel' /\ action \in A
        BY <2>m, MessageSays DEF OnPanel
    <3> QED BY <3>1 DEF TouchStarts, TouchEnds
  <2>5. Tells(m)
      BY <2>1, <2>4 DEF Tells, OnPanel
  <2> QED BY <2>1, <2>m, <2>5, SendStep
<1>5. CASE FingerUp \/ GestureCancelled
  <2>1. PICK action \in {"up", "cancel"} :
           SendToHost(Message(panel, action)) /\ (lifted' \/ OnPanel' = {})
    <3>1. CASE FingerUp
        BY <3>1 DEF FingerUp
    <3>2. CASE GestureCancelled
        BY <1>0, <3>2 DEF GestureCancelled, OnPanel
    <3> QED BY <1>5, <3>1, <3>2
  <2>m. PICK m \in Messages : m = Message(panel, action)
      BY <1>3, <1>p, <2>1 DEF TouchActions
  <2>4. \A q \in Pointers :
           /\ Says(q, TouchEnds, m) <=> q \in OnPanel
           /\ ~Says(q, TouchStarts, m)
      BY <2>1, <2>m, MessageSays DEF TouchStarts, TouchEnds, OnPanel
  <2>5. Tells(m)
      BY <2>1, <2>4 DEF Tells
  <2> QED BY <2>1, <2>m, <2>5, SendStep
<1>6. CASE StylusHovers
  <2>1. PICK z \in Zones : SendToHost({[pointer |-> 0, action |-> "move", zone |-> z]})
      BY <1>6 DEF StylusHovers
  <2>0. {[pointer |-> 0, action |-> "move", zone |-> z]} \in Messages
      BY <1>0 DEF Messages, Samples, TouchActions
  <2>m. PICK m \in Messages : m = {[pointer |-> 0, action |-> "move", zone |-> z]}
      BY <2>0
  <2>2. OnPanel' = {} /\ OnPanel = {}
      BY <1>6 DEF StylusHovers, OnPanel
  <2>3. \A q \in Pointers : ~Says(q, TouchStarts, m)
      BY <2>m DEF Says, TouchStarts
  <2>5. Tells(m)
      BY <1>0, <2>2, <2>3 DEF Tells
  <2> QED BY <2>1, <2>m, <2>5, SendStep
<1> QED BY <1>4, <1>5, <1>6

LEMMA NetworkStep ==
    ASSUME TypeOK, GestureEnds, RestingFingersCount,
           ConnectionLost \/ ConnectionBack \/ UNCHANGED vars
    PROVE  GestureEnds' /\ RestingFingersCount'
<1>1. /\ UNCHANGED <<panel, lifted, batch, activePointers, cursorButtonDown>>
      /\ intact' => (intact /\ wire' = wire)
  <2>1. CASE ConnectionLost
    <3>1. intact' => intact /\ wire = <<>>
        BY <2>1, Zenon DEF ConnectionLost
    <3>2. wire' = <<>> /\ UNCHANGED <<panel, lifted, batch, activePointers, cursorButtonDown>>
        BY <2>1 DEF ConnectionLost, hostVars
    <3> QED BY <3>1, <3>2
  <2>2. CASE ConnectionBack \/ UNCHANGED vars
      BY <2>2 DEF ConnectionBack, vars, tabletVars, hostVars
  <2> QED BY <2>1, <2>2
<1> QED BY <1>1 DEF GestureEnds, RestingFingersCount, OnPanel, Followed, Due, Later

LEMMA ArriveStep ==
    ASSUME TypeOK, GestureEnds, RestingFingersCount, MessageArrives
    PROVE  GestureEnds' /\ RestingFingersCount'
<1>0. wire \in Seq(Messages)
    BY DEF TypeOK
<1>1. UNCHANGED <<panel, lifted, intact, activePointers, cursorButtonDown>>
    BY DEF MessageArrives
<1>2. \A p : /\ Followed(p, TouchStarts, TouchEnds) => Followed(p, TouchStarts, TouchEnds)'
             /\ Followed(p, TouchEnds, TouchStarts) => Followed(p, TouchEnds, TouchStarts)'
             /\ Due(p, TouchEnds) => Due(p, TouchEnds)'
             /\ Due(p, TouchStarts) => Due(p, TouchStarts)'
    BY <1>0, ArrivedFollowed, ArrivedDue DEF TouchStarts, TouchEnds
<1>3. GestureEnds'
    BY <1>1, <1>2 DEF GestureEnds, OnPanel
<1>4. RestingFingersCount'
    BY <1>1, <1>2 DEF RestingFingersCount, OnPanel
<1> QED BY <1>3, <1>4

\* What a sample does to the fingers that are counted.
LEMMA PointersAfterCases ==
    ASSUME NEW s \in Samples, NEW p
    PROVE  /\ p \in PointersAfter(s) =>
                \/ s.pointer = p /\ s.action \in TouchStarts
                \/ p \in activePointers /\ ~(s.pointer = p /\ s.action \in TouchEnds)
           /\ p \notin PointersAfter(s) =>
                \/ s.pointer = p /\ s.action \in TouchEnds
                \/ p \notin activePointers /\ ~(s.pointer = p /\ s.action \in TouchStarts)
<1>1. CASE s.action = "down"
    BY <1>1, Zenon DEF PointersAfter, TouchStarts, TouchEnds
<1>2. CASE s.action = "move"
    BY <1>2, Zenon DEF PointersAfter, TouchStarts, TouchEnds
<1>3. CASE s.action \in {"up", "cancel"}
    BY <1>3, Zenon DEF PointersAfter, TouchStarts, TouchEnds
<1> QED BY <1>1, <1>2, <1>3 DEF Samples, TouchActions

LEMMA DispatchStep ==
    ASSUME TypeOK, NoButtonUnderTouch, GestureEnds, RestingFingersCount, Dispatch
    PROVE  GestureEnds' /\ RestingFingersCount'
<1>1. PICK s \in Samples : DispatchSample(s)
    BY DEF Dispatch
<1>2. /\ UNCHANGED <<panel, lifted, intact>> /\ activePointers' = PointersAfter(s)
      /\ s \in batch /\ s.pointer \in Pointers
    BY <1>1 DEF DispatchSample, tabletVars, Samples
<1>3. GestureEnds'
  <2>1. ASSUME intact, NEW p \in Pointers \ OnPanel
        PROVE  /\ Followed(p, TouchStarts, TouchEnds)'
               /\ p \in activePointers' => Due(p, TouchEnds)'
    <3>1. Followed(p, TouchStarts, TouchEnds) /\ (p \in activePointers => Due(p, TouchEnds))
        BY <2>1 DEF GestureEnds
    <3>2. Followed(p, TouchStarts, TouchEnds)'
        BY <1>1, <3>1, DispatchedFollowed
    <3>3. CASE s.pointer = p /\ s.action \in TouchStarts
        BY <1>1, <3>1, <3>2, <3>3, DispatchedFollowed
    <3>4. CASE p \in activePointers /\ ~(s.pointer = p /\ s.action \in TouchEnds)
        BY <1>1, <3>1, <3>2, <3>4, DispatchedDue
    <3> QED BY <1>2, <3>2, <3>3, <3>4, PointersAfterCases
  <2>2. ASSUME intact, OnPanel = {}, cursorButtonDown'
        PROVE  \E p \in Pointers : Due(p, TouchEnds)'
    <3>1. s.action \notin TouchEnds
      <4>1. CASE TouchSample(s)
          BY <2>2, <4>1, TouchReleases
      <4>2. CASE CursorSample(s)
          BY <2>2, <4>2 DEF CursorSample, TouchEnds
      <4> QED BY <1>1, <4>1, <4>2 DEF DispatchSample
    <3>2. CASE s.action \in TouchStarts
      <4>1. Followed(s.pointer, TouchStarts, TouchEnds)
          BY <1>2, <2>2 DEF GestureEnds
      <4>2. Due(s.pointer, TouchEnds)'
          BY <1>1, <3>2, <4>1, DispatchedFollowed
      <4> QED BY <1>2, <4>2
    <3>3. CASE s.action \notin TouchStarts
      <4>1. s.action = "move"
          BY <3>1, <3>3 DEF Samples, TouchActions, TouchStarts, TouchEnds
      <4>2. cursorButtonDown
        <5>1. CASE TouchSample(s)
            BY <2>2, <5>1 DEF TouchSample, HeldAfterSwitch
        <5>2. CASE CursorSample(s)
            BY <2>2, <4>1, <5>2 DEF CursorSample, HeldAfterSwitch
        <5> QED BY <1>1, <5>1, <5>2 DEF DispatchSample
      <4>3. PICK p \in Pointers : Due(p, TouchEnds)
          BY <2>2, <4>2 DEF GestureEnds
      <4>4. Due(p, TouchEnds)'
          BY <1>1, <3>1, <4>3, DispatchedDue
      <4> QED BY <4>4
    <3> QED BY <3>2, <3>3
  <2> QED BY <1>2, <2>1, <2>2 DEF GestureEnds, OnPanel
<1>4. RestingFingersCount'
  <2>1. ASSUME intact, ~lifted, NEW p \in OnPanel
        PROVE  /\ Followed(p, TouchEnds, TouchStarts)'
               /\ p \notin activePointers' => Due(p, TouchStarts)'
    <3>1. Followed(p, TouchEnds, TouchStarts) /\ (p \notin activePointers => Due(p, TouchStarts))
        BY <2>1 DEF RestingFingersCount
    <3>2. Followed(p, TouchEnds, TouchStarts)'
        BY <1>1, <3>1, DispatchedFollowed
    <3>3. CASE s.pointer = p /\ s.action \in TouchEnds
        BY <1>1, <3>1, <3>2, <3>3, DispatchedFollowed
    <3>4. CASE p \notin activePointers /\ ~(s.pointer = p /\ s.action \in TouchStarts)
        BY <1>1, <3>1, <3>2, <3>4, DispatchedDue
    <3> QED BY <1>2, <3>2, <3>3, <3>4, PointersAfterCases
  <2> QED BY <1>2, <2>1 DEF RestingFingersCount, OnPanel
<1> QED BY <1>3, <1>4

LEMMA GestureStep ==
    TypeOK /\ NoButtonUnderTouch /\ GestureIInv /\ [Next]_vars => GestureIInv'
<1> SUFFICES ASSUME TypeOK, NoButtonUnderTouch, GestureIInv, [Next]_vars
             PROVE  GestureIInv'
    OBVIOUS
<1> QED BY TabletStep, NetworkStep, ArriveStep, DispatchStep DEF GestureIInv, Next

LEMMA GestureInvariant == Spec => []GestureIInv
<1>1. Init => GestureIInv
  <2> SUFFICES ASSUME Init PROVE GestureIInv
      OBVIOUS
  <2>1. 0 \in Pointers /\ OnPanel = {} /\ wire = <<>> /\ batch = {} /\ activePointers = {}
        /\ ~cursorButtonDown
      BY PointerAssumption DEF Init, Pointers, OnPanel
  <2> QED BY <2>1 DEF GestureIInv, GestureEnds, RestingFingersCount,
                      Followed, Says
<1> QED BY <1>1, GestureStep, InputTypeCorrect, NoButtonUnderTouchTheorem, PTL DEF Spec

LEMMA NothingDue ==
    ASSUME wire = <<>>, batch = {}, NEW p, NEW A
    PROVE  ~Due(p, A)
BY DEF Due, Later, Says

\* When nothing is lost, the host counts no finger that has left the panel, for
\* any number of fingers (TouchEventMapper's batches, InputModeClassifier.Classify).
THEOREM NoPhantomPointerTheorem == Spec => []NoPhantomPointer
<1>1. TypeOK /\ GestureIInv => NoPhantomPointer
    BY NothingDue DEF GestureIInv, GestureEnds, NoPhantomPointer, Settled, TypeOK
<1> QED BY <1>1, GestureInvariant, InputTypeCorrect, PTL

\* When nothing is lost, the button is not held with no finger on the panel
\* (InputDispatcher.Dispatch).
THEOREM NoButtonAfterGestureTheorem == Spec => []NoButtonAfterGesture
<1>1. GestureIInv => NoButtonAfterGesture
    BY NothingDue DEF GestureIInv, GestureEnds, NoButtonAfterGesture, Settled
<1> QED BY <1>1, GestureInvariant, PTL

----------------------------------------------------------------------------
(* Routes.                                                                   *)

\* What the last sample under way leaves behind.
LEMMA CaughtUp ==
    ASSUME TypeOK, NEW s \in Samples, Catching(s)
    PROVE  /\ Settled' /\ UNCHANGED panel
           /\ activePointers' = PointersAfter(s) /\ previousRoute' = Route(s)
BY DEF Catching, Settled, DispatchSample, tabletVars

\* The first rule: with nothing lost, the only finger on the panel moves the
\* cursor when it is away from the edges, however many fingers there were before.
LEMMA LoneFinger ==
    ASSUME TypeOK, NoPhantomPointer', NEW s \in Samples, Catching(s),
           OnPanel = {s.pointer}, s.zone = "inner"
    PROVE  previousRoute' = "Cursor"
<1>1. PointersAfter(s) \subseteq {s.pointer}
    BY CaughtUp DEF NoPhantomPointer, OnPanel
<1>2. Cardinality(PointersAfter(s)) \in {0, 1}
  <2>1. PointersAfter(s) = {} \/ PointersAfter(s) = {s.pointer}
      BY <1>1
  <2>2. Cardinality({}) = 0 /\ Cardinality({s.pointer}) = 1
      BY FS_EmptySet, FS_Singleton
  <2> QED BY <2>1, <2>2
<1> QED BY <1>2, CaughtUp DEF Route

\* The second rule: unless one has been lifted since the last came down, a finger that
\* moves while another one rests on the panel is touch input, because both are counted.
LEMMA RestingFingersTouch ==
    ASSUME TypeOK, RestingFingersCount', NEW s \in Samples, Catching(s),
           ~lifted, Cardinality(OnPanel) >= 2
    PROVE  previousRoute' = "Touch"
<1>1. wire' = <<>> /\ batch' = {} /\ intact' /\ ~lifted' /\ OnPanel' = OnPanel
    BY CaughtUp DEF Settled, OnPanel, Catching, DispatchSample, tabletVars
<1>2. OnPanel \subseteq PointersAfter(s)
  <2>1. ASSUME NEW p \in OnPanel
        PROVE  p \in activePointers'
    <3>1. ~Due(p, TouchStarts)'
        BY <1>1 DEF Due, Later, Says
    <3> QED BY <1>1, <3>1 DEF RestingFingersCount
  <2> QED BY <2>1, CaughtUp
<1>3. IsFiniteSet(PointersAfter(s))
  <2>1. PointersAfter(s) \subseteq Pointers
      BY PointersAfterCases DEF TypeOK, Samples, TouchStarts, TouchEnds
  <2>2. IsFiniteSet(Pointers)
      BY PointerAssumption, FS_Interval DEF Pointers
  <2> QED BY <2>1, <2>2, FS_Subset
<1>4. Cardinality(PointersAfter(s)) >= 2
  <2>1. IsFiniteSet(OnPanel) /\ Cardinality(OnPanel) <= Cardinality(PointersAfter(s))
      BY <1>2, <1>3, FS_Subset
  <2>2. Cardinality(OnPanel) \in Nat /\ Cardinality(PointersAfter(s)) \in Nat
      BY <1>3, <2>1, FS_CardinalityType
  <2> QED BY <2>1, <2>2
<1> QED BY <1>4, CaughtUp DEF Route

\* The classifier's two rules, for any number of fingers (InputModeClassifier.Classify on
\* what TouchCaptureView's batches tell it).
THEOREM RouteFollowsFingersTheorem == Spec => RouteFollowsFingers
<1> DEFINE Follows == \A s \in Samples : Catching(s) =>
          /\ OnPanel = {s.pointer} /\ s.zone = "inner" => previousRoute' = "Cursor"
          /\ s.action = "move" /\ Cardinality(OnPanel) >= 2 /\ ~lifted
                => previousRoute' = "Touch"
<1>1. TypeOK /\ NoPhantomPointer' /\ GestureIInv' /\ [Next]_vars => [Follows]_vars
    BY LoneFinger, RestingFingersTouch DEF GestureIInv
<1>2. Spec => [][Follows]_vars
    BY <1>1, InputTypeCorrect, NoPhantomPointerTheorem, GestureInvariant, PTL DEF Spec
<1> QED BY <1>2 DEF RouteFollowsFingers
=============================================================================
