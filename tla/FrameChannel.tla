---------------------------- MODULE FrameChannel ----------------------------
(* What the capture and encode pipeline promises to the code that pulls      *)
(* frames from it: a lossy channel that keeps order.  A frame that was        *)
(* offered may be lost at any point, but one that is delivered comes after    *)
(* every frame delivered before it, comes once, and shows the picture that    *)
(* was captured at the time it is stamped with.                               *)
EXTENDS Integers

VARIABLES offered,    \* how many frames have been offered; frame n is the nth
          inFlight,   \* the frames the channel may still deliver
          delivered   \* the last frame delivered, and the picture it showed

channelVars == <<offered, inFlight, delivered>>

ChannelInit ==
  /\ offered = 0
  /\ inFlight = {}
  /\ delivered = [pts |-> 0, picture |-> 0]

\* A frame is offered, and taken or dropped.
Offer ==
  /\ offered' = offered + 1
  /\ inFlight' \in {inFlight, inFlight \union {offered'}}
  /\ UNCHANGED delivered

\* One frame is delivered, with its own picture; nothing older can follow it.
Deliver ==
  \E n \in inFlight :
     /\ n > delivered.pts
     /\ delivered' = [pts |-> n, picture |-> n]
     /\ inFlight' = {k \in inFlight : k > n}
     /\ UNCHANGED offered

\* Frames in flight are lost.
Lose ==
  /\ inFlight' \in SUBSET inFlight
  /\ UNCHANGED <<offered, delivered>>

ChannelNext == Offer \/ Deliver \/ Lose

ChannelSpec == ChannelInit /\ [][ChannelNext]_channelVars
=============================================================================
