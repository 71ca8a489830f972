--------------------------------- MODULE Dmm ---------------------------------
(* The display mode manager of Windows, as the display driver uses it: it    *)
(* hands out mode sets, mode infos and paths, and wants each of them back     *)
(* once.  "has" is what the driver's local variables hold, "held" what the    *)
(* manager has handed out: they only agree if the driver's book-keeping does. *)
EXTENDS Integers, FiniteSets

VARIABLES has,    \* the driver's handles and pointers that are not null
          held    \* how many of each kind the manager has still to get back

dmmVars == <<has, held>>

\* Two path pointers are used, one for the path the driver is leaving.
Handles == {"sourceSet", "sourceMode", "targetSet", "targetMode", "path", "lastPath"}
Kinds == Handles \ {"lastPath"}
KindOf(handle) == IF handle = "lastPath" THEN "path" ELSE handle

DmmInit == has = {} /\ held = [k \in Kinds |-> 0]

Acquire(handle) ==
  /\ has' = has \union {handle}
  /\ held' = [held EXCEPT ![KindOf(handle)] = @ + 1]

Release(handle) ==
  /\ has' = has \ {handle}
  /\ held' = [held EXCEPT ![KindOf(handle)] = @ - 1]

\* What is left is given back at the end of a call.
ReleaseAll ==
  /\ has' = {}
  /\ held' = [k \in Kinds |-> held[k] - Cardinality({h \in has : KindOf(h) = k})]
=============================================================================
