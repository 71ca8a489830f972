--------------------------- MODULE MCInputDispatch ---------------------------
(* Three fingers, and one message on the way besides the one being taken. *)
EXTENDS InputDispatch
=============================================================================
