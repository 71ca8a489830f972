----------------------- MODULE MCControlSocketServer -----------------------
(***************************************************************************)
(* Small instances of ControlSocketServer: two connections alive together  *)
(* (a session and a presence probe or a reconnect), one kind of message.   *)
(***************************************************************************)
EXTENDS ControlSocketServer
=============================================================================
