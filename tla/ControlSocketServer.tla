------------------------ MODULE ControlSocketServer ------------------------
(***************************************************************************)
(* The PC side of the control socket (port 29501): one accept loop, one    *)
(* ServeClientAsync task per tablet connection, and the single "active     *)
(* client" slot that every outbound message is written to.                 *)
(*                                                                         *)
(* Every connection that is accepted is served, whatever the slot holds;   *)
(* the slot is taken by the connection that registers last and given back  *)
(* by its owner alone.  A connection identity is reused once its task has  *)
(* ended and its socket is closed, so a behaviour may hold any number of   *)
(* reconnects while Clients bounds how many are alive together.            *)
(***************************************************************************)
EXTENDS Naturals, Sequences

CONSTANTS
    Clients,        \* connections alive together
    Messages,       \* what a tablet may send
    OutMessages,    \* what the host may send
    None,           \* no client, no message
    MaxInbox        \* bound: messages in flight towards the host, per connection

ASSUME NoneAssumption == /\ None \notin Clients
                         /\ None \notin Messages
                         /\ None \notin OutMessages
ASSUME MaxInboxAssumption == MaxInbox \in Nat

VARIABLES
    server,         \* lifetime of the listener: "new", "running", "cancelled", "stopped"
    conn,           \* the socket, as the network sees it
    connected,      \* TcpClient.Connected: as of the last read or write of the host
    task,           \* where the connection's ServeClientAsync stands
    inbox,          \* bytes on their way to the host, one element per message
    handling,       \* the message whose handler the task is running
    lastSent,       \* the last message written to the connection while it is served
    activeClient    \* _activeClient and _activeWriter, always assigned together

serverVars == <<server, conn, connected, task, inbox, handling, lastSent, activeClient>>

ConnStates == {"none", "open", "fin", "reset"}
TaskStates == {"none", "spawned", "loop", "reading", "handling", "leaving"}

\* Tasks that have registered and not yet left
Serving(c) == task[c] \in {"loop", "reading", "handling", "leaving"}

HasClient == activeClient # None /\ connected[activeClient]

ServerInit ==
    /\ server = "new"
    /\ conn = [c \in Clients |-> "none"]
    /\ connected = [c \in Clients |-> FALSE]
    /\ task = [c \in Clients |-> "none"]
    /\ inbox = [c \in Clients |-> <<>>]
    /\ handling = [c \in Clients |-> None]
    /\ lastSent = [c \in Clients |-> None]
    /\ activeClient = None

----------------------------------------------------------------------------
(* The tablet and the network *)

PeerSend(c, m) ==
    /\ conn[c] = "open"
    /\ Len(inbox[c]) < MaxInbox
    /\ inbox' = [inbox EXCEPT ![c] = Append(@, m)]
    /\ UNCHANGED <<server, conn, connected, task, handling, lastSent, activeClient>>

\* An orderly close: what was sent before it is still read.
PeerClose(c) ==
    /\ conn[c] = "open"
    /\ conn' = [conn EXCEPT ![c] = "fin"]
    /\ UNCHANGED <<server, connected, task, inbox, handling, lastSent, activeClient>>

\* The tunnel goes away (cable, adb restart): unread bytes are gone with it.
PeerReset(c) ==
    /\ conn[c] \in {"open", "fin"}
    /\ conn' = [conn EXCEPT ![c] = "reset"]
    /\ inbox' = [inbox EXCEPT ![c] = <<>>]
    /\ UNCHANGED <<server, connected, task, handling, lastSent, activeClient>>

----------------------------------------------------------------------------
(* The server *)

Start ==
    /\ server = "new"
    /\ server' = "running"
    /\ UNCHANGED <<conn, connected, task, inbox, handling, lastSent, activeClient>>

\* A tablet connects and the accept loop hands the connection to Task.Run.
Accept(c) ==
    /\ server = "running"
    /\ conn[c] = "none" /\ task[c] = "none"
    /\ conn' = [conn EXCEPT ![c] = "open"]
    /\ connected' = [connected EXCEPT ![c] = TRUE]
    /\ task' = [task EXCEPT ![c] = "spawned"]
    /\ UNCHANGED <<server, inbox, handling, lastSent, activeClient>>

\* The thread pool runs the spawned task: the slot is taken, whoever held it.
Register(c) ==
    /\ task[c] = "spawned"
    /\ activeClient' = c
    /\ task' = [task EXCEPT ![c] = "loop"]
    /\ UNCHANGED <<server, conn, connected, inbox, handling, lastSent>>

\* Task.Run was given the token: a task not yet started when it is cancelled
\* never runs, and nothing closes its socket.
SpawnCancelled(c) ==
    /\ task[c] = "spawned" /\ server \in {"cancelled", "stopped"}
    /\ task' = [task EXCEPT ![c] = "none"]
    /\ UNCHANGED <<server, conn, connected, inbox, handling, lastSent, activeClient>>

\* Mutation of ReadsOn: the token is not looked at.
ReadsWhileConnected(c) == connected[c]

\* The condition of the read loop
ReadsOn(c) == server = "running" /\ connected[c]

LoopCheck(c) ==
    /\ task[c] = "loop"
    /\ task' = [task EXCEPT ![c] = IF ReadsOn(c) THEN "reading" ELSE "leaving"]
    /\ UNCHANGED <<server, conn, connected, inbox, handling, lastSent, activeClient>>

\* ReadFramed returns a message.  It blocks without looking at the token, so it
\* may return one after Stop.
ReadMessage(c) ==
    /\ task[c] = "reading"
    /\ inbox[c] # <<>>
    /\ handling' = [handling EXCEPT ![c] = Head(inbox[c])]
    /\ inbox' = [inbox EXCEPT ![c] = Tail(@)]
    /\ task' = [task EXCEPT ![c] = "handling"]
    /\ UNCHANGED <<server, conn, connected, lastSent, activeClient>>

\* Mutation of ReadFails: the error is swallowed and the loop goes on.
ReadFailsRetries(c) ==
    /\ task[c] = "reading"
    /\ inbox[c] = <<>>
    /\ conn[c] \in {"fin", "reset"}
    /\ task' = [task EXCEPT ![c] = "loop"]
    /\ UNCHANGED <<server, conn, connected, inbox, handling, lastSent, activeClient>>

\* ReadFramed meets the end of the stream, or an I/O error on a reset socket.
ReadFails(c) ==
    /\ task[c] = "reading"
    /\ inbox[c] = <<>>
    /\ conn[c] \in {"fin", "reset"}
    /\ connected' = [connected EXCEPT ![c] = @ /\ conn[c] = "fin"]
    /\ task' = [task EXCEPT ![c] = "leaving"]
    /\ UNCHANGED <<server, conn, inbox, handling, lastSent, activeClient>>

\* Dispatch returns: the handler of the message has run to its end.
HandlerReturns(c) ==
    /\ task[c] = "handling"
    /\ handling' = [handling EXCEPT ![c] = None]
    /\ task' = [task EXCEPT ![c] = "loop"]
    /\ UNCHANGED <<server, conn, connected, inbox, lastSent, activeClient>>

\* The handler throws: the connection is dropped and ClientError raised.
HandlerThrows(c) ==
    /\ task[c] = "handling"
    /\ handling' = [handling EXCEPT ![c] = None]
    /\ task' = [task EXCEPT ![c] = "leaving"]
    /\ UNCHANGED <<server, conn, connected, inbox, lastSent, activeClient>>

\* Mutation of SlotAfterLeaving: the finally block forgets the slot.
SlotKept(c) == activeClient

\* Mutation of SlotAfterLeaving: whoever leaves clears it.
SlotClearedByAll(c) == None

\* The slot is cleared only by its owner.
SlotAfterLeaving(c) == IF activeClient = c THEN None ELSE activeClient

\* The finally block, then the end of the using, which closes the socket
Leave(c) ==
    /\ task[c] = "leaving"
    /\ activeClient' = SlotAfterLeaving(c)
    /\ task' = [task EXCEPT ![c] = "none"]
    /\ conn' = [conn EXCEPT ![c] = "none"]
    /\ connected' = [connected EXCEPT ![c] = FALSE]
    /\ inbox' = [inbox EXCEPT ![c] = <<>>]
    /\ lastSent' = [lastSent EXCEPT ![c] = None]
    /\ UNCHANGED <<server, handling>>

\* Send, from any thread: a write to a broken socket fails, is swallowed, and
\* turns Connected off.  A write after the peer's close may or may not fail.
Send(m) ==
    IF activeClient = None THEN UNCHANGED <<connected, lastSent>>
    ELSE \/ /\ conn[activeClient] \in {"open", "fin"}
            /\ lastSent' = [lastSent EXCEPT ![activeClient] = m]
            /\ UNCHANGED connected
         \/ /\ conn[activeClient] \in {"fin", "reset"}
            /\ connected' = [connected EXCEPT ![activeClient] = FALSE]
            /\ UNCHANGED lastSent

SendMessage(m) ==
    /\ Send(m)
    /\ UNCHANGED <<server, conn, task, inbox, handling, activeClient>>

\* Stop: the token and the listener, then the slot under the lock.  Client
\* sockets are left open and their tasks are not awaited.
StopListening ==
    /\ server = "running"
    /\ server' = "cancelled"
    /\ UNCHANGED <<conn, connected, task, inbox, handling, lastSent, activeClient>>

StopClearsSlot ==
    /\ server = "cancelled"
    /\ server' = "stopped"
    /\ activeClient' = None
    /\ UNCHANGED <<conn, connected, task, inbox, handling, lastSent>>

----------------------------------------------------------------------------

Peer(c) == \/ \E m \in Messages : PeerSend(c, m)
           \/ PeerClose(c)
           \/ PeerReset(c)

Task(c) == \/ Register(c)
           \/ SpawnCancelled(c)
           \/ LoopCheck(c)
           \/ ReadMessage(c)
           \/ ReadFails(c)
           \/ HandlerReturns(c)
           \/ HandlerThrows(c)
           \/ Leave(c)

ServerNext ==
    \/ Start
    \/ StopListening
    \/ StopClearsSlot
    \/ \E c \in Clients : Accept(c) \/ Task(c) \/ Peer(c)
    \/ \E m \in OutMessages : SendMessage(m)

\* The thread pool runs every task that can run, and Stop runs to its end.
\* Nothing is assumed of the tablet or of when messages are sent.
ServerFairness ==
    /\ \A c \in Clients : WF_serverVars(Task(c))
    /\ WF_serverVars(StopClearsSlot)

ServerSpec == ServerInit /\ [][ServerNext]_serverVars /\ ServerFairness

----------------------------------------------------------------------------
(* Properties *)

ServerTypeOK ==
    /\ server \in {"new", "running", "cancelled", "stopped"}
    /\ conn \in [Clients -> ConnStates]
    /\ connected \in [Clients -> BOOLEAN]
    /\ task \in [Clients -> TaskStates]
    /\ inbox \in [Clients -> Seq(Messages)]
    /\ handling \in [Clients -> Messages \cup {None}]
    /\ lastSent \in [Clients -> OutMessages \cup {None}]
    /\ activeClient \in Clients \cup {None}

\* The slot never outlives the task that took it: it names a connection whose
\* finally block is still to come and whose socket is not yet disposed.  This
\* is what makes HasClient mean "somebody is there" to the reconcile loop.
SlotIsServed ==
    activeClient # None => Serving(activeClient) /\ conn[activeClient] # "none"

\* Only three things move the slot away from a connection: another connection
\* registers, the owner itself leaves, or Stop.  In particular the end of a
\* superseded connection never evicts the connection that superseded it
\* (the ReferenceEquals test in the finally block).
SlotHandover ==
    [][\A c \in Clients : activeClient = c /\ activeClient' # c =>
          \/ task[c] = "leaving" /\ task'[c] = "none"
          \/ \E d \in Clients : task[d] = "spawned" /\ task'[d] = "loop" /\ activeClient' = d
          \/ server' = "stopped"]_serverVars

\* A connection that has died does not keep the slot: either its task notices
\* and clears it, or another connection has taken it over.
DeadClientLosesSlot ==
    \A c \in Clients :
        activeClient = c /\ conn[c] \in {"fin", "reset"} ~> activeClient # c

\* Stop cannot interrupt a blocked read, but a connection gets at most one
\* more message handled: once a task is back at the loop condition of a stopped
\* server, no handler runs for it again.
AtMostOneLateMessage ==
    \A c \in Clients :
        [](server = "stopped" /\ task[c] \in {"loop", "leaving", "none"}
             => [](task[c] # "handling"))

\* A task that was already running when Stop cleared the slot may still take it,
\* and Send and HasClient would use it again; it does not stay taken.
StoppedSlotEmpties == (server = "stopped") ~> [](activeClient = None)
=============================================================================
