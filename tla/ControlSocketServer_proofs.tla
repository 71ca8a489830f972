--------------------- MODULE ControlSocketServer_proofs ---------------------
(***************************************************************************)
(* For every set of connections: the types, the slot invariant and the     *)
(* hand-over rule of the control server.                                   *)
(***************************************************************************)
EXTENDS ControlSocketServer, TLAPS

\* SlotIsServed is not inductive by itself: that a registering connection has a
\* socket is known only because every task has one from the moment it is spawned.
TaskHasSocket == \A c \in Clients : task[c] # "none" => conn[c] # "none"

ServerIInv == ServerTypeOK /\ TaskHasSocket /\ SlotIsServed

\* A write touches the record of the last message and the Connected flag only,
\* and keeps their types.
LEMMA SendTypes ==
    ASSUME ServerTypeOK, NEW m \in OutMessages, Send(m)
    PROVE  /\ connected' \in [Clients -> BOOLEAN]
           /\ lastSent' \in [Clients -> OutMessages \cup {None}]
  BY DEF Send, ServerTypeOK

LEMMA ServerInitInv == ServerInit => ServerIInv
  BY NoneAssumption
  DEF ServerInit, ServerIInv, ServerTypeOK, TaskHasSocket, SlotIsServed, ConnStates, TaskStates

\* Types alone: one step per action.
LEMMA ServerTypeStep == ServerTypeOK /\ [ServerNext]_serverVars => ServerTypeOK'
<1> SUFFICES ASSUME ServerTypeOK, [ServerNext]_serverVars
             PROVE  ServerTypeOK'
  OBVIOUS
<1> USE DEF ServerTypeOK, ConnStates, TaskStates
<1>1. CASE Start
  BY <1>1 DEF Start
<1>2. CASE StopListening
  BY <1>2 DEF StopListening
<1>3. CASE StopClearsSlot
  BY <1>3 DEF StopClearsSlot
<1>4. ASSUME NEW c \in Clients, Accept(c)
      PROVE  ServerTypeOK'
  BY <1>4 DEF Accept
<1>5. ASSUME NEW c \in Clients, Task(c)
      PROVE  ServerTypeOK'
  <2>1. CASE Register(c)
    BY <2>1 DEF Register
  <2>2. CASE SpawnCancelled(c)
    BY <2>2 DEF SpawnCancelled
  <2>3. CASE LoopCheck(c)
    BY <2>3 DEF LoopCheck, ReadsOn
  <2>4. CASE ReadMessage(c)
    BY <2>4 DEF ReadMessage
  <2>5. CASE ReadFails(c)
    BY <2>5 DEF ReadFails
  <2>6. CASE HandlerReturns(c)
    BY <2>6 DEF HandlerReturns
  <2>7. CASE HandlerThrows(c)
    BY <2>7 DEF HandlerThrows
  <2>8. CASE Leave(c)
    BY <2>8 DEF Leave, SlotAfterLeaving
  <2> QED BY <1>5, <2>1, <2>2, <2>3, <2>4, <2>5, <2>6, <2>7, <2>8 DEF Task
<1>6. ASSUME NEW c \in Clients, Peer(c)
      PROVE  ServerTypeOK'
  <2>1. ASSUME NEW m \in Messages, PeerSend(c, m)
        PROVE  ServerTypeOK'
    BY <2>1 DEF PeerSend
  <2>2. CASE PeerClose(c)
    BY <2>2 DEF PeerClose
  <2>3. CASE PeerReset(c)
    BY <2>3 DEF PeerReset
  <2> QED BY <1>6, <2>1, <2>2, <2>3 DEF Peer
<1>7. ASSUME NEW m \in OutMessages, SendMessage(m)
      PROVE  ServerTypeOK'
  BY <1>7, SendTypes DEF SendMessage
<1>8. CASE UNCHANGED serverVars
  BY <1>8 DEF serverVars
<1> QED BY <1>1, <1>2, <1>3, <1>4, <1>5, <1>6, <1>7, <1>8 DEF ServerNext

\* The slot and the sockets of the tasks: only Accept, the task's own steps and
\* Stop can disturb them.
LEMMA ServerSlotStep ==
    ServerIInv /\ [ServerNext]_serverVars => TaskHasSocket' /\ SlotIsServed'
<1> SUFFICES ASSUME ServerIInv, [ServerNext]_serverVars
             PROVE  TaskHasSocket' /\ SlotIsServed'
  OBVIOUS
<1> USE NoneAssumption
    DEF ServerIInv, ServerTypeOK, TaskHasSocket, SlotIsServed, Serving, ConnStates, TaskStates
<1>1. CASE Start
  BY <1>1 DEF Start
<1>2. CASE StopListening
  BY <1>2 DEF StopListening
<1>3. CASE StopClearsSlot
  BY <1>3 DEF StopClearsSlot
<1>4. ASSUME NEW c \in Clients, Accept(c)
      PROVE  TaskHasSocket' /\ SlotIsServed'
  BY <1>4 DEF Accept
<1>5. ASSUME NEW c \in Clients, Task(c)
      PROVE  TaskHasSocket' /\ SlotIsServed'
  <2>1. CASE Register(c)
    BY <2>1 DEF Register
  <2>2. CASE SpawnCancelled(c)
    BY <2>2 DEF SpawnCancelled
  <2>3. CASE LoopCheck(c)
    BY <2>3 DEF LoopCheck, ReadsOn
  <2>4. CASE ReadMessage(c)
    BY <2>4 DEF ReadMessage
  <2>5. CASE ReadFails(c)
    BY <2>5 DEF ReadFails
  <2>6. CASE HandlerReturns(c)
    BY <2>6 DEF HandlerReturns
  <2>7. CASE HandlerThrows(c)
    BY <2>7 DEF HandlerThrows
  <2>8. CASE Leave(c)
    BY <2>8 DEF Leave, SlotAfterLeaving
  <2> QED BY <1>5, <2>1, <2>2, <2>3, <2>4, <2>5, <2>6, <2>7, <2>8 DEF Task
<1>6. ASSUME NEW c \in Clients, Peer(c)
      PROVE  TaskHasSocket' /\ SlotIsServed'
  <2>1. ASSUME NEW m \in Messages, PeerSend(c, m)
        PROVE  TaskHasSocket' /\ SlotIsServed'
    BY <2>1 DEF PeerSend
  <2>2. CASE PeerClose(c)
    BY <2>2 DEF PeerClose
  <2>3. CASE PeerReset(c)
    BY <2>3 DEF PeerReset
  <2> QED BY <1>6, <2>1, <2>2, <2>3 DEF Peer
<1>7. ASSUME NEW m \in OutMessages, SendMessage(m)
      PROVE  TaskHasSocket' /\ SlotIsServed'
  BY <1>7 DEF SendMessage
<1>8. CASE UNCHANGED serverVars
  BY <1>8 DEF serverVars
<1> QED BY <1>1, <1>2, <1>3, <1>4, <1>5, <1>6, <1>7, <1>8 DEF ServerNext

\* Every reachable state of the server satisfies the inductive invariant.
THEOREM ServerInvariant == ServerSpec => []ServerIInv
<1>1. ServerInit => ServerIInv
  BY ServerInitInv
<1>2. ServerIInv /\ [ServerNext]_serverVars => ServerIInv'
  BY ServerTypeStep, ServerSlotStep DEF ServerIInv
<1> QED BY <1>1, <1>2, PTL DEF ServerSpec

\* The write slot always names a connection that is being served and has a
\* socket (ControlSocketServer.ServeClientAsync's registration and finally block).
THEOREM SlotIsServedTheorem == ServerSpec => [](ServerTypeOK /\ SlotIsServed)
<1>1. ServerIInv => ServerTypeOK /\ SlotIsServed
  BY DEF ServerIInv
<1> QED BY <1>1, ServerInvariant, PTL

\* Only the owner's own exit, a later registration or Stop takes the slot from a
\* connection.
THEOREM SlotHandoverTheorem == ServerSpec => SlotHandover
<1> DEFINE Rule == \A c \in Clients : activeClient = c /\ activeClient' # c =>
          \/ task[c] = "leaving" /\ task'[c] = "none"
          \/ \E d \in Clients : task[d] = "spawned" /\ task'[d] = "loop" /\ activeClient' = d
          \/ server' = "stopped"
<1>1. ServerTypeOK /\ [ServerNext]_serverVars => [Rule]_serverVars
  <2> SUFFICES ASSUME ServerTypeOK, ServerNext, NEW c \in Clients,
                      activeClient = c, activeClient' # c
               PROVE  \/ task[c] = "leaving" /\ task'[c] = "none"
                      \/ \E d \in Clients :
                            task[d] = "spawned" /\ task'[d] = "loop" /\ activeClient' = d
                      \/ server' = "stopped"
    OBVIOUS
  <2>1. CASE StopClearsSlot
    BY <2>1 DEF StopClearsSlot
  <2>2. ASSUME NEW d \in Clients, Task(d)
        PROVE  \/ task[c] = "leaving" /\ task'[c] = "none"
               \/ task[d] = "spawned" /\ task'[d] = "loop" /\ activeClient' = d
    <3>1. CASE Register(d)
      BY <3>1 DEF Register, ServerTypeOK
    <3>2. CASE Leave(d)
      BY <3>2 DEF Leave, SlotAfterLeaving, ServerTypeOK
    <3> QED BY <2>2, <3>1, <3>2 DEF Task, SpawnCancelled, LoopCheck, ReadMessage, ReadFails,
                                    HandlerReturns, HandlerThrows
  <2>3. CASE Start \/ StopListening \/ \E m \in OutMessages : SendMessage(m)
    BY <2>3 DEF Start, StopListening, SendMessage
  <2>4. ASSUME NEW d \in Clients, Accept(d) \/ Peer(d)
        PROVE  FALSE
    BY <2>4 DEF Accept, Peer, PeerSend, PeerClose, PeerReset
  <2> QED BY <2>1, <2>2, <2>3, <2>4 DEF ServerNext
<1>2. ServerIInv => ServerTypeOK
  BY DEF ServerIInv
<1> QED BY <1>1, <1>2, ServerInvariant, PTL DEF ServerSpec, SlotHandover

\* Once the server is stopped, no task of a connection gets from the loop condition
\* to a read again, and nothing connects.
Over(c) == server = "stopped" /\ task[c] \in {"loop", "leaving", "none"}

LEMMA OverStep ==
    ASSUME NEW c \in Clients, ServerTypeOK, Over(c), [ServerNext]_serverVars
    PROVE  Over(c)'
<1> USE DEF Over, ServerTypeOK
<1>1. CASE Start \/ StopListening \/ StopClearsSlot \/ UNCHANGED serverVars
  BY <1>1 DEF Start, StopListening, StopClearsSlot, serverVars
<1>2. ASSUME NEW d \in Clients, Accept(d) \/ Peer(d)
      PROVE  Over(c)'
  BY <1>2 DEF Accept, Peer, PeerSend, PeerClose, PeerReset
<1>3. ASSUME NEW d \in Clients, Task(d)
      PROVE  Over(c)'
  BY <1>3 DEF Task, Register, SpawnCancelled, LoopCheck, ReadsOn, ReadMessage, ReadFails,
              HandlerReturns, HandlerThrows, Leave
<1>4. ASSUME NEW m \in OutMessages, SendMessage(m)
      PROVE  Over(c)'
  BY <1>4 DEF SendMessage
<1> QED BY <1>1, <1>2, <1>3, <1>4 DEF ServerNext

\* Stop does not interrupt a read that blocks, but a connection whose task is back
\* at the loop condition after it has no handler run for it again.
THEOREM LateMessageTheorem == ServerSpec => AtMostOneLateMessage
<1>1. ASSUME NEW c \in Clients
      PROVE  ServerSpec => [](Over(c) => [](task[c] # "handling"))
  <2>1. ServerIInv /\ Over(c) /\ [ServerNext]_serverVars => Over(c)'
    BY OverStep DEF ServerIInv
  <2>2. Over(c) => task[c] # "handling"
    BY DEF Over
  <2> QED BY <2>1, <2>2, ServerInvariant, PTL DEF ServerSpec
<1> QED BY <1>1 DEF AtMostOneLateMessage, Over

=============================================================================
