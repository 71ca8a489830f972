------------------------ MODULE IndirectDisplay_proofs ------------------------
(* For any monitors and any number of swap chains: the types, that no thread  *)
(* outlives its processor, and that every swap chain is deleted once.         *)
EXTENDS IndirectDisplay, TLAPS

\* No swap chain has two processors.
OneOwner ==
  \A m, n \in Monitors : processor[m] = processor[n] /\ processor[m] # None => m = n

\* A swap chain that is being assigned is nobody's yet, and untouched.
AssigningFresh ==
  \A m \in Monitors :
    IF call[m].op = "assign"
      THEN /\ call[m].chain \in 1 .. made
           /\ thread[call[m].chain] = "none" /\ deletes[call[m].chain] = 0
           /\ \A n \in Monitors : /\ processor[n] # call[m].chain
                                  /\ call[n].chain = call[m].chain => n = m
      ELSE call[m].chain = None

\* A swap chain that is not made yet is not there.
NotMadeYet ==
  /\ \A m \in Monitors : processor[m] <= made
  /\ \A s \in Chains : s > made => thread[s] = "none" /\ deletes[s] = 0

ChainIInv == /\ OneOwner /\ AssigningFresh /\ NotMadeYet
             /\ ThreadHasItsProcessor /\ DeletedOnce

\* An adapter reports only after it was asked for.
AskedFor == settingUp \subseteq 1 .. adapter

IddIInv == IddTypeOK /\ AskedFor /\ ChainIInv

LEMMA InitIInv == IddInit => IddIInv
<1> SUFFICES ASSUME IddInit PROVE IddIInv
  OBVIOUS
<1> USE BoundsAssumption, ModeCountAssumption
        DEF IddInit, Idle, None
<1>1. IddTypeOK /\ AskedFor
  BY DEF IddTypeOK, Adapters, AskedFor, ThreadPlaces
<1>2. OneOwner /\ AssigningFresh /\ NotMadeYet
  BY DEF OneOwner, AssigningFresh, NotMadeYet
<1>3. ThreadHasItsProcessor /\ DeletedOnce
  BY DEF ThreadHasItsProcessor, DeletedOnce, Alive
<1> QED
  BY <1>1, <1>2, <1>3 DEF IddIInv, ChainIInv
-----------------------------------------------------------------------------
\* What the framework does with the device touches no swap chain.
DeviceStep ==
  \/ DeviceAdd \/ InitAdapter
  \/ \E a \in Adapters : AdapterInitFinished(a) \/ AdapterInitFails(a)
  \/ \E m \in Monitors : QueryModes(m)

LEMMA DeviceKeepsIInv ==
  ASSUME IddIInv, DeviceStep
  PROVE  IddIInv'
<1>1. UNCHANGED chainVars
  BY DEF DeviceStep, DeviceAdd, InitAdapter, AdapterInitFinished,
     AdapterInitFails, QueryModes
<1>2. ChainIInv'
  BY <1>1 DEF IddIInv, ChainIInv, chainVars, OneOwner, AssigningFresh,
     NotMadeYet, ThreadHasItsProcessor, DeletedOnce, Alive
<1> USE BoundsAssumption, ModeCountAssumption
        DEF IddIInv, IddTypeOK, AskedFor, Adapters, deviceVars
<1>3. CASE DeviceAdd
  BY <1>1, <1>2, <1>3 DEF DeviceAdd, chainVars
<1>4. CASE InitAdapter
  BY <1>1, <1>2, <1>4 DEF InitAdapter, chainVars
<1>5. ASSUME NEW a \in Adapters, AdapterInitFinished(a) \/ AdapterInitFails(a)
      PROVE  IddIInv'
  <2>1. monitors' \subseteq Monitors
    <3>1. CASE AdapterInitFails(a)
      BY <3>1 DEF AdapterInitFails
    <3>2. CASE AdapterInitFinished(a)
      <4>1. PICK arriving \in SUBSET Connectors :
              monitors' = monitors \union {<<adapter, c>> : c \in arriving}
        BY <3>2 DEF AdapterInitFinished
      <4>2. a \in 1 .. adapter /\ adapter \in 0 .. MaxAdapters
        BY <3>2 DEF AdapterInitFinished
      <4>3. adapter \in Adapters
        BY <4>2
      <4> QED
        BY <4>1, <4>3 DEF Monitors
    <3> QED
      BY <1>5, <3>1, <3>2
  <2> QED
    BY <1>1, <1>2, <1>5, <2>1 DEF AdapterInitFinished, AdapterInitFails, chainVars
<1>6. ASSUME NEW m \in Monitors, QueryModes(m)
      PROVE  IddIInv'
  BY <1>1, <1>2, <1>6 DEF QueryModes, chainVars, ParseMonitorDescription,
     GetDefaultModes
<1> QED
  BY <1>3, <1>4, <1>5, <1>6 DEF DeviceStep
-----------------------------------------------------------------------------
\* What a callback of a monitor, or a thread, leaves alone.
LEMMA OtherTypes ==
  ASSUME IddIInv, UNCHANGED <<deviceVars, monitors, modes>>,
         call' \in [Monitors -> [op : {"none", "assign", "unassign"},
                                 chain : 0 .. MaxChains]],
         processor' \in [Monitors -> 0 .. MaxChains],
         thread' \in [Chains -> ThreadPlaces],
         terminate' \in [Chains -> BOOLEAN],
         made' \in 0 .. MaxChains,
         deletes' \in [Chains -> Nat]
  PROVE  IddTypeOK' /\ AskedFor'
  BY DEF IddIInv, IddTypeOK, AskedFor, deviceVars

ThreadTypes ==
  /\ call \in [Monitors -> [op : {"none", "assign", "unassign"},
                            chain : 0 .. MaxChains]]
  /\ processor \in [Monitors -> 0 .. MaxChains]
  /\ thread \in [Chains -> ThreadPlaces]
  /\ terminate \in [Chains -> BOOLEAN]
  /\ made \in 0 .. MaxChains
  /\ deletes \in [Chains -> Nat]

LEMMA TheTypes ==
  ASSUME IddIInv
  PROVE  ThreadTypes
  BY DEF IddIInv, IddTypeOK, ThreadTypes

\* A thread that lives moves, or ends with the deletion of its swap chain.
LEMMA ThreadMoves ==
  ASSUME IddIInv, NEW s \in Chains, NEW to \in ThreadPlaces, Alive(s),
         UNCHANGED <<deviceVars, monitors, modes, call, processor, made>>,
         terminate' \in [Chains -> BOOLEAN],
         thread' = [thread EXCEPT ![s] = to],
         to # "none",
         deletes' = IF to = "ended" THEN [deletes EXCEPT ![s] = @ + 1] ELSE deletes
  PROVE  IddIInv'
<1>0. ThreadTypes
  BY TheTypes
<1>1. /\ thread' \in [Chains -> ThreadPlaces] /\ deletes' \in [Chains -> Nat]
      /\ thread'[s] = to /\ thread[s] # "none" /\ thread[s] # "ended"
      /\ \A t \in Chains : t # s => thread'[t] = thread[t] /\ deletes'[t] = deletes[t]
      /\ deletes'[s] = IF to = "ended" THEN 1 ELSE 0
      /\ deletes[s] = 0
  BY <1>0 DEF ThreadTypes, Alive, IddIInv, ChainIInv, DeletedOnce
<1>2. IddTypeOK' /\ AskedFor'
  BY <1>0, <1>1, OtherTypes DEF ThreadTypes
<1>3. OneOwner'
  BY DEF IddIInv, ChainIInv, OneOwner
<1>4. AssigningFresh'
  <2>1. \A m \in Monitors : call[m].op = "assign" => call[m].chain \in Chains
    BY <1>0 DEF ThreadTypes, Chains, IddIInv, ChainIInv, AssigningFresh
  <2>2. \A m \in Monitors : call[m].op = "assign" => call[m].chain # s
    BY <1>1 DEF IddIInv, ChainIInv, AssigningFresh
  <2> QED
    BY <1>1, <2>1, <2>2 DEF IddIInv, ChainIInv, AssigningFresh
<1>5. NotMadeYet'
  <2>1. ~(s > made)
    BY <1>1 DEF IddIInv, ChainIInv, NotMadeYet
  <2> QED
    BY <1>1, <2>1 DEF IddIInv, ChainIInv, NotMadeYet
<1>6. ThreadHasItsProcessor' /\ DeletedOnce'
  <2>1. \A t \in Chains : Alive(t)' => Alive(t)
    BY <1>1 DEF Alive
  <2> QED
    BY <1>1, <2>1 DEF IddIInv, ChainIInv, ThreadHasItsProcessor, DeletedOnce, Alive
<1> QED
  BY <1>2, <1>3, <1>4, <1>5, <1>6 DEF IddIInv, ChainIInv

LEMMA ThreadKeepsIInv ==
  ASSUME IddIInv, NEW s \in Chains, ThreadNext(s)
  PROVE  IddIInv'
<1>0. ThreadTypes /\ TRUE \in BOOLEAN /\ FALSE \in BOOLEAN
  BY TheTypes
<1>1. PICK to \in ThreadPlaces :
        /\ to # "none"
        /\ thread' = [thread EXCEPT ![s] = to]
        /\ deletes' = IF to = "ended" THEN [deletes EXCEPT ![s] = @ + 1] ELSE deletes
  BY DEF ThreadNext, Moves, SetDevice, AcquirePending, AcquireBuffer,
     AcquireFails, FinishFrame, WaitEnds, SeesTerminate, WaitFails,
     DeleteSwapChain, ThreadPlaces
<1>2. Alive(s) /\ UNCHANGED <<deviceVars, monitors, modes, call, processor, made>>
  BY DEF ThreadNext, Moves, SetDevice, AcquirePending, AcquireBuffer,
     AcquireFails, FinishFrame, WaitEnds, SeesTerminate, WaitFails,
     DeleteSwapChain, Alive
<1>3. terminate' = terminate \/ terminate' = [terminate EXCEPT ![s] = FALSE]
  BY DEF ThreadNext, Moves, SetDevice, AcquirePending, AcquireBuffer,
     AcquireFails, FinishFrame, WaitEnds, SeesTerminate, WaitFails,
     DeleteSwapChain
<1>4. terminate' \in [Chains -> BOOLEAN]
  BY <1>0, <1>3, Zenon DEF ThreadTypes
<1> QED
  BY <1>1, <1>2, <1>4, ThreadMoves
-----------------------------------------------------------------------------
LEMMA StoppingTypes ==
  ASSUME ThreadTypes, NEW m \in Monitors, Stopping(m)
  PROVE  terminate' \in [Chains -> BOOLEAN]
  BY Zenon DEF ThreadTypes, Stopping

\* A swap chain is offered to a monitor.
LEMMA AssignKeepsIInv ==
  ASSUME IddIInv, NEW m \in Monitors, AssignSwapChain(m)
  PROVE  IddIInv'
<1>0. ThreadTypes
  BY TheTypes
<1> DEFINE c == [op |-> "assign", chain |-> made']
<1>1. /\ call[m] = Idle /\ made' = made + 1 /\ made < MaxChains
      /\ call' = [call EXCEPT ![m] = c]
      /\ UNCHANGED <<deviceVars, monitors, modes, processor, thread, deletes>>
  BY DEF AssignSwapChain
<1>2. made' \in 0 .. MaxChains /\ made' \in Chains /\ made \in Nat
  BY <1>0, <1>1, BoundsAssumption DEF ThreadTypes, Chains
<1>3. c \in [op : {"none", "assign", "unassign"}, chain : 0 .. MaxChains]
  BY <1>2
<1>4. IddTypeOK' /\ AskedFor'
  <2>1. terminate' \in [Chains -> BOOLEAN]
    BY <1>0, StoppingTypes DEF AssignSwapChain
  <2>2. call' \in [Monitors -> [op : {"none", "assign", "unassign"}, chain : 0 .. MaxChains]]
    BY <1>0, <1>1, <1>3 DEF ThreadTypes
  <2> QED
    BY <1>0, <1>1, <1>2, <2>1, <2>2, OtherTypes DEF ThreadTypes
<1>5. /\ call'[m].op = "assign" /\ call'[m].chain = made'
      /\ \A n \in Monitors \ {m} : call'[n] = call[n]
  BY <1>0, <1>1 DEF ThreadTypes
<1>6. OneOwner' /\ ThreadHasItsProcessor' /\ DeletedOnce'
  BY <1>1 DEF IddIInv, ChainIInv, OneOwner, ThreadHasItsProcessor, DeletedOnce, Alive
<1>7. NotMadeYet'
  <2>1. \A n \in Monitors : processor[n] <= made + 1
    BY <1>0, <1>2 DEF ThreadTypes, IddIInv, ChainIInv, NotMadeYet
  <2>2. \A s \in Chains : s > made + 1 => s > made
    BY <1>2 DEF Chains
  <2> QED
    BY <1>1, <2>1, <2>2 DEF IddIInv, ChainIInv, NotMadeYet
<1>8. AssigningFresh'
  <2>1. thread[made'] = "none" /\ deletes[made'] = 0
    BY <1>1, <1>2 DEF IddIInv, ChainIInv, NotMadeYet
  <2>2. ASSUME NEW n \in Monitors
        PROVE  /\ processor[n] # made'
               /\ call[n].chain \in 0 .. made
    BY <1>0, <1>1, <1>2 DEF ThreadTypes, IddIInv, ChainIInv, NotMadeYet,
       AssigningFresh, None
  <2>3. \A n \in Monitors : call[n].chain # made'
    BY <1>1, <1>2, <2>2
  <2>4. \A n \in Monitors : call'[n].chain = made' => n = m
    BY <1>5, <2>3
  <2>5. \A n \in Monitors \ {m} : call[n].op = "assign" => call[n].chain \in 1 .. made'
    BY <1>1, <1>2 DEF IddIInv, ChainIInv, AssigningFresh
  <2> QED
    BY <1>1, <1>2, <1>5, <2>1, <2>2, <2>3, <2>4, <2>5
    DEF IddIInv, ChainIInv, AssigningFresh
<1> QED
  BY <1>4, <1>6, <1>7, <1>8 DEF IddIInv, ChainIInv

\* A callback gives up the processor of its monitor, whose thread is over, for
\* no other or for that of the swap chain being assigned.
LEMMA ReplaceKeepsIInv ==
  ASSUME IddIInv, NEW m \in Monitors, NEW s, Stopped(m),
         \/ s = None
         \/ call[m].op = "assign" /\ s = call[m].chain,
         UNCHANGED <<deviceVars, monitors, modes, terminate, made>>,
         processor' = [processor EXCEPT ![m] = s],
         call' = [call EXCEPT ![m] = Idle],
         \/ UNCHANGED <<thread, deletes>>
         \/ /\ s # None /\ thread' = [thread EXCEPT ![s] = "starting"]
            /\ UNCHANGED deletes
         \/ /\ s = None /\ call[m].op = "assign" /\ UNCHANGED thread
            /\ deletes' = [deletes EXCEPT ![call[m].chain] = @ + 1]
  PROVE  IddIInv'
<1>0. ThreadTypes
  BY TheTypes
<1> DEFINE t == call[m].chain
<1>1. t \in 0 .. made /\ made \in 0 .. MaxChains
  BY <1>0 DEF ThreadTypes, IddIInv, ChainIInv, AssigningFresh, None
<1>2. call[m].op = "assign" =>
        /\ t \in Chains /\ t <= made /\ t # None
        /\ thread[t] = "none" /\ deletes[t] = 0
        /\ \A n \in Monitors : /\ processor[n] # t
                               /\ call[n].chain = t => n = m
  BY <1>1, BoundsAssumption DEF Chains, None, IddIInv, ChainIInv, AssigningFresh
<1>3. s \in 0 .. MaxChains /\ s <= made /\ (s # None => s \in Chains)
  BY <1>1, <1>2, BoundsAssumption DEF None, Chains
<1>4. /\ processor' \in [Monitors -> 0 .. MaxChains]
      /\ processor'[m] = s
      /\ \A n \in Monitors \ {m} : processor'[n] = processor[n]
  BY <1>0, <1>3 DEF ThreadTypes
<1>5. /\ call' \in [Monitors -> [op : {"none", "assign", "unassign"}, chain : 0 .. MaxChains]]
      /\ call'[m].op = "none" /\ call'[m].chain = None
      /\ \A n \in Monitors \ {m} : call'[n] = call[n]
  BY <1>0, BoundsAssumption DEF ThreadTypes, Idle, None
<1>6. /\ thread' \in [Chains -> ThreadPlaces]
      /\ \A u \in Chains : u # s => thread'[u] = thread[u]
      /\ s # None => thread'[s] \in {"none", "starting"}
  BY <1>0, <1>2, <1>3 DEF ThreadTypes, ThreadPlaces
<1>7. /\ deletes' \in [Chains -> Nat]
      /\ \A u \in Chains : u # t => deletes'[u] = deletes[u]
      /\ s # None => deletes' = deletes
      /\ call[m].op = "assign" => deletes'[t] \in 0 .. 1
      /\ call[m].op # "assign" => deletes' = deletes
  BY <1>0, <1>2 DEF ThreadTypes
<1> HIDE DEF t
<1>8. IddTypeOK' /\ AskedFor'
  BY <1>0, <1>4, <1>5, <1>6, <1>7, OtherTypes DEF ThreadTypes
<1>9. OneOwner'
  <2>1. \A n \in Monitors \ {m} : s # None => processor[n] # s
    BY <1>2 DEF t
  <2> QED
    BY <1>4, <2>1 DEF IddIInv, ChainIInv, OneOwner
<1>10. NotMadeYet'
  <2>1. \A n \in Monitors : processor'[n] <= made
    BY <1>3, <1>4 DEF IddIInv, ChainIInv, NotMadeYet
  <2>2. \A u \in Chains : u > made => u # s /\ (call[m].op = "assign" => u # t)
    BY <1>1, <1>2, <1>3 DEF Chains
  <2>3. \A u \in Chains : u > made => thread'[u] = thread[u] /\ deletes'[u] = deletes[u]
    BY <1>6, <1>7, <2>2
  <2> QED
    BY <2>1, <2>3 DEF IddIInv, ChainIInv, NotMadeYet
<1>11. AssigningFresh'
  <2>1. ASSUME NEW n \in Monitors \ {m}, call[n].op = "assign"
        PROVE  /\ call[n].chain \in Chains
               /\ call[n].chain # s
               /\ call[n].chain # t
    <3>1. call[n].chain \in 1 .. made
      BY <2>1 DEF IddIInv, ChainIInv, AssigningFresh
    <3>2. call[n].chain \in Chains /\ call[n].chain # None
      BY <1>1, <3>1, BoundsAssumption DEF Chains, None
    <3>3. call[m].op = "assign" \/ t = None
      BY DEF t, IddIInv, ChainIInv, AssigningFresh
    <3> QED
      BY <1>2, <3>2, <3>3 DEF t
  <2>2. ASSUME NEW n \in Monitors \ {m}, call[n].op = "assign"
        PROVE  /\ thread'[call[n].chain] = "none" /\ deletes'[call[n].chain] = 0
               /\ \A p \in Monitors : /\ processor'[p] # call[n].chain
                                      /\ call'[p].chain = call[n].chain => p = n
    <3>1. call[n].chain \in Chains /\ call[n].chain # s /\ call[n].chain # t
             /\ call[n].chain # None
      BY <2>1, <2>2 DEF Chains, None
    <3>2. /\ thread[call[n].chain] = "none" /\ deletes[call[n].chain] = 0
          /\ \A p \in Monitors : /\ processor[p] # call[n].chain
                                 /\ call[p].chain = call[n].chain => p = n
      BY <2>2 DEF IddIInv, ChainIInv, AssigningFresh
    <3> QED
      BY <1>4, <1>5, <1>6, <1>7, <3>1, <3>2
  <2> QED
    BY <1>5, <2>2 DEF IddIInv, ChainIInv, AssigningFresh
<1>12. ThreadHasItsProcessor'
  <2>1. ASSUME NEW u \in Chains, Alive(u)'
        PROVE  \E n \in Monitors : processor'[n] = u
    <3>1. CASE u = s
      BY <1>4, <3>1
    <3>2. CASE u # s
      <4>1. Alive(u)
        BY <1>6, <2>1, <3>2 DEF Alive
      <4>2. PICK n \in Monitors : processor[n] = u
        BY <4>1 DEF IddIInv, ChainIInv, ThreadHasItsProcessor
      <4>3. n # m
        BY <4>1, <4>2 DEF Stopped, Alive, None, Chains
      <4> QED
        BY <1>4, <4>2, <4>3
    <3> QED
      BY <3>1, <3>2
  <2> QED
    BY <2>1 DEF ThreadHasItsProcessor
<1>13. DeletedOnce'
  <2>1. ASSUME NEW u \in Chains
        PROVE  /\ deletes'[u] <= 1
               /\ Alive(u)' => deletes'[u] = 0
               /\ thread'[u] = "ended" => deletes'[u] = 1
    <3>0. /\ deletes[u] <= 1 /\ (Alive(u) => deletes[u] = 0)
          /\ thread[u] = "ended" => deletes[u] = 1
      BY DEF IddIInv, ChainIInv, DeletedOnce
    <3>1. CASE u = s
      <4>1. u # None
        BY DEF Chains, None
      <4>2. deletes' = deletes /\ thread'[u] # "ended" /\ deletes[u] = 0
        BY <1>2, <1>6, <1>7, <3>1, <4>1 DEF t
      <4> QED
        BY <4>2
    <3>2. CASE u # s /\ u = t /\ call[m].op = "assign"
      <4>1. deletes'[u] \in 0 .. 1 /\ thread'[u] = "none"
        BY <1>2, <1>6, <1>7, <3>2
      <4> QED
        BY <4>1 DEF Alive
    <3>3. CASE u # s /\ ~(u = t /\ call[m].op = "assign")
      BY <1>6, <1>7, <3>0, <3>3 DEF Alive
    <3> QED
      BY <3>1, <3>2, <3>3
  <2> QED
    BY <2>1 DEF DeletedOnce
<1> QED
  BY <1>8, <1>9, <1>10, <1>11, <1>12, <1>13 DEF IddIInv, ChainIInv

\* Only the terminate event is raised.
LEMMA UnassignKeepsIInv ==
  ASSUME IddIInv, NEW m \in Monitors, UnassignSwapChain(m)
  PROVE  IddIInv'
<1>0. ThreadTypes
  BY TheTypes
<1> DEFINE c == [op |-> "unassign", chain |-> None]
<1>1. /\ call[m] = Idle /\ call' = [call EXCEPT ![m] = c]
      /\ UNCHANGED <<deviceVars, monitors, modes, processor, thread, made, deletes>>
  BY DEF UnassignSwapChain
<1>2. /\ call' \in [Monitors -> [op : {"none", "assign", "unassign"}, chain : 0 .. MaxChains]]
      /\ \A n \in Monitors : call'[n].chain = call[n].chain
                               /\ (call'[n].op = "assign" <=> call[n].op = "assign")
  BY <1>0, <1>1, BoundsAssumption DEF ThreadTypes, Idle, None
<1>3. terminate' \in [Chains -> BOOLEAN]
  BY <1>0, StoppingTypes DEF UnassignSwapChain
<1>4. IddTypeOK' /\ AskedFor'
  BY <1>0, <1>1, <1>2, <1>3, OtherTypes DEF ThreadTypes
<1>5. OneOwner' /\ NotMadeYet' /\ ThreadHasItsProcessor' /\ DeletedOnce'
  BY <1>1 DEF IddIInv, ChainIInv, OneOwner, NotMadeYet, ThreadHasItsProcessor,
     DeletedOnce, Alive
<1>6. AssigningFresh'
  BY <1>1, <1>2 DEF IddIInv, ChainIInv, AssigningFresh
<1> QED
  BY <1>4, <1>5, <1>6 DEF IddIInv, ChainIInv

LEMMA StepKeepsIInv == IddIInv /\ [IddNext]_iddVars => IddIInv'
<1> SUFFICES ASSUME IddIInv, [IddNext]_iddVars PROVE IddIInv'
  OBVIOUS
<1>1. ASSUME NEW m \in Monitors, Assigned(m)
      PROVE  IddIInv'
  <2>1. call[m].chain # None
    BY <1>1 DEF Assigned, IddIInv, ChainIInv, AssigningFresh, None
  <2> QED
    BY <1>1, <2>1, ReplaceKeepsIInv DEF Assigned
<1>2. ASSUME NEW m \in Monitors, NotAssigned(m)
      PROVE  IddIInv'
  BY <1>2, ReplaceKeepsIInv DEF NotAssigned
<1>3. ASSUME NEW m \in Monitors, Unassigned(m)
      PROVE  IddIInv'
  BY <1>3, ReplaceKeepsIInv DEF Unassigned
<1>4. CASE DeviceStep
  BY <1>4, DeviceKeepsIInv
<1>5. CASE UNCHANGED iddVars
  BY <1>5 DEF iddVars, deviceVars, chainVars, IddIInv, ChainIInv, IddTypeOK,
     AskedFor, OneOwner, AssigningFresh, NotMadeYet, ThreadHasItsProcessor,
     DeletedOnce, Alive
<1> QED
  BY <1>1, <1>2, <1>3, <1>4, <1>5, ThreadKeepsIInv, AssignKeepsIInv,
     UnassignKeepsIInv DEF IddNext, MonitorNext, DeviceStep

LEMMA IddInvariant == IddSafety => []IddIInv
  BY InitIInv, StepKeepsIInv, PTL DEF IddSafety

\* The types, for any monitors and any bounds.
THEOREM IddTypeCorrect == IddSafety => []IddTypeOK
<1>1. IddIInv => IddTypeOK
  BY DEF IddIInv
<1> QED
  BY <1>1, IddInvariant, PTL

\* ThreadHasItsProcessor: the destructor that waits for the thread is what
\* keeps it, so the thread never reads a processor that was freed.
THEOREM ThreadHasItsProcessorTheorem == IddSafety => []ThreadHasItsProcessor
<1>1. IddIInv => ThreadHasItsProcessor
  BY DEF IddIInv, ChainIInv
<1> QED
  BY <1>1, IddInvariant, PTL

\* DeletedOnce: the assignment that fails and the thread that ends never delete
\* the same swap chain.
THEOREM DeletedOnceTheorem == IddSafety => []DeletedOnce
<1>1. IddIInv => DeletedOnce
  BY DEF IddIInv, ChainIInv
<1> QED
  BY <1>1, IddInvariant, PTL

\* ModesFitTheirBuffer: the framework's buffers are empty or as long as the
\* driver said, so the callback that checks nothing does not overrun one either.
THEOREM ModesFitTheirBufferTheorem == IddSafety => ModesFitTheirBuffer
<1>1. IddIInv /\ [IddNext]_iddVars
        => [\A m \in Monitors : modes'[m] # modes[m] =>
              modes'[m].filled <= modes[m].announced]_iddVars
  <2> SUFFICES ASSUME IddIInv, IddNext, NEW m \in Monitors, modes'[m] # modes[m]
               PROVE  modes'[m].filled <= modes[m].announced
    OBVIOUS
  <2>1. QueryModes(m)
    <3>1. PICK n \in Monitors : QueryModes(n)
      BY DEF IddNext, DeviceAdd, InitAdapter, AdapterInitFinished, AdapterInitFails, MonitorNext,
         AssignSwapChain, Assigned, NotAssigned, UnassignSwapChain, Unassigned, ThreadNext,
         SetDevice, Moves, AcquirePending, AcquireBuffer, AcquireFails, FinishFrame, WaitEnds,
         SeesTerminate, WaitFails, DeleteSwapChain
    <3>2. n = m
      BY <3>1 DEF QueryModes, IddIInv, IddTypeOK
    <3> QED
      BY <3>1, <3>2
  <2>2. modes[m].announced \in {0, ModeCount} /\ modes \in [Monitors -> [announced : {0, ModeCount}, filled : {0, ModeCount}]]
    BY DEF IddIInv, IddTypeOK
  <2> QED
    BY <2>1, <2>2, ModeCountAssumption DEF QueryModes, ParseMonitorDescription, GetDefaultModes
<1> QED
  BY <1>1, IddInvariant, PTL DEF IddSafety, ModesFitTheirBuffer

=============================================================================
