--------------------------- MODULE IndirectDisplay ---------------------------
(* The reference indirect display driver.  The framework (IddCx) powers the   *)
(* device, asks it for an adapter and monitors, asks for their modes, and     *)
(* assigns swap chains to monitors and takes them away, one callback of a     *)
(* monitor at a time.  Each swap chain is drained by a thread of its own,     *)
(* which the callback that replaces or removes it stops and waits for.  No    *)
(* monitor departs: the driver never asks for it, and the destructor of a     *)
(* monitor's context never runs, for the monitor's attributes name no cleanup *)
(* callback (only those of the device do).                                    *)
EXTENDS Integers, FiniteSets

CONSTANTS Connectors,   \* 0 .. IDD_SAMPLE_MONITOR_COUNT - 1
          MaxAdapters,  \* bound: entries into D0 that got an adapter
          MaxChains,    \* bound: swap chains the framework makes
          EdidCount,    \* connectors that have an EDID of s_SampleMonitors
          ModeCount     \* modes the driver offers for a monitor

ASSUME BoundsAssumption == MaxAdapters \in Nat /\ MaxChains \in Nat
ASSUME ModeCountAssumption == ModeCount \in Nat \ {0}
ASSUME ConnectorsAssumption == Connectors \subseteq Nat /\ EdidCount \in Nat

VARIABLES device,      \* "none", "added" (its context is attached) or "failed"
          adapter,     \* m_Adapter: 0, or the adapter the last InitAdapter got
          settingUp,   \* adapters whose initialisation has not been reported
          monitors,    \* the monitors that have arrived
          modes,       \* what the framework knows of each monitor's modes
          call,        \* the callback in progress for each monitor
          processor,   \* the SwapChainProcessor of each monitor, destructor included
          thread,      \* where the thread of each swap chain is
          terminate,   \* each processor's m_hTerminateEvent
          made,        \* the swap chains made so far
          deletes      \* how often each swap chain was deleted

deviceVars == <<device, adapter, settingUp>>
chainVars == <<call, processor, thread, terminate, made, deletes>>
iddVars == <<deviceVars, monitors, modes, chainVars>>

Adapters == 1 .. MaxAdapters
Chains == 1 .. MaxChains
None == 0
Monitors == Adapters \X Connectors
Idle == [op |-> "none", chain |-> None]

IddInit ==
  /\ device = "none" /\ adapter = 0 /\ settingUp = {}
  /\ monitors = {}
  /\ modes = [m \in Monitors |-> [announced |-> 0, filled |-> 0]]
  /\ call = [m \in Monitors |-> Idle]
  /\ processor = [m \in Monitors |-> None]
  /\ thread = [s \in Chains |-> "none"]
  /\ terminate = [s \in Chains |-> FALSE]
  /\ made = 0
  /\ deletes = [s \in Chains |-> 0]
-----------------------------------------------------------------------------
(* The device, its adapter and its monitors                                   *)

DeviceAdd ==
  /\ device = "none"
  /\ device' \in {"added", "failed"}
  /\ UNCHANGED <<adapter, settingUp, monitors, modes, chainVars>>

\* Every entry into D0 asks for an adapter, and a new one replaces m_Adapter.
InitAdapter ==
  /\ device = "added"
  /\ adapter < MaxAdapters
  /\ adapter' = adapter + 1
  /\ settingUp' = settingUp \union {adapter'}
  /\ UNCHANGED <<device, monitors, modes, chainVars>>

\* One monitor per connector, on m_Adapter and not on the adapter reported; a
\* monitor whose creation or arrival fails is left out.
AdapterInitFinished(a) ==
  /\ a \in settingUp
  /\ settingUp' = settingUp \ {a}
  /\ \E arriving \in SUBSET Connectors :
        monitors' = monitors \union {<<adapter, c>> : c \in arriving}
  /\ UNCHANGED <<device, adapter, modes, chainVars>>

AdapterInitFails(a) ==
  /\ a \in settingUp
  /\ settingUp' = settingUp \ {a}
  /\ UNCHANGED <<device, adapter, monitors, modes, chainVars>>

\* Mutation of ParseMonitorDescription: the size is not looked at.
ParseMonitorDescriptionUnchecked(size) == ModeCount

\* The mode callbacks say how many modes there are, and fill the buffer the
\* framework made for that many.  The one that reads the EDID checks the size;
\* the one for a monitor without EDID fills every buffer that is not empty.
ParseMonitorDescription(size) == IF size < ModeCount THEN 0 ELSE ModeCount
GetDefaultModes(size) == IF size = 0 THEN 0 ELSE ModeCount

QueryModes(m) ==
  /\ m \in monitors
  /\ LET size == modes[m].announced
     IN modes' = [modes EXCEPT ![m] =
          [announced |-> ModeCount,
           filled |-> IF m[2] < EdidCount THEN ParseMonitorDescription(size)
                                          ELSE GetDefaultModes(size)]]
  /\ UNCHANGED <<deviceVars, monitors, chainVars>>
-----------------------------------------------------------------------------
(* The swap chain callbacks                                                   *)

\* Mutations of Stopping and Stopped: the event is not raised; nobody waits.
StoppingSilently(m) == terminate' = terminate
StoppedAtOnce(m) == TRUE

\* m_ProcessingThread.reset(): the destructor raises the terminate event ...
Stopping(m) ==
  terminate' = IF processor[m] = None THEN terminate
               ELSE [terminate EXCEPT ![processor[m]] = TRUE]

\* ... and returns when the thread has ended; a thread that could not be made
\* is not waited for.
Stopped(m) == processor[m] # None => thread[processor[m]] \in {"ended", "none"}

AssignSwapChain(m) ==
  /\ m \in monitors /\ call[m] = Idle
  /\ made < MaxChains /\ made' = made + 1
  /\ call' = [call EXCEPT ![m] = [op |-> "assign", chain |-> made']]
  /\ Stopping(m)
  /\ UNCHANGED <<deviceVars, monitors, modes, processor, thread, deletes>>

\* The old processor is gone, the Direct3D device is up: the thread is started.
Assigned(m) ==
  LET s == call[m].chain
  IN /\ call[m].op = "assign" /\ Stopped(m)
     /\ processor' = [processor EXCEPT ![m] = s]
     /\ \/ thread' = [thread EXCEPT ![s] = "starting"]
        \/ UNCHANGED thread    \* CreateThread failed
     /\ call' = [call EXCEPT ![m] = Idle]
     /\ UNCHANGED <<deviceVars, monitors, modes, terminate, made, deletes>>

\* No Direct3D device on the render adapter: the swap chain is deleted, so that
\* the framework makes another.
NotAssigned(m) ==
  LET s == call[m].chain
  IN /\ call[m].op = "assign" /\ Stopped(m)
     /\ processor' = [processor EXCEPT ![m] = None]
     /\ deletes' = [deletes EXCEPT ![s] = @ + 1]
     /\ call' = [call EXCEPT ![m] = Idle]
     /\ UNCHANGED <<deviceVars, monitors, modes, thread, terminate, made>>

\* A monitor without a processor may lose its swap chain as well: nothing is
\* there to stop.
UnassignSwapChain(m) ==
  /\ m \in monitors /\ call[m] = Idle
  /\ call' = [call EXCEPT ![m] = [op |-> "unassign", chain |-> None]]
  /\ Stopping(m)
  /\ UNCHANGED <<deviceVars, monitors, modes, processor, thread, made, deletes>>

Unassigned(m) ==
  /\ call[m].op = "unassign" /\ Stopped(m)
  /\ processor' = [processor EXCEPT ![m] = None]
  /\ call' = [call EXCEPT ![m] = Idle]
  /\ UNCHANGED <<deviceVars, monitors, modes, thread, terminate, made, deletes>>
-----------------------------------------------------------------------------
(* The processing thread of a swap chain                                      *)

Moves(s, from, to) ==
  /\ thread[s] = from
  /\ thread' = [thread EXCEPT ![s] = to]
  /\ UNCHANGED <<deviceVars, monitors, modes, call, processor, made, deletes>>

SetDevice(s) ==
  /\ \/ Moves(s, "starting", "acquiring")
     \/ Moves(s, "starting", "leaving")
  /\ UNCHANGED terminate

\* Mutation of AcquireFails: an abandoned swap chain is deleted at once.
AcquireFailsDeletes(s) ==
  /\ thread[s] = "acquiring"
  /\ thread' = [thread EXCEPT ![s] = "leaving"]
  /\ deletes' = [deletes EXCEPT ![s] = @ + 1]
  /\ UNCHANGED <<deviceVars, monitors, modes, call, processor, terminate, made>>

\* ReleaseAndAcquireBuffer: a buffer, none yet, or an abandoned swap chain.
AcquirePending(s) == Moves(s, "acquiring", "waiting") /\ UNCHANGED terminate
AcquireBuffer(s) == Moves(s, "acquiring", "processing") /\ UNCHANGED terminate
AcquireFails(s) == Moves(s, "acquiring", "leaving") /\ UNCHANGED terminate

FinishFrame(s) ==
  /\ \/ Moves(s, "processing", "acquiring")
     \/ Moves(s, "processing", "leaving")
  /\ UNCHANGED terminate

\* The wait ends: a buffer is available or 16 ms have passed, or the event of
\* the destructor is seen, which resets it.  The buffer goes first.
WaitEnds(s) == Moves(s, "waiting", "acquiring") /\ UNCHANGED terminate
SeesTerminate(s) ==
  /\ terminate[s]
  /\ terminate' = [terminate EXCEPT ![s] = FALSE]
  /\ Moves(s, "waiting", "leaving")

\* The wait itself fails.
WaitFails(s) == Moves(s, "waiting", "leaving") /\ UNCHANGED terminate

\* However the loop was left, the thread deletes the swap chain.
DeleteSwapChain(s) ==
  /\ thread[s] = "leaving"
  /\ deletes' = [deletes EXCEPT ![s] = @ + 1]
  /\ thread' = [thread EXCEPT ![s] = "ended"]
  /\ UNCHANGED <<deviceVars, monitors, modes, call, processor, terminate, made>>

ThreadNext(s) ==
  \/ SetDevice(s)
  \/ AcquirePending(s) \/ AcquireBuffer(s) \/ AcquireFails(s)
  \/ FinishFrame(s) \/ WaitEnds(s) \/ SeesTerminate(s) \/ WaitFails(s)
  \/ DeleteSwapChain(s)

MonitorNext(m) ==
  \/ QueryModes(m)
  \/ AssignSwapChain(m) \/ Assigned(m) \/ NotAssigned(m)
  \/ UnassignSwapChain(m) \/ Unassigned(m)

IddNext ==
  \/ DeviceAdd \/ InitAdapter
  \/ \E a \in Adapters : AdapterInitFinished(a) \/ AdapterInitFails(a)
  \/ \E m \in Monitors : MonitorNext(m)
  \/ \E s \in Chains : ThreadNext(s)

IddSafety == IddInit /\ [][IddNext]_iddVars

\* Threads and callbacks run.  The loop looks at the terminate event only when
\* there is no buffer, and then a buffer goes first: that the thread ends
\* supposes that the framework runs out of buffers again and again.
RunsDry(s) == SF_iddVars(AcquirePending(s)) /\ SF_iddVars(SeesTerminate(s))

IddSpec ==
  /\ IddSafety
  /\ \A s \in Chains : /\ WF_iddVars(ThreadNext(s))
                       /\ RunsDry(s)
  /\ \A m \in Monitors : WF_iddVars(Assigned(m) \/ NotAssigned(m) \/ Unassigned(m))
-----------------------------------------------------------------------------
ThreadPlaces == {"none", "starting", "acquiring", "processing", "waiting",
                 "leaving", "ended"}
Alive(s) == thread[s] \notin {"none", "ended"}

\* The type invariant.
IddTypeOK ==
  /\ device \in {"none", "added", "failed"}
  /\ adapter \in 0 .. MaxAdapters
  /\ settingUp \subseteq Adapters
  /\ monitors \subseteq Monitors
  /\ modes \in [Monitors -> [announced : {0, ModeCount}, filled : {0, ModeCount}]]
  /\ call \in [Monitors -> [op : {"none", "assign", "unassign"},
                            chain : 0 .. MaxChains]]
  /\ processor \in [Monitors -> 0 .. MaxChains]
  /\ thread \in [Chains -> ThreadPlaces]
  /\ terminate \in [Chains -> BOOLEAN]
  /\ made \in 0 .. MaxChains
  /\ deletes \in [Chains -> Nat]

\* A processing thread runs only while its processor exists, so it never reads
\* a processor that the replacement of the swap chain freed, and a monitor is
\* never drained by two threads.
ThreadHasItsProcessor ==
  \A s \in Chains : Alive(s) => \E m \in Monitors : processor[m] = s

\* A swap chain is deleted at most once, by its thread or by the assignment
\* that failed, and never under a thread that still uses it; and it is deleted
\* when its thread is over, so that the framework makes another.
DeletedOnce ==
  \A s \in Chains :
    /\ deletes[s] <= 1
    /\ Alive(s) => deletes[s] = 0
    /\ thread[s] = "ended" => deletes[s] = 1

\* A mode callback never writes more modes than the buffer holds, which the
\* framework sized from its last answer.
ModesFitTheirBuffer ==
  [][\A m \in Monitors : modes'[m] # modes[m] =>
        modes'[m].filled <= modes[m].announced]_iddVars

\* A callback that stops a processor returns.
CallbackReturns == \A m \in Monitors : (call[m] # Idle) ~> (call[m] = Idle)
=============================================================================
