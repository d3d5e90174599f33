---------------------------- MODULE AsyncLaunch ----------------------------
(***************************************************************************)
(* Synchronous and asynchronous launches, the events they give back, and   *)
(* the GIL (core/kernel_launcher.py, dpctl_iface/_intrinsic.py,            *)
(* experimental/nrt_reserve_meminfo.cpp).                                  *)
(*                                                                         *)
(* A jitted function holds the GIL from its entry to its return, also      *)
(* while it waits for an event.  The host task of an asynchronous launch   *)
(* needs the GIL when it drops the last reference on an unboxed argument,  *)
(* because the destructor decrefs the Python object behind it.             *)
(***************************************************************************)
EXTENDS Integers, FiniteSets

CONSTANTS Thread,    \* Python threads
          Launch,    \* kernel launches of the whole program
          InOrder,   \* is the queue in order?
          SyncCalls, \* does the program use call_kernel?
          DepKinds,  \* kinds of event it passes as dependent events
          JitWaits,  \* kinds of event it waits for inside dpjit functions
          Free, NoEvent

Kind == {"device", "host"}
Event == Launch \X Kind
DeviceEvent(l) == <<l, "device">>
HostEvent(l) == <<l, "host">>

ASSUME LaunchAssumption ==
  /\ Free \notin Thread
  /\ NoEvent \notin Event
  /\ InOrder \in BOOLEAN /\ SyncCalls \in BOOLEAN
  /\ DepKinds \subseteq Kind /\ JitWaits \subseteq Kind

VARIABLES
  gil,    \* the thread that holds the GIL, or Free
  pc,     \* each thread: python, jitted, sync, wait (jitted), blocked (Python)
  target, \* the event it waits for
  frame,  \* launches whose arguments its current jitted call still refers to
  phase,  \* each event's command: none, queued, running, gil (needs it), done
  after,  \* the events whose commands come before it
  known   \* the events the program has

vars == <<gil, pc, target, frame, phase, after, known>>

Submitted == {e \in Event : phase[e] # "none"}

\* All commands that must end before a command that depends on events D may start.
Before(D) ==
  D \cup (UNION {after[e] : e \in D}) \cup (IF InOrder THEN Submitted ELSE {})

\* Faulty: the thread does not say what it waits for.
WaitForNothing(t, how, e) ==
  /\ pc' = [pc EXCEPT ![t] = how]
  /\ target' = [target EXCEPT ![t] = IF e = NoEvent THEN e ELSE NoEvent]

\* Thread t waits for e.
WaitFor(t, how, e) ==
  /\ pc' = [pc EXCEPT ![t] = how]
  /\ target' = [target EXCEPT ![t] = e]

----------------------------------------------------------------------------
(* Threads *)

EnterJitted(t) ==
  /\ pc[t] = "python" /\ gil = Free
  /\ gil' = t
  /\ pc' = [pc EXCEPT ![t] = "jitted"]
  /\ UNCHANGED <<target, frame, phase, after, known>>

\* The call's references on its arguments go with its frame.
LeaveJitted(t) ==
  /\ pc[t] = "jitted"
  /\ gil' = Free
  /\ pc' = [pc EXCEPT ![t] = "python"]
  /\ frame' = [frame EXCEPT ![t] = {}]
  /\ UNCHANGED <<target, phase, after, known>>

\* Faulty: it waits for the whole queue, as DpexrtQueue_SubmitRange does.
CallSyncQueueWait(t, l) ==
  /\ SyncCalls
  /\ pc[t] = "jitted"
  /\ phase[DeviceEvent(l)] = "none"
  /\ phase' = [phase EXCEPT ![DeviceEvent(l)] = "queued"]
  /\ after' = [after EXCEPT ![DeviceEvent(l)] = Submitted]
  /\ WaitFor(t, "sync", DeviceEvent(l))
  /\ UNCHANGED <<gil, frame, known>>

\* call_kernel: submit without dependent events and wait for the kernel.
CallSync(t, l) ==
  /\ SyncCalls
  /\ pc[t] = "jitted"
  /\ phase[DeviceEvent(l)] = "none"
  /\ phase' = [phase EXCEPT ![DeviceEvent(l)] = "queued"]
  /\ after' = [after EXCEPT ![DeviceEvent(l)] = Before({})]
  /\ WaitFor(t, "sync", DeviceEvent(l))
  /\ UNCHANGED <<gil, frame, known>>

\* call_kernel_async: submit the kernel, acquire the arguments, submit the host
\* task that depends on it, return both events.
CallAsync(t, l, D) ==
  /\ pc[t] = "jitted"
  /\ phase[DeviceEvent(l)] = "none"
  /\ \A e \in D : e \in known /\ e[2] \in DepKinds
  /\ phase' = [phase EXCEPT ![DeviceEvent(l)] = "queued", ![HostEvent(l)] = "queued"]
  /\ after' = [after EXCEPT ![DeviceEvent(l)] = Before(D),
                            ![HostEvent(l)] = Before(D) \cup {DeviceEvent(l)}]
  /\ frame' = [frame EXCEPT ![t] = @ \cup {l}]
  /\ known' = known \cup {DeviceEvent(l), HostEvent(l)}
  /\ UNCHANGED <<gil, pc, target>>

\* event.wait() in a dpjit function: DPCTLEvent_Wait with the GIL held.
JitWait(t, e) ==
  /\ pc[t] = "jitted"
  /\ e \in known /\ e[2] \in JitWaits
  /\ WaitFor(t, "wait", e)
  /\ UNCHANGED <<gil, frame, phase, after, known>>

\* event.wait() in Python: dpctl gives up the GIL meanwhile.
PythonWait(t, e) ==
  /\ pc[t] = "python" /\ gil = Free
  /\ e \in known
  /\ WaitFor(t, "blocked", e)
  /\ UNCHANGED <<gil, frame, phase, after, known>>

\* Faulty: the thread polls the event and never sees that it has ended.
JitWaitPolls(t) == pc[t] \in {"sync", "wait"} /\ UNCHANGED vars

JitWaitOver(t) ==
  /\ pc[t] \in {"sync", "wait"}
  /\ phase[target[t]] = "done"
  /\ WaitFor(t, "jitted", NoEvent)
  /\ UNCHANGED <<gil, frame, phase, after, known>>

PythonWaitOver(t) ==
  /\ pc[t] = "blocked"
  /\ phase[target[t]] = "done" /\ gil = Free
  /\ WaitFor(t, "python", NoEvent)
  /\ UNCHANGED <<gil, frame, phase, after, known>>

----------------------------------------------------------------------------
(* The SYCL runtime *)

Enter(e, to) ==
  /\ phase' = [phase EXCEPT ![e] = to]
  /\ UNCHANGED <<gil, pc, target, frame, after, known>>

Start(e) ==
  /\ phase[e] = "queued"
  /\ \A d \in after[e] : phase[d] = "done"
  /\ Enter(e, "running")

KernelEnd(l) ==
  /\ phase[DeviceEvent(l)] = "running"
  /\ Enter(DeviceEvent(l), "done")

\* No release of the host task is the last one of an array object's MemInfo,
\* which is certain as long as the call that launched it has its frame.
HostEnd(l) ==
  /\ phase[HostEvent(l)] = "running"
  /\ Enter(HostEvent(l), "done")

\* One is: its destructor asks for the GIL.
HostAsksGil(l) ==
  /\ phase[HostEvent(l)] = "running"
  /\ \A t \in Thread : l \notin frame[t]
  /\ Enter(HostEvent(l), "gil")

\* Faulty: it tries to get it and always fails.
HostGilPolls(l) == phase[HostEvent(l)] = "gil" /\ UNCHANGED vars

\* It gets it, decrefs the object, gives it back and ends.
HostGil(l) ==
  /\ phase[HostEvent(l)] = "gil"
  /\ gil = Free
  /\ Enter(HostEvent(l), "done")

----------------------------------------------------------------------------
Init ==
  /\ gil = Free
  /\ pc = [t \in Thread |-> "python"]
  /\ target = [t \in Thread |-> NoEvent]
  /\ frame = [t \in Thread |-> {}]
  /\ phase = [e \in Event |-> "none"]
  /\ after = [e \in Event |-> {}]
  /\ known = {}

ThreadNext(t) ==
  \/ EnterJitted(t) \/ LeaveJitted(t) \/ JitWaitOver(t) \/ PythonWaitOver(t)
  \/ \E l \in Launch : CallSync(t, l) \/ \E D \in SUBSET known : CallAsync(t, l, D)
  \/ \E e \in known : JitWait(t, e) \/ PythonWait(t, e)

RuntimeNext ==
  \/ \E e \in Event : Start(e)
  \/ \E l \in Launch : KernelEnd(l) \/ HostEnd(l) \/ HostAsksGil(l) \/ HostGil(l)

Next == (\E t \in Thread : ThreadNext(t)) \/ RuntimeNext

Spec == Init /\ [][Next]_vars

\* Kernels and host tasks make progress, jitted functions end unless they wait,
\* and CPython lets whoever asks for the GIL have it between jitted calls.
Fairness ==
  /\ \A e \in Event : WF_vars(Start(e))
  /\ \A l \in Launch :
       WF_vars(KernelEnd(l)) /\ WF_vars(HostEnd(l) \/ HostAsksGil(l)) /\ SF_vars(HostGil(l))
  /\ \A t \in Thread :
       SF_vars(LeaveJitted(t)) /\ WF_vars(JitWaitOver(t)) /\ SF_vars(PythonWaitOver(t))

FairSpec == Spec /\ Fairness

----------------------------------------------------------------------------
(* Properties *)

TypeOK ==
  /\ gil \in Thread \cup {Free}
  /\ pc \in [Thread -> {"python", "jitted", "sync", "wait", "blocked"}]
  /\ target \in [Thread -> Event \cup {NoEvent}]
  /\ \A t \in Thread : pc[t] \in {"sync", "wait", "blocked"} => target[t] \in Event
  /\ frame \in [Thread -> SUBSET Launch]
  /\ phase \in [Event -> {"none", "queued", "running", "gil", "done"}]
  /\ after \in [Event -> SUBSET Event]
  /\ known \subseteq Event

\* A thread that waits with the GIL held never waits, directly or through the
\* commands before the one it waits for, for a host task that needs the GIL.
NoGilCycle ==
  \A t \in Thread : pc[t] \in {"sync", "wait"} =>
    \A e \in after[target[t]] \cup {target[t]} : phase[e] # "gil"

\* call_kernel returns once its kernel is done.
SyncReturns == \A t \in Thread : pc[t] = "sync" ~> pc[t] = "jitted"

\* Every wait returns: call_kernel's, and event.wait() in a dpjit function and in
\* Python.
WaitReturns ==
  \A t \in Thread : /\ pc[t] \in {"sync", "wait"} ~> pc[t] = "jitted"
                    /\ pc[t] = "blocked" ~> pc[t] = "python"

\* The arguments of every asynchronous launch are released, whatever the
\* threads do with its events.
ArgumentsReleased ==
  \A l \in Launch : phase[HostEvent(l)] = "queued" ~> phase[HostEvent(l)] = "done"
============================================================================
