------------------------- MODULE AsyncLaunchProofs -------------------------
(***************************************************************************)
(* Proofs about AsyncLaunch: types, and the discipline under which no      *)
(* thread can wait with the GIL held for a host task that needs it.        *)
(***************************************************************************)
EXTENDS AsyncLaunch, TLAPS

\* Both events of a launch are events, and are different ones.
LEMMA EventsOfLaunch ==
  ASSUME NEW l \in Launch
  PROVE  /\ DeviceEvent(l) \in Event /\ HostEvent(l) \in Event
         /\ DeviceEvent(l) # HostEvent(l)
         /\ DeviceEvent(l)[2] = "device" /\ HostEvent(l)[2] = "host"
  BY DEF DeviceEvent, HostEvent, Event, Kind

\* The commands before a new one are events (call_kernel_builder.py 531-558).
LEMMA BeforeType ==
  ASSUME TypeOK, NEW D \in SUBSET Event PROVE Before(D) \subseteq Event
<1>1. \A e \in D : after[e] \subseteq Event
  BY DEF TypeOK
<1>2. Submitted \subseteq Event
  BY DEF Submitted
<1> DEFINE U == UNION {after[e] : e \in D}
<1>3. ASSUME NEW x \in U PROVE x \in Event
  <2>1. PICK e \in D : x \in after[e]
    OBVIOUS
  <2> QED
    BY <1>1, <2>1
<1>4. Before(D) = D \cup U \cup (IF InOrder THEN Submitted ELSE {})
  BY DEF Before
<1> HIDE DEF Event, Submitted, U
<1> QED
  BY <1>2, <1>3, <1>4, Zenon

\* No step of a thread or of the runtime breaks the types.
LEMMA TypeStep == TypeOK /\ [Next]_vars => TypeOK'
<1> SUFFICES ASSUME TypeOK, [Next]_vars PROVE TypeOK'
  OBVIOUS
<1> USE LaunchAssumption DEF TypeOK
<1>1. ASSUME NEW t \in Thread, EnterJitted(t) PROVE TypeOK'
  BY <1>1 DEF EnterJitted
<1>2. ASSUME NEW t \in Thread, LeaveJitted(t) PROVE TypeOK'
  BY <1>2 DEF LeaveJitted
<1>3. ASSUME NEW t \in Thread, NEW l \in Launch, CallSync(t, l) PROVE TypeOK'
  <2>1. Before({}) \subseteq Event
    BY BeforeType
  <2>2. DeviceEvent(l) \in Event
    BY EventsOfLaunch
  <2> HIDE DEF Event, DeviceEvent
  <2> QED
    BY <1>3, <2>1, <2>2 DEF CallSync, WaitFor
<1>4. ASSUME NEW t \in Thread, NEW l \in Launch, NEW D \in SUBSET known, CallAsync(t, l, D)
      PROVE TypeOK'
  <2>1. Before(D) \subseteq Event
    BY BeforeType
  <2>2. DeviceEvent(l) \in Event /\ HostEvent(l) \in Event
    BY EventsOfLaunch
  <2>3. phase' \in [Event -> {"none", "queued", "running", "gil", "done"}]
    BY <1>4, <2>2 DEF CallAsync
  <2>4. after' \in [Event -> SUBSET Event]
    BY <1>4, <2>1, <2>2 DEF CallAsync
  <2>5. frame' \in [Thread -> SUBSET Launch]
    BY <1>4 DEF CallAsync
  <2>6. known' \subseteq Event
    BY <1>4, <2>2 DEF CallAsync
  <2> QED
    BY <1>4, <2>3, <2>4, <2>5, <2>6 DEF CallAsync
<1>5. ASSUME NEW t \in Thread, NEW e \in known, JitWait(t, e) \/ PythonWait(t, e)
      PROVE TypeOK'
  BY <1>5 DEF JitWait, PythonWait, WaitFor
<1>6. ASSUME NEW t \in Thread, JitWaitOver(t) \/ PythonWaitOver(t) PROVE TypeOK'
  BY <1>6 DEF JitWaitOver, PythonWaitOver, WaitFor
<1>7. ASSUME NEW e \in Event, Start(e) PROVE TypeOK'
  BY <1>7 DEF Start, Enter
<1>8. ASSUME NEW l \in Launch, KernelEnd(l) \/ HostEnd(l) \/ HostAsksGil(l) \/ HostGil(l)
      PROVE TypeOK'
  <2>1. DeviceEvent(l) \in Event /\ HostEvent(l) \in Event
    BY EventsOfLaunch
  <2> QED
    BY <1>8, <2>1 DEF KernelEnd, HostEnd, HostAsksGil, HostGil, Enter
<1>9. CASE UNCHANGED vars
  BY <1>9 DEF vars
<1> QED
  BY <1>1, <1>2, <1>3, <1>4, <1>5, <1>6, <1>7, <1>8, <1>9
  DEF Next, ThreadNext, RuntimeNext

\* The types hold in every reachable state.
THEOREM TypeCorrect == Spec => []TypeOK
<1>1. Init => TypeOK
  BY LaunchAssumption DEF Init, TypeOK
<1> QED
  BY <1>1, TypeStep, PTL DEF Spec

----------------------------------------------------------------------------
\* The discipline: an out-of-order queue, and neither dependent events nor
\* waits inside jitted functions on host tasks.
Disciplined ==
  ~InOrder /\ DepKinds \subseteq {"device"} /\ JitWaits \subseteq {"device"}

\* Under it only kernels come before kernels, jitted code waits for kernels
\* only, and a kernel never asks for the GIL.
KernelsOnly ==
  /\ \A e \in Event : e[2] = "device" =>
       /\ \A d \in after[e] : d \in Event /\ d[2] = "device"
       /\ phase[e] # "gil"
  /\ \A t \in Thread : pc[t] \in {"sync", "wait"} => target[t][2] = "device"

\* Each step keeps to kernels only.
LEMMA KernelsStep ==
  Disciplined /\ TypeOK /\ KernelsOnly /\ [Next]_vars => KernelsOnly'
<1> SUFFICES ASSUME Disciplined, TypeOK, KernelsOnly, [Next]_vars PROVE KernelsOnly'
  OBVIOUS
<1> USE DEF TypeOK, KernelsOnly
<1>1. ASSUME NEW t \in Thread,
             EnterJitted(t) \/ LeaveJitted(t) \/ JitWaitOver(t) \/ PythonWaitOver(t)
      PROVE KernelsOnly'
  BY <1>1 DEF EnterJitted, LeaveJitted, JitWaitOver, PythonWaitOver, WaitFor
<1>2. ASSUME NEW t \in Thread, NEW l \in Launch, CallSync(t, l) PROVE KernelsOnly'
  <2>1. Before({}) = {}
    BY DEF Before, Disciplined
  <2>2. DeviceEvent(l) \in Event /\ DeviceEvent(l)[2] = "device"
    BY EventsOfLaunch
  <2> QED
    BY <1>2, <2>1, <2>2 DEF CallSync, WaitFor
<1>3. ASSUME NEW t \in Thread, NEW l \in Launch, NEW D \in SUBSET known, CallAsync(t, l, D)
      PROVE KernelsOnly'
  <2>1. \A e \in D : e \in Event /\ e[2] = "device"
    BY <1>3 DEF CallAsync, Disciplined
  <2>2. \A d \in Before(D) : d \in Event /\ d[2] = "device"
    BY <2>1 DEF Before, Disciplined
  <2>3. /\ DeviceEvent(l) \in Event /\ HostEvent(l) \in Event
        /\ HostEvent(l)[2] = "host" /\ DeviceEvent(l) # HostEvent(l)
    BY EventsOfLaunch
  <2>4. ASSUME NEW e \in Event, e[2] = "device"
        PROVE  /\ \A d \in after'[e] : d \in Event /\ d[2] = "device"
               /\ phase'[e] # "gil"
    <3>1. e # HostEvent(l)
      BY <2>3, <2>4
    <3>2. CASE e = DeviceEvent(l)
      <4>1. after'[e] = Before(D) /\ phase'[e] = "queued"
        BY <1>3, <2>3, <3>1, <3>2 DEF CallAsync
      <4> QED
        BY <4>1, <2>2
    <3>3. CASE e # DeviceEvent(l)
      <4>1. after'[e] = after[e] /\ phase'[e] = phase[e]
        BY <1>3, <3>1, <3>3 DEF CallAsync
      <4> QED
        BY <4>1, <2>4
    <3> QED
      BY <3>2, <3>3
  <2>5. UNCHANGED <<pc, target>>
    BY <1>3 DEF CallAsync
  <2> QED
    BY <2>4, <2>5
<1>4. ASSUME NEW t \in Thread, NEW e \in known, JitWait(t, e) PROVE KernelsOnly'
  BY <1>4 DEF JitWait, WaitFor, Disciplined
<1>5. ASSUME NEW t \in Thread, NEW e \in known, PythonWait(t, e) PROVE KernelsOnly'
  BY <1>5 DEF PythonWait, WaitFor
<1>6. ASSUME NEW e \in Event, Start(e) PROVE KernelsOnly'
  BY <1>6 DEF Start, Enter
<1>7. ASSUME NEW l \in Launch, KernelEnd(l) \/ HostEnd(l) \/ HostAsksGil(l) \/ HostGil(l)
      PROVE KernelsOnly'
  <2>1. /\ DeviceEvent(l) \in Event /\ HostEvent(l) \in Event
        /\ HostEvent(l)[2] = "host"
    BY EventsOfLaunch
  <2> QED
    BY <1>7, <2>1 DEF KernelEnd, HostEnd, HostAsksGil, HostGil, Enter
<1>8. CASE UNCHANGED vars
  BY <1>8 DEF vars
<1> QED
  BY <1>1, <1>2, <1>3, <1>4, <1>5, <1>6, <1>7, <1>8 DEF Next, ThreadNext, RuntimeNext

\* Under the discipline no thread that holds the GIL waits for a host task that
\* needs it, for any number of threads and launches.
THEOREM NoDeadlockOnGil ==
  ASSUME Disciplined PROVE Spec => []NoGilCycle
<1>1. Init => KernelsOnly
  BY DEF Init, KernelsOnly
<1>2. TypeOK /\ KernelsOnly /\ [Next]_vars => KernelsOnly'
  BY KernelsStep
<1>3. TypeOK /\ KernelsOnly => NoGilCycle
  BY DEF TypeOK, KernelsOnly, NoGilCycle
<1> QED
  BY <1>1, <1>2, <1>3, TypeCorrect, PTL DEF Spec
============================================================================
