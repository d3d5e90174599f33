------------------------- MODULE KernelLaunchProofs -------------------------
(***************************************************************************)
(* Proofs about KernelLaunch: a kernel runs on the queue of its arrays,    *)
(* and a launch, whoever makes it, is refused as a whole or runs the       *)
(* kernel once for every index of its space (LaunchOnce), for every set of *)
(* calls: any extents, loops, arguments and dependencies.                  *)
(***************************************************************************)
EXTENDS KernelLaunch, FiniteSetTheorems, WellFoundedInduction, TLAPS

----------------------------------------------------------------------------
(* The invariant *)

\* The phases in which nothing has been submitted or run.
Fresh == {"construct", "type", "lower", "submit", "mock"}

\* Where a launch is, and what is there at that point.
ControlInv ==
  /\ call \in Calls
  /\ phase \in Errors \cup Fresh \cup {"wait", "returned", "loop"}
  /\ phase \in {"type", "lower", "submit", "wait"} => call.caller # "python"
  /\ phase \in {"mock", "loop"} => call.caller = "python"
  /\ complete \subseteq call.deps

\* What has happened by then: nothing before the submission or the simulator's
\* first round, nothing after an error, and everything when a call returns that
\* waits.
ProgressInv ==
  /\ phase \in Fresh => native = NoLaunch /\ left = {} /\ ran = {} /\ runs = 0
  /\ phase \in Errors => native = NoLaunch /\ ran = {}
  /\ phase = "loop" => native = NoLaunch /\ (call.extra # 1 => ran = {})
  /\ phase = "wait" => native # NoLaunch /\ call.sync /\ event # "deleted"
  /\ phase = "returned" /\ (call.sync \/ native = NoLaunch) => left = {}
  /\ event \in {"none", "submitted", "complete", "deleted"}
  /\ event = "none" <=> native = NoLaunch
  /\ event \in {"complete", "deleted"} => left = {}
  /\ native # NoLaunch =>
       native = IRArguments /\ phase \in {"wait", "returned"} /\ call.caller # "python"

\* A launch that comes to the queue has arrays, and types that agree on it.
QueueInv ==
  /\ phase \in {"lower", "submit"} \/ native # NoLaunch => ~QueuesDiffer(Types)
  /\ phase = "submit" \/ native # NoLaunch => Arrays # {}

\* Its index space was accepted.
SpaceInv ==
  IF call.caller = "parfor"
  THEN phase \in {"lower", "submit", "wait", "returned"} => Len(call.loops) <= 3
  ELSE phase \notin Errors \cup {"construct"} => SpaceError = "none"

LaunchInv == ControlInv /\ ProgressInv /\ QueueInv /\ SpaceInv

----------------------------------------------------------------------------
(* Lemmas about the operators of the model *)

\* What is computed from the call does not change while the call does not.
LEMMA Frozen ==
  ASSUME call' = call
  PROVE  /\ Types' = Types /\ Arrays' = Arrays /\ Global' = Global /\ Local' = Local
         /\ SpaceError' = SpaceError /\ AskedSpace' = AskedSpace
         /\ IRArguments' = IRArguments
<1>1. Types' = Types
  BY DEF Types
<1>2. Arrays' = Arrays
  BY <1>1 DEF Arrays
<1>3. \A dims : Made(dims)' = Made(dims)
  BY DEF Made
<1>4. Global' = Global /\ Local' = Local
  BY DEF Global, Local, Made
<1>5. SpaceError' = SpaceError
  BY <1>4 DEF SpaceError
<1>6. AskedSpace' = AskedSpace
  BY DEF AskedSpace
<1>7. FirstArray' = FirstArray
  BY <1>2 DEF FirstArray
<1>8. \A r : SyclRange(r)' = SyclRange(r)
  BY DEF SyclRange, RangeStruct
<1>9. IRArguments' = IRArguments
  BY <1>1, <1>4, <1>7 DEF IRArguments, SyclRange, RangeStruct
<1> QED
  BY <1>1, <1>2, <1>4, <1>5, <1>6, <1>9

\* A launch that was submitted is a launch.
LEMMA ALaunch == IRArguments # NoLaunch
<1>1. "args" \in DOMAIN IRArguments
  BY DEF IRArguments
<1>2. "args" \notin DOMAIN NoLaunch
  BY DEF NoLaunch
<1> QED
  BY <1>1, <1>2

\* Every step leaves the call as it is.
LEMMA SameCall == [Next]_vars => call' = call
  BY DEF Next, Host, Device, Environment, Construct, TypeKernel, TypeParfor, LowerLaunch,
         Submit, Wait, StartMock, MockRound, EndMock, FinishKernel, RunItem, CompleteEvent,
         Unsubmitted, vars

\* What NdRange raises when it is made.
LEMMA SpaceErrors == SpaceError \in Errors \cup {"none"}
  BY DEF SpaceError, JitNdRangeError, NdRangeError, Errors

----------------------------------------------------------------------------
(* Control *)

LEMMA ControlStep == ControlInv /\ [Next]_vars => ControlInv'
<1> SUFFICES ASSUME ControlInv, [Next]_vars PROVE ControlInv'
  OBVIOUS
<1>1. call' = call
  BY SameCall
<1>2. ASSUME Construct PROVE ControlInv'
  <2>1. /\ phase = "construct" /\ complete' = complete
        /\ \/ phase' \in Errors
           \/ phase' = IF call.caller = "python" THEN "mock" ELSE "type"
    BY <1>2, SpaceErrors DEF Construct, Raise, Goto, Unsubmitted, Errors
  <2> QED
    BY <1>1, <2>1 DEF ControlInv, Errors, Fresh
<1>3. ASSUME TypeKernel \/ TypeParfor PROVE ControlInv'
  <2>1. phase = "type" /\ complete' = complete /\ phase' \in Errors \cup {"lower"}
    BY <1>3 DEF TypeKernel, TypeParfor, Raise, Goto, Unsubmitted, Errors
  <2> QED
    BY <1>1, <2>1 DEF ControlInv, Errors, Fresh
<1>4. ASSUME LowerLaunch PROVE ControlInv'
  <2>1. phase = "lower" /\ complete' = complete /\ phase' \in Errors \cup {"submit"}
    BY <1>4 DEF LowerLaunch, Raise, Goto, Unsubmitted, Errors
  <2> QED
    BY <1>1, <2>1 DEF ControlInv, Errors, Fresh
<1>5. ASSUME Submit PROVE ControlInv'
  <2>1. phase = "submit" /\ complete' = complete /\ phase' \in {"wait", "returned"}
    BY <1>5 DEF Submit, Goto, NextPhase
  <2> QED
    BY <1>1, <2>1 DEF ControlInv, Errors, Fresh
<1>6. ASSUME Wait \/ EndMock PROVE ControlInv'
  <2>1. complete' = complete /\ phase' = "returned"
    BY <1>6 DEF Wait, EndMock, Goto, Unsubmitted
  <2> QED
    BY <1>1, <2>1 DEF ControlInv, Errors, Fresh
<1>7. ASSUME StartMock PROVE ControlInv'
  <2>1. phase = "mock" /\ complete' = complete /\ phase' \in Errors \cup {"loop"}
    BY <1>7 DEF StartMock, Raise, Goto, Errors
  <2> QED
    BY <1>1, <2>1 DEF ControlInv, Errors, Fresh
<1>8. ASSUME MockRound PROVE ControlInv'
  <2>1. phase = "loop" /\ complete' = complete /\ phase' \in Errors \cup {"loop"}
    BY <1>8 DEF MockRound, Raise, Errors
  <2> QED
    BY <1>1, <2>1 DEF ControlInv, Errors, Fresh
<1>9. ASSUME FinishKernel \/ (\E i \in left : RunItem(i)) \/ UNCHANGED vars PROVE ControlInv'
  BY <1>9 DEF ControlInv, FinishKernel, RunItem, vars
<1>10. ASSUME NEW e, CompleteEvent(e) PROVE ControlInv'
  BY <1>10 DEF CompleteEvent, ControlInv
<1> QED
  BY <1>2, <1>3, <1>4, <1>5, <1>6, <1>7, <1>8, <1>9, <1>10
  DEF Next, Host, Device, Environment

LEMMA ProgressStep == ControlInv /\ ProgressInv /\ [Next]_vars => ProgressInv'
<1> SUFFICES ASSUME ControlInv, ProgressInv, [Next]_vars PROVE ProgressInv'
  OBVIOUS
<1>1. call' = call /\ IRArguments' = IRArguments
  BY SameCall, Frozen
<1>2. ASSUME Construct \/ TypeKernel \/ TypeParfor \/ LowerLaunch PROVE ProgressInv'
  <2>1. /\ phase \in Fresh /\ UNCHANGED <<native, left, ran, runs, event>>
        /\ phase' \in Fresh \cup Errors
    BY <1>2, SpaceErrors
    DEF Construct, TypeKernel, TypeParfor, LowerLaunch, Unsubmitted, Raise, Goto, Fresh, Errors
  <2>2. native = NoLaunch /\ left = {} /\ ran = {} /\ runs = 0 /\ event = "none"
    BY <2>1 DEF ProgressInv
  <2>3. phase' \notin {"loop", "wait", "returned"}
    BY <2>1 DEF Fresh, Errors
  <2> QED
    BY <1>1, <2>1, <2>2, <2>3 DEF ProgressInv, NoLaunch
<1>3. ASSUME Submit PROVE ProgressInv'
  <2>1. /\ phase = "submit" /\ native' = IRArguments /\ event' = "submitted"
        /\ ran' = ran
        /\ phase' = IF call.sync THEN "wait" ELSE "returned"
        /\ call.caller # "python"
    BY <1>3 DEF Submit, Goto, NextPhase, ControlInv
  <2>2. native' # NoLaunch
    BY <2>1, ALaunch
  <2>3. phase' \notin Fresh \cup Errors \cup {"loop"}
    BY <2>1 DEF Fresh, Errors
  <2>4. phase' = "wait" => call.sync
    BY <2>1
  <2>5. phase' = "returned" => ~call.sync
    BY <2>1
  <2> QED
    BY <1>1, <2>1, <2>2, <2>3, <2>4, <2>5 DEF ProgressInv, NoLaunch
<1>4. ASSUME Wait PROVE ProgressInv'
  <2>1. /\ phase = "wait" /\ phase' = "returned" /\ event' = "deleted"
        /\ event = "complete" /\ UNCHANGED <<native, left, ran, runs>>
    BY <1>4 DEF Wait, Goto
  <2> QED
    BY <1>1, <2>1 DEF ProgressInv, NoLaunch, Fresh, Errors
<1>5. ASSUME StartMock PROVE ProgressInv'
  <2>1. /\ phase = "mock" /\ UNCHANGED <<native, ran, runs, event>>
        /\ phase' \in {"loop", "TypeError"}
    BY <1>5 DEF StartMock, Raise, Goto
  <2>2. native = NoLaunch /\ ran = {} /\ event = "none"
    BY <2>1 DEF ProgressInv, Fresh
  <2>3. phase' \notin Fresh \cup {"wait", "returned"}
    BY <2>1 DEF Fresh
  <2> QED
    BY <1>1, <2>1, <2>2, <2>3 DEF ProgressInv, NoLaunch
<1>6. ASSUME MockRound PROVE ProgressInv'
  <2>1. /\ phase = "loop" /\ UNCHANGED <<native, event>>
        /\ \/ phase' = "ValueError" /\ call.extra # 1 /\ ran' = ran
           \/ phase' = "loop" /\ call.extra = 1
    BY <1>6 DEF MockRound, Raise
  <2>2. native = NoLaunch /\ event = "none" /\ (call.extra # 1 => ran = {})
    BY <2>1 DEF ProgressInv
  <2>3. phase' \notin Fresh \cup {"wait", "returned"}
    BY <2>1 DEF Fresh
  <2>4. "loop" \notin Errors
    BY DEF Errors
  <2> QED
    BY <1>1, <2>1, <2>2, <2>3, <2>4 DEF ProgressInv, NoLaunch
<1>7. ASSUME EndMock PROVE ProgressInv'
  <2>1. /\ phase = "loop" /\ left = {} /\ phase' = "returned"
        /\ UNCHANGED <<native, left, ran, runs, event>>
    BY <1>7 DEF EndMock, Goto, Unsubmitted
  <2>2. "returned" \notin Fresh \cup Errors
    BY DEF Fresh, Errors
  <2> QED
    BY <1>1, <2>1, <2>2 DEF ProgressInv, NoLaunch
<1>8. ASSUME NEW i \in left, RunItem(i) PROVE ProgressInv'
  <2>1. /\ event = "submitted" /\ UNCHANGED <<phase, native, event>> /\ left' = left \ {i}
    BY <1>8 DEF RunItem
  <2>2. native # NoLaunch /\ phase \in {"wait", "returned"}
    BY <2>1 DEF ProgressInv
  <2>3. phase \notin Fresh \cup Errors \cup {"loop"}
    BY <2>2 DEF Fresh, Errors
  <2> QED
    BY <1>1, <2>1, <2>2, <2>3 DEF ProgressInv, NoLaunch
<1>9. ASSUME FinishKernel PROVE ProgressInv'
  <2>1. /\ event = "submitted" /\ event' = "complete" /\ left = {}
        /\ UNCHANGED <<phase, native, left, ran, runs>>
    BY <1>9 DEF FinishKernel
  <2>2. native # NoLaunch /\ phase \in {"wait", "returned"}
    BY <2>1 DEF ProgressInv
  <2>3. phase \notin Fresh \cup Errors \cup {"loop"}
    BY <2>2 DEF Fresh, Errors
  <2> QED
    BY <1>1, <2>1, <2>2, <2>3 DEF ProgressInv, NoLaunch
<1>10. ASSUME UNCHANGED <<phase, native, left, ran, runs, event>> PROVE ProgressInv'
  BY <1>1, <1>10 DEF ProgressInv, NoLaunch
<1>11. ASSUME NEW e, CompleteEvent(e) PROVE ProgressInv'
  BY <1>10, <1>11 DEF CompleteEvent
<1>12. ASSUME UNCHANGED vars PROVE ProgressInv'
  BY <1>10, <1>12 DEF vars
<1> QED
  BY <1>2, <1>3, <1>4, <1>5, <1>6, <1>7, <1>8, <1>9, <1>11, <1>12
  DEF Next, Host, Device, Environment

\* The queues are compared when the launch is typed, and an array is found when
\* it is lowered (kernel_launcher.py 60-90, call_kernel_builder.py 700-730).
LEMMA QueueStep == ControlInv /\ ProgressInv /\ QueueInv /\ [Next]_vars => QueueInv'
<1> SUFFICES ASSUME ControlInv, ProgressInv, QueueInv, [Next]_vars PROVE QueueInv'
  OBVIOUS
<1>1. Types' = Types /\ Arrays' = Arrays /\ (QueuesDiffer(Types)' <=> QueuesDiffer(Types))
  BY SameCall, Frozen DEF QueuesDiffer
<1>2. ASSUME TypeKernel \/ TypeParfor PROVE QueueInv'
  <2>1. /\ native' = native /\ native = NoLaunch
        /\ phase' # "submit"
        /\ phase' = "lower" => ~QueuesDiffer(Types)
    BY <1>2 DEF TypeKernel, TypeParfor, Raise, Goto, Unsubmitted, ProgressInv, Fresh
  <2> QED
    BY <1>1, <2>1 DEF QueueInv, NoLaunch
<1>3. ASSUME LowerLaunch PROVE QueueInv'
  <2>1. /\ phase = "lower" /\ native' = native /\ native = NoLaunch
        /\ phase' # "lower"
        /\ phase' = "submit" => Arrays # {}
    BY <1>3 DEF LowerLaunch, Raise, Goto, Unsubmitted, ProgressInv, Fresh
  <2> QED
    BY <1>1, <2>1 DEF QueueInv, NoLaunch
<1>4. ASSUME Submit PROVE QueueInv'
  BY <1>1, <1>4 DEF Submit, QueueInv
<1>5. ASSUME native' = native, phase' = phase \/ phase' \notin {"lower", "submit"}
      PROVE QueueInv'
  BY <1>1, <1>5 DEF QueueInv, NoLaunch
<1>6. ASSUME Construct PROVE QueueInv'
  BY <1>5, <1>6, SpaceErrors DEF Construct, Raise, Goto, Unsubmitted, Errors
<1>7. ASSUME Wait \/ StartMock \/ MockRound \/ EndMock PROVE QueueInv'
  BY <1>5, <1>7 DEF Wait, StartMock, MockRound, EndMock, Raise, Goto, Unsubmitted
<1>8. ASSUME Device \/ Environment \/ UNCHANGED vars PROVE QueueInv'
  BY <1>5, <1>8 DEF Device, Environment, FinishKernel, RunItem, CompleteEvent, vars
<1> QED
  BY <1>2, <1>3, <1>4, <1>6, <1>7, <1>8 DEF Next, Host

LEMMA SpaceStep == ControlInv /\ SpaceInv /\ [Next]_vars => SpaceInv'
<1> SUFFICES ASSUME ControlInv, SpaceInv, [Next]_vars PROVE SpaceInv'
  OBVIOUS
<1>1. call' = call /\ SpaceError' = SpaceError
  BY SameCall, Frozen
<1>2. ASSUME Construct PROVE SpaceInv'
  <2>1. /\ phase = "construct"
        /\ \/ phase' = "TypeError"
           \/ SpaceError # "none" /\ phase' = SpaceError
           \/ SpaceError = "none" /\ phase' \in {"mock", "type"}
    BY <1>2 DEF Construct, Raise, Goto
  <2>2. phase' \notin {"lower", "submit", "wait", "returned"}
    BY <2>1, SpaceErrors DEF Errors
  <2>3. phase' \in Errors \/ SpaceError = "none"
    BY <2>1, SpaceErrors DEF Errors
  <2> QED
    BY <1>1, <2>2, <2>3 DEF SpaceInv
<1>3. ASSUME TypeParfor PROVE SpaceInv'
  <2>1. call.caller = "parfor" /\ (phase' = "lower" => ~ (Len(call.loops) > 3))
    BY <1>3 DEF TypeParfor, Raise, Goto
  <2>2. phase' \in {"lower", "UnsupportedParforError"}
    BY <1>3 DEF TypeParfor, Raise, Goto
  <2>3. Len(call.loops) \in Nat
    BY <2>1, CallAssumption DEF ControlInv
  <2> QED
    BY <1>1, <2>1, <2>2, <2>3 DEF SpaceInv
<1>4. ASSUME phase' = phase \/ phase' \in Errors
             \/ (phase \notin Errors \cup {"construct", "type"} /\ phase' \notin Errors \cup {"construct"}
                 /\ (call.caller = "parfor" => phase \in {"lower", "submit", "wait", "returned"}))
      PROVE SpaceInv'
  <2>1. Errors \cap {"lower", "submit", "wait", "returned"} = {}
    BY DEF Errors
  <2> QED
    BY <1>1, <1>4, <2>1 DEF SpaceInv
<1>5. ASSUME TypeKernel PROVE SpaceInv'
  <2>1. call.caller = "jit" /\ phase = "type"
    BY <1>5 DEF TypeKernel
  <2>2. phase \notin Errors \cup {"construct"}
    BY <2>1 DEF Errors
  <2> QED
    BY <1>1, <2>1, <2>2 DEF SpaceInv
<1>6. ASSUME LowerLaunch \/ Submit \/ Wait PROVE SpaceInv'
  <2>1. /\ phase \in {"lower", "submit", "wait"}
        /\ phase' \in Errors \cup {"submit", "wait", "returned"}
    BY <1>6 DEF LowerLaunch, Submit, Wait, Raise, Goto, NextPhase, Errors
  <2> QED
    BY <1>4, <2>1 DEF Errors
<1>7. ASSUME StartMock \/ MockRound \/ EndMock PROVE SpaceInv'
  <2>1. /\ phase \in {"mock", "loop"} /\ call.caller = "python"
        /\ phase' \in Errors \cup {"loop", "returned"}
    BY <1>7 DEF StartMock, MockRound, EndMock, Raise, Goto, Errors, ControlInv
  <2> QED
    BY <1>4, <2>1 DEF Errors
<1>8. ASSUME Device \/ Environment \/ UNCHANGED vars PROVE SpaceInv'
  BY <1>4, <1>8 DEF Device, Environment, FinishKernel, RunItem, CompleteEvent, vars
<1> QED
  BY <1>2, <1>3, <1>5, <1>6, <1>7, <1>8 DEF Next, Host

\* The invariant holds in every reachable state.
THEOREM Invariance == Spec => []LaunchInv
<1>1. Init => LaunchInv
  <2> SUFFICES ASSUME Init PROVE LaunchInv
    OBVIOUS
  <2>1. phase \in {"type", "construct"} /\ (phase = "type" <=> call.caller = "parfor")
    BY DEF Init
  <2> QED
    BY <2>1
    DEF Init, LaunchInv, ControlInv, ProgressInv, QueueInv, SpaceInv, Fresh, Errors, NoLaunch
<1>2. LaunchInv /\ [Next]_vars => LaunchInv'
  BY ControlStep, ProgressStep, QueueStep, SpaceStep DEF LaunchInv
<1> QED
  BY <1>1, <1>2, PTL DEF Spec

----------------------------------------------------------------------------
(* The queue *)

\* Every set of numbers has a least one.
LEMMA Least ==
  ASSUME NEW S, S \subseteq Nat, S # {}
  PROVE  \E x \in S : \A y \in S : x <= y
<1> DEFINE R == OpToRel(<, Nat)
<1>1. IsWellFoundedOn(R, Nat)
  BY NatLessThanWellFounded
<1>2. \A y, z \in Nat : <<y, z>> \in R <=> y < z
  BY DEF OpToRel
<1> HIDE DEF R
<1>3. \E x \in S : \A y \in S : <<y, x>> \notin R
  BY <1>1, WFMin
<1>4. PICK x \in S : \A y \in S : <<y, x>> \notin R
  BY <1>3
<1>5. ASSUME NEW y \in S PROVE x <= y
  <2>1. x \in Nat /\ y \in Nat
    OBVIOUS
  <2>2. ~(y < x)
    BY <1>2, <1>4, <2>1
  <2> QED
    BY <2>1, <2>2
<1> QED
  BY <1>5

\* The queue of a launch is that of its first array, and the arrays' types agree
\* (call_kernel_builder.py 717).
THEOREM QueueCorrect == Spec => []QueueExact
<1>1. LaunchInv => QueueExact
  <2> SUFFICES ASSUME LaunchInv, native # NoLaunch, NEW n \in Arrays
               PROVE  call.args[n].val.sycl_queue = native.queue
    BY DEF QueueExact
  <2>1. /\ native = IRArguments /\ ~QueuesDiffer(Types) /\ Arrays # {}
        /\ call \in Calls
    BY DEF LaunchInv, ProgressInv, QueueInv, ControlInv
  <2>2. Arrays \subseteq Nat /\ Arrays \subseteq DOMAIN call.args
    BY <2>1, CallAssumption DEF Arrays, Types
  <2>3. FirstArray \in Arrays
    BY <2>1, <2>2, Least DEF FirstArray
  <2>4. \A m \in Arrays : m \in DOMAIN Types /\ IsUSMNdArray(Types[m])
    BY DEF Arrays, IsArray, IsUSMNdArray
  <2>5. Types[n].queue = Types[FirstArray].queue
    BY <2>1, <2>3, <2>4 DEF QueuesDiffer
  <2>6. \A m \in Arrays : call.args[m].val.sycl_queue = Types[m].queue
    BY <2>1, <2>2, TypeofAssumption DEF Arrays, Types
  <2>7. native.queue = call.args[FirstArray].val.sycl_queue
    BY <2>1 DEF IRArguments
  <2> QED
    BY <2>3, <2>5, <2>6, <2>7
<1> QED
  BY <1>1, Invariance, PTL

----------------------------------------------------------------------------
(* Index spaces *)

\* The elements of a sequence.
LEMMA SeqElements ==
  ASSUME NEW S, NEW s \in Seq(S)
  PROVE  Len(s) \in Nat /\ DOMAIN s = 1 .. Len(s) /\ \A d \in 1 .. Len(s) : s[d] \in S
  OBVIOUS

\* The extents of a range are numbers.
LEMMA Elements ==
  ASSUME NEW r \in Seq(Nat)
  PROVE  /\ Len(r) \in Nat /\ DOMAIN r = 1 .. Len(r) /\ r \in [1 .. Len(r) -> Nat]
         /\ \A d \in 1 .. Len(r) : r[d] \in Nat
  OBVIOUS

\* The extents of a range are bounded, and the greatest is one of them.
LEMMA Bounded ==
  ASSUME NEW n \in Nat, NEW r \in [1 .. n -> Nat]
  PROVE  \E m \in Nat : \A d \in 1 .. n : r[d] <= m
<1> DEFINE Bound(k) == \E m \in Nat : \A d \in 1 .. k : r[d] <= m
           S == {k \in 0 .. n : ~Bound(k)}
<1>1. n \in Nat /\ \A d \in 1 .. n : r[d] \in Nat
  OBVIOUS
<1>2. ASSUME S # {} PROVE FALSE
  <2>1. S \subseteq Nat
    OBVIOUS
  <2>2. \E k \in S : \A j \in S : k <= j
    <3> HIDE DEF S
    <3> QED
      BY <1>2, <2>1, Least
  <2>3. PICK k \in S : \A j \in S : k <= j
    BY <2>2
  <2>4. Bound(0)
    <3>1. \A d \in 1 .. 0 : r[d] <= 0
      OBVIOUS
    <3> QED
      BY <3>1
  <2>5. k \in 0 .. n /\ ~Bound(k)
    OBVIOUS
  <2>6. k # 0
    BY <2>4, <2>5
  <2> HIDE DEF Bound
  <2>7. k - 1 \in 0 .. n /\ k - 1 \notin S
    BY <1>1, <2>3, <2>5, <2>6
  <2>8. Bound(k - 1)
    BY <2>7
  <2> USE DEF Bound
  <2>9. PICK m \in Nat : \A d \in 1 .. k - 1 : r[d] <= m
    BY <2>8
  <2>10. k \in 1 .. n /\ r[k] \in Nat
    BY <1>1, <2>5, <2>6
  <2>11. ASSUME NEW d \in 1 .. k PROVE r[d] <= m + r[k]
    <3>1. r[d] \in Nat
      BY <1>1, <2>10
    <3>2. CASE d = k
      BY <2>10, <3>2
    <3>3. CASE d # k
      <4>1. d \in 1 .. k - 1
        BY <2>10, <3>3
      <4>2. r[d] <= m
        BY <2>9, <4>1
      <4> QED
        BY <2>10, <3>1, <4>2
    <3> QED
      BY <3>2, <3>3
  <2>12. m + r[k] \in Nat
    BY <2>10
  <2>13. Bound(k)
    BY <2>11, <2>12
  <2> QED
    BY <2>5, <2>13
<1>3. n \notin S
  BY <1>2
<1>4. Bound(n)
  BY <1>1, <1>3
<1> QED
  BY <1>1, <1>4

LEMMA MaxIs ==
  ASSUME NEW T, T \subseteq Nat, T # {}, NEW m \in Nat, \A y \in T : y <= m
  PROVE  Max(T) \in T /\ \A y \in T : y <= Max(T)
<1> DEFINE B == {k \in Nat : \A y \in T : y <= k}
<1>1. m \in B
  OBVIOUS
<1>2. \E b \in B : \A c \in B : b <= c
  <2>1. B \subseteq Nat /\ B # {}
    BY <1>1
  <2> HIDE DEF B
  <2> QED
    BY <2>1, Least
<1>3. PICK b \in B : \A c \in B : b <= c
  BY <1>2
<1>4. b \in T
  <2> SUFFICES ASSUME b \notin T PROVE FALSE
    OBVIOUS
  <2>1. PICK k \in T : TRUE
    OBVIOUS
  <2>2. \A y \in T : y <= b - 1 /\ 0 <= b - 1
    BY <1>3
  <2>3. b - 1 \in Nat
    BY <1>3, <2>1, <2>2
  <2>4. b - 1 \in B
    BY <2>2, <2>3
  <2> QED
    BY <1>3, <2>4
<1>5. \E x \in T : \A y \in T : x >= y
  BY <1>3, <1>4
<1>6. Max(T) \in T /\ \A y \in T : Max(T) >= y
  BY <1>5 DEF Max
<1> QED
  BY <1>6

LEMMA MaxBound ==
  ASSUME NEW r \in Seq(Nat), r # <<>>
  PROVE  Max(ToSet(r)) \in Nat /\ \A d \in DOMAIN r : r[d] <= Max(ToSet(r))
<1> DEFINE T == ToSet(r)
<1>1. T \subseteq Nat /\ T # {} /\ \A d \in DOMAIN r : r[d] \in T
  <2>1. T = {r[d] : d \in 1 .. Len(r)}
    BY Elements DEF ToSet
  <2>2. 1 \in 1 .. Len(r)
    BY Elements
  <2> QED
    BY <2>1, <2>2, Elements
<1>2. \E m \in Nat : \A d \in 1 .. Len(r) : r[d] <= m
  BY Elements, Bounded
<1>3. PICK m \in Nat : \A d \in DOMAIN r : r[d] <= m
  BY <1>2, Elements
<1>4. \A y \in T : y <= m
  BY <1>3 DEF ToSet
<1> HIDE DEF T
<1>5. Max(T) \in T /\ \A y \in T : y <= Max(T)
  BY <1>1, <1>4, MaxIs
<1> QED
  BY <1>1, <1>5 DEF T

\* The points of a range: every index below its extents.
LEMMA PointsAre ==
  ASSUME NEW r \in Seq(Nat), r # <<>>
  PROVE  Points(r) = {p \in [DOMAIN r -> Nat] : \A d \in DOMAIN r : p[d] < r[d]}
<1> DEFINE M == Max(ToSet(r))
           Q == {p \in [DOMAIN r -> Nat] : \A d \in DOMAIN r : p[d] < r[d]}
<1>1. M \in Nat /\ \A d \in DOMAIN r : r[d] <= M /\ r[d] \in Nat
  BY MaxBound
<1>2. Points(r) = {p \in [DOMAIN r -> 0 .. M] : \A d \in DOMAIN r : p[d] < r[d]}
  BY DEF Points
<1> HIDE DEF M
<1>3. ASSUME NEW p \in Points(r) PROVE p \in Q
  BY <1>1, <1>2, <1>3
<1>4. ASSUME NEW p \in Q PROVE p \in Points(r)
  <2>1. \A d \in DOMAIN r : p[d] \in 0 .. M
    BY <1>1, <1>4
  <2>2. p \in [DOMAIN r -> 0 .. M]
    BY <2>1
  <2> QED
    BY <1>2, <2>2
<1> QED
  BY <1>3, <1>4

\* The index space of a launch has one to three dimensions.
LEMMA MkRangeType ==
  ASSUME NEW dims \in Seq(Nat), Len(dims) \in 1 .. 3
  PROVE  /\ MkRange(dims) \in Seq(Nat) /\ Len(MkRange(dims)) \in 1 .. 3
         /\ (\A d \in DOMAIN dims : d # 1 => dims[d] # 0) => MkRange(dims) = dims
<1>0. \A d \in 1 .. Len(dims) : dims[d] \in Nat
  BY Elements
<1>1. CASE Len(dims) = 1
  <2>1. MkRange(dims) = <<dims[1]>> /\ dims[1] \in Nat
    BY <1>1 DEF MkRange
  <2> QED
    BY <1>1, <2>1
<1>2. CASE Len(dims) = 2
  <2>1. dims[1] \in Nat /\ dims[2] \in Nat
    BY <1>0, <1>2
  <2>2. SubSeq(dims, 1, 2) = dims
    BY <1>0, <1>2
  <2>3. MkRange(dims) = IF dims[2] = 0 THEN <<dims[1]>> ELSE dims
    <3>1. MkRange(dims) = IF Len(dims) = 1 \/ dims[2] = 0 THEN <<dims[1]>>
                          ELSE IF Len(dims) = 2 \/ dims[3] = 0 THEN SubSeq(dims, 1, 2)
                          ELSE dims
      BY DEF MkRange
    <3>2. Len(dims) # 1
      BY <1>2
    <3> QED
      BY <1>2, <2>2, <3>1, <3>2, Zenon
  <2> QED
    BY <1>2, <2>1, <2>3
<1>3. CASE Len(dims) = 3
  <2>1. dims[1] \in Nat /\ dims[2] \in Nat /\ dims[3] \in Nat
    BY <1>0, <1>3
  <2>2. SubSeq(dims, 1, 2) \in Seq(Nat) /\ Len(SubSeq(dims, 1, 2)) = 2
    BY <1>0, <1>3
  <2>3. MkRange(dims) = IF dims[2] = 0 THEN <<dims[1]>>
                        ELSE IF dims[3] = 0 THEN SubSeq(dims, 1, 2) ELSE dims
    BY <1>3 DEF MkRange
  <2> QED
    BY <1>3, <2>1, <2>2, <2>3
<1> QED
  BY <1>1, <1>2, <1>3

\* A range that a dpjit function returns is the one it made.
LEMMA BoxAlloc ==
  ASSUME NEW dims \in Seq(Nat), Len(dims) \in 1 .. 3
  PROVE  BoxRange(RangeAlloc(dims)) = MkRange(dims)
<1> DEFINE dim == [d \in 1 .. 3 |-> IF d <= Len(dims) THEN dims[d] ELSE UndefinedDim]
<1>1. RangeAlloc(dims).dim = dim /\ RangeAlloc(dims).ndim = Len(dims)
  BY DEF RangeAlloc
<1>2. dim \in [1 .. 3 -> Int]
  BY DEF UndefinedDim
<1>3. dim \in Seq(Int) /\ Len(dim) = 3
  BY <1>2
<1>4. \A d \in 1 .. Len(dims) : dim[d] = dims[d]
  OBVIOUS
<1> HIDE DEF dim
<1>5. SubSeq(dim, 1, Len(dims)) = dims
  BY <1>3, <1>4
<1> QED
  BY <1>1, <1>5 DEF BoxRange

LEMMA MadeType ==
  ASSUME NEW dims \in Seq(Nat), Len(dims) \in 1 .. 3, call \in Calls
  PROVE  /\ Made(dims) \in Seq(Nat) /\ Len(Made(dims)) \in 1 .. 3
         /\ call.made = "jit" \/ (\A d \in DOMAIN dims : d # 1 => dims[d] # 0)
              => Made(dims) = dims
<1>1. call.made \in {"python", "jit", "returned"}
  BY CallAssumption
<1>2. Made(dims) = IF call.made = "jit" THEN dims ELSE MkRange(dims)
  BY <1>1, BoxAlloc DEF Made
<1> QED
  BY <1>2, MkRangeType

LEMMA GlobalType ==
  ASSUME call \in Calls, call.caller = "parfor" => Len(call.loops) <= 3
  PROVE  Global \in Seq(Nat) /\ Len(Global) \in 1 .. 3 /\ Global # <<>>
<1>1. CASE call.caller = "parfor"
  <2>1. call.loops \in Seq([start : Nat, stop : Nat, step : Int]) /\ call.loops # <<>>
    BY <1>1, CallAssumption
  <2>2. /\ Len(call.loops) \in 1 .. 3 /\ DOMAIN call.loops = 1 .. Len(call.loops)
        /\ \A d \in DOMAIN call.loops : call.loops[d].stop \in Nat
    <3>1. /\ Len(call.loops) \in Nat /\ DOMAIN call.loops = 1 .. Len(call.loops)
          /\ \A d \in 1 .. Len(call.loops) :
               call.loops[d] \in [start : Nat, stop : Nat, step : Int]
      BY <2>1, SeqElements
    <3>2. Len(call.loops) # 0
      BY <2>1
    <3>3. Len(call.loops) <= 3
      BY <1>1
    <3>4. \A d \in 1 .. Len(call.loops) : call.loops[d].stop \in Nat
      BY <3>1
    <3> DEFINE n == Len(call.loops)
    <3>5. n \in Nat /\ n # 0 /\ n <= 3
      BY <3>1, <3>2, <3>3
    <3> HIDE DEF n
    <3>6. n \in 1 .. 3
      BY <3>5
    <3> QED
      BY <3>1, <3>4, <3>6, Zenon DEF n
  <2>3. Global = [d \in DOMAIN call.loops |-> call.loops[d].stop]
    BY <1>1 DEF Global
  <2>4. Global \in [1 .. Len(call.loops) -> Nat]
    BY <2>2, <2>3
  <2> DEFINE n == Len(call.loops)
  <2>5. n \in 1 .. 3 /\ Global \in [1 .. n -> Nat]
    BY <2>2, <2>4
  <2> HIDE DEF n
  <2>6. Global \in Seq(Nat) /\ Len(Global) = n
    BY <2>5
  <2>7. Len(Global) \in 1 .. 3
    BY <2>5, <2>6
  <2>8. Global # <<>>
    BY <2>6, <2>7
  <2> QED
    BY <2>6, <2>7, <2>8
<1>2. CASE call.caller # "parfor"
  <2>1. call.dims \in Seq(Nat) /\ Len(call.dims) \in 1 .. 3
    BY <1>2, CallAssumption
  <2>2. Made(call.dims) \in Seq(Nat) /\ Len(Made(call.dims)) \in 1 .. 3
    BY <2>1, MadeType
  <2>3. Global = Made(call.dims)
    BY <1>2 DEF Global
  <2> QED
    BY <2>2, <2>3
<1> QED
  BY <1>1, <1>2

\* The extents are reversed twice on their way to the device, and none is lost
\* (call_kernel_builder.py 280-300).
LEMMA DeviceRange ==
  ASSUME Global \in Seq(Nat), Len(Global) \in 1 .. 3
  PROVE  NativeRange(IRArguments.global) = Global
<1> DEFINE n == Len(Global)
           e == Extents(RangeStruct(Global), n)
<1>1. \A d \in 1 .. n : RangeStruct(Global).dim[d] = Global[d]
  BY DEF RangeStruct, RangeAlloc, UnboxRange
<1>2. e = [d \in 1 .. n |-> Global[d]]
  BY <1>1 DEF Extents
<1>3. e = Global
  BY <1>2
<1>4. Reverse(Reverse(Global)) = Global
  BY DEF Reverse
<1>5. IRArguments.global = Reverse(Global)
  BY <1>3 DEF IRArguments, SyclRange, CreateSyclRange
<1> QED
  BY <1>4, <1>5 DEF NativeRange

\* An index in groups of l: which group, and where in it.
LEMMA Groups ==
  ASSUME NEW g \in Nat, NEW l \in Nat, l > 0, g % l = 0
  PROVE  /\ g \div l \in Nat
         /\ \A q, m \in Nat : q < g \div l /\ m < l => q * l + m \in Nat /\ q * l + m < g
         /\ \A x \in Nat : x < g =>
              /\ x \div l \in Nat /\ x \div l < g \div l /\ x % l \in Nat /\ x % l < l
              /\ x = (x \div l) * l + (x % l)
<1> DEFINE k == g \div l
<1>1. k \in Nat /\ g = k * l
  <2>1. k \in Nat /\ g = l * k + (g % l)
    OBVIOUS
  <2> QED
    BY <2>1
<1>2. \A a, b \in Nat : a <= b => a * l <= b * l
  OBVIOUS
<1>3. ASSUME NEW q \in Nat, NEW m \in Nat, q < k, m < l PROVE q * l + m \in Nat /\ q * l + m < g
  <2>1. (q + 1) * l <= k * l
    BY <1>1, <1>2, <1>3
  <2>2. (q + 1) * l = q * l + l /\ q * l \in Nat /\ k * l \in Nat
    BY <1>1
  <2> QED
    BY <1>1, <1>3, <2>1, <2>2
<1>4. ASSUME NEW x \in Nat, x < g
      PROVE  /\ x \div l \in Nat /\ x \div l < k /\ x % l \in Nat /\ x % l < l
             /\ x = (x \div l) * l + (x % l)
  <2> DEFINE q == x \div l
  <2>1. q \in Nat /\ x % l \in Nat /\ x % l < l /\ x = l * q + (x % l)
    OBVIOUS
  <2>2. l * q = q * l
    BY <2>1
  <2>3. ~ (k <= q)
    <3> SUFFICES ASSUME k <= q PROVE FALSE
      OBVIOUS
    <3>1. k * l <= q * l
      BY <1>1, <1>2, <2>1
    <3>2. k * l \in Nat /\ q * l \in Nat
      BY <1>1, <2>1
    <3> QED
      BY <1>1, <1>4, <2>1, <2>2, <3>1, <3>2
  <2> QED
    BY <1>1, <2>1, <2>2, <2>3
<1> QED
  BY <1>1, <1>3, <1>4

LEMMA GroupsUnique ==
  ASSUME NEW l \in Nat, NEW q \in Nat, NEW m \in Nat, NEW r \in Nat, NEW n \in Nat,
         NEW g, m < l, n < l, g = q * l + m, g = r * l + n
  PROVE  q = r /\ m = n
<1>1. \A a, b \in Nat : a < b => a * l + l <= b * l
  <2> SUFFICES ASSUME NEW a \in Nat, NEW b \in Nat, a < b PROVE a * l + l <= b * l
    OBVIOUS
  <2>1. \A c, d \in Nat : c <= d => c * l <= d * l
    OBVIOUS
  <2>2. (a + 1) * l <= b * l
    BY <2>1
  <2>3. (a + 1) * l = a * l + l
    OBVIOUS
  <2> QED
    BY <2>2, <2>3
<1>2. q * l \in Nat /\ r * l \in Nat
  OBVIOUS
<1>3. ~ (q < r)
  <2> SUFFICES ASSUME q < r PROVE FALSE
    OBVIOUS
  <2>1. q * l + l <= r * l
    BY <1>1
  <2> QED
    BY <1>2, <2>1
<1>4. ~ (r < q)
  <2> SUFFICES ASSUME r < q PROVE FALSE
    OBVIOUS
  <2>1. r * l + l <= q * l
    BY <1>1
  <2> QED
    BY <1>2, <2>1
<1>5. q = r
  BY <1>3, <1>4
<1> QED
  BY <1>2, <1>5

\* An NdRange that was accepted: groups of one size fill the range.
LEMMA Accepted ==
  ASSUME call \in Calls, call.caller # "parfor", call.kind = "NdRange", SpaceError = "none"
  PROVE  /\ Local \in Seq(Nat) /\ Len(Local) = Len(Global)
         /\ \A d \in 1 .. Len(Global) : Local[d] > 0 /\ Global[d] % Local[d] = 0
<1>1. /\ call.dims \in Seq(Nat) /\ Len(call.dims) \in 1 .. 3
      /\ call.local \in Seq(Nat) /\ Len(call.local) \in 1 .. 3
  BY CallAssumption
<1>2. Global \in Seq(Nat) /\ Local \in Seq(Nat)
  BY <1>1, MadeType DEF Global, Local
<1>3. NdRangeError(Global, Local) = "none"
  <2>1. CASE call.made = "jit"
    <3>1. Global = call.dims /\ Local = call.local
      BY <2>1 DEF Global, Local, Made
    <3>2. SpaceError = JitNdRangeError(call.dims, call.local) \/ SpaceError = "none"
      BY <2>1 DEF SpaceError
    <3>3. Len(call.local) = Len(call.dims)
      BY <2>1 DEF SpaceError, JitNdRangeError
    <3>4. NdRangeError(call.dims, call.local) # "UnmatchedNumberOfRangeDimsError"
      BY <3>3 DEF NdRangeError
    <3> QED
      BY <2>1, <3>1, <3>4, NdRangeAssumption
  <2>2. CASE call.made # "jit"
    BY <2>2 DEF SpaceError
  <2> QED
    BY <2>1, <2>2
<1> DEFINE bad == {d \in DOMAIN Global : Local[d] = 0 \/ Global[d] % Local[d] # 0}
<1>4. Len(Local) = Len(Global) /\ bad = {}
  BY <1>3 DEF NdRangeError
<1>5. DOMAIN Global = 1 .. Len(Global) /\ \A d \in 1 .. Len(Local) : Local[d] \in Nat
  BY <1>2, Elements
<1>6. \A d \in 1 .. Len(Global) : Local[d] \in Nat /\ ~ (Local[d] = 0 \/ Global[d] % Local[d] # 0)
  BY <1>4, <1>5
<1> QED
  BY <1>2, <1>4, <1>6

----------------------------------------------------------------------------
(* The simulator's loops *)

\* The index of the item at position i of the nested loops of an NdRange kernel.
Split(i) == [d \in DOMAIN Global |-> i[d] * Local[d] + i[Len(Global) + d]]
MockPoints == Points(GroupRange \o Local)

LEMMA Concatenation ==
  ASSUME NEW a \in Seq(Nat), NEW b \in Seq(Nat), NEW n \in Nat, Len(a) = n, Len(b) = n
  PROVE  /\ a \o b \in Seq(Nat) /\ Len(a \o b) = n + n /\ DOMAIN (a \o b) = 1 .. n + n
         /\ \A d \in 1 .. n : (a \o b)[d] = a[d] /\ (a \o b)[n + d] = b[d]
<1>1. a \o b \in Seq(Nat) /\ Len(a \o b) = n + n
  OBVIOUS
<1>2. DOMAIN (a \o b) = 1 .. n + n
  BY <1>1
<1>3. ASSUME NEW d \in 1 .. n PROVE (a \o b)[d] = a[d]
  OBVIOUS
<1>4. ASSUME NEW d \in 1 .. n PROVE (a \o b)[n + d] = b[d]
  OBVIOUS
<1> QED
  BY <1>1, <1>2, <1>3, <1>4

LEMMA MockPointsAre ==
  ASSUME Global \in Seq(Nat), Global # <<>>, Local \in Seq(Nat), Len(Local) = Len(Global),
         \A d \in 1 .. Len(Global) : Local[d] > 0 /\ Global[d] % Local[d] = 0
  PROVE  MockPoints =
           {p \in [1 .. 2 * Len(Global) -> Nat] : \A d \in 1 .. Len(Global) :
              p[d] < Global[d] \div Local[d] /\ p[Len(Global) + d] < Local[d]}
<1> DEFINE n == Len(Global)
           r == GroupRange \o Local
<1>1. /\ n \in Nat /\ n > 0 /\ DOMAIN Global = 1 .. n
      /\ \A d \in 1 .. n : Global[d] \in Nat /\ Local[d] \in Nat
  BY Elements
<1>2. \A d \in 1 .. n : Global[d] \div Local[d] \in Nat
  <2> SUFFICES ASSUME NEW d \in 1 .. n PROVE Global[d] \div Local[d] \in Nat
    OBVIOUS
  <2>1. Local[d] > 0 /\ Global[d] % Local[d] = 0
    OBVIOUS
  <2>2. Global[d] \in Nat /\ Local[d] \in Nat
    BY <1>1
  <2> QED
    BY <2>1, <2>2, Groups
<1>3. GroupRange \in [1 .. n -> Nat] /\ \A d \in 1 .. n : GroupRange[d] = Global[d] \div Local[d]
  BY <1>1, <1>2 DEF GroupRange
<1>4. GroupRange \in Seq(Nat) /\ Len(GroupRange) = n
  <2>1. n \in Nat
    BY <1>1
  <2> HIDE DEF n
  <2> QED
    BY <1>3, <2>1
<1>5. r \in Seq(Nat) /\ Len(r) = n + n /\ DOMAIN r = 1 .. n + n
  BY <1>1, <1>4, Concatenation
<1>6. \A d \in 1 .. n : r[d] = GroupRange[d] /\ r[n + d] = Local[d]
  BY <1>1, <1>4, Concatenation
<1>7. r # <<>>
  BY <1>1, <1>5
<1>8. MockPoints = {p \in [1 .. n + n -> Nat] : \A d \in 1 .. n + n : p[d] < r[d]}
  BY <1>5, <1>7, PointsAre DEF MockPoints
<1> HIDE DEF n, r
<1>9. \A p : (\A d \in 1 .. n + n : p[d] < r[d])
               <=> \A d \in 1 .. n : p[d] < r[d] /\ p[n + d] < r[n + d]
  <2>1. \A d \in 1 .. n : d \in 1 .. n + n /\ n + d \in 1 .. n + n
    BY <1>1
  <2>2. \A d \in 1 .. n + n : d \in 1 .. n \/ (d - n \in 1 .. n /\ d = n + (d - n))
    BY <1>1
  <2> QED
    BY <2>1, <2>2
<1>10. n + n = 2 * n
  BY <1>1
<1>11. MockPoints =
         {p \in [1 .. 2 * n -> Nat] : \A d \in 1 .. n :
            p[d] < Global[d] \div Local[d] /\ p[n + d] < Local[d]}
  BY <1>3, <1>6, <1>8, <1>9, <1>10
<1> QED
  BY <1>11 DEF n

\* The simulator comes to every index once.
LEMMA SplitBijective ==
  ASSUME Global \in Seq(Nat), Global # <<>>, Local \in Seq(Nat), Len(Local) = Len(Global),
         \A d \in 1 .. Len(Global) : Local[d] > 0 /\ Global[d] % Local[d] = 0
  PROVE  /\ \A i \in MockPoints : Split(i) \in Points(Global)
         /\ \A i, j \in MockPoints : Split(i) = Split(j) => i = j
         /\ \A x \in Points(Global) : \E i \in MockPoints : Split(i) = x
<1> DEFINE n == Len(Global)
<1>1. /\ n \in Nat /\ n > 0 /\ DOMAIN Global = 1 .. n
      /\ \A d \in 1 .. n : Global[d] \in Nat /\ Local[d] \in Nat
  BY Elements
<1>2. \A d \in 1 .. n : d \in 1 .. 2 * n /\ n + d \in 1 .. 2 * n
  BY <1>1
<1>3. Points(Global) = {p \in [1 .. n -> Nat] : \A d \in 1 .. n : p[d] < Global[d]}
  BY <1>1, PointsAre
<1>4. MockPoints =
        {p \in [1 .. 2 * n -> Nat] : \A d \in 1 .. n :
           p[d] < Global[d] \div Local[d] /\ p[n + d] < Local[d]}
  BY MockPointsAre
<1>5. \A i : Split(i) = [d \in 1 .. n |-> i[d] * Local[d] + i[n + d]]
  BY <1>1 DEF Split
<1> HIDE DEF n
<1>6. ASSUME NEW i \in MockPoints, NEW d \in 1 .. n
      PROVE  /\ i[d] \in Nat /\ i[n + d] \in Nat
             /\ i[d] < Global[d] \div Local[d] /\ i[n + d] < Local[d]
             /\ i[d] * Local[d] + i[n + d] \in Nat
             /\ i[d] * Local[d] + i[n + d] < Global[d]
  <2>1. i[d] \in Nat /\ i[n + d] \in Nat
    BY <1>2, <1>4
  <2>2. i[d] < Global[d] \div Local[d] /\ i[n + d] < Local[d]
    BY <1>4
  <2>3. Local[d] > 0 /\ Global[d] % Local[d] = 0
    BY DEF n
  <2>4. Global[d] \in Nat /\ Local[d] \in Nat
    BY <1>1
  <2> QED
    BY <2>1, <2>2, <2>3, <2>4, Groups
<1>7. ASSUME NEW i \in MockPoints PROVE Split(i) \in Points(Global)
  BY <1>3, <1>5, <1>6
<1>8. ASSUME NEW i \in MockPoints, NEW j \in MockPoints, Split(i) = Split(j) PROVE i = j
  <2>1. ASSUME NEW d \in 1 .. n PROVE i[d] = j[d] /\ i[n + d] = j[n + d]
    <3>1. i[d] * Local[d] + i[n + d] = j[d] * Local[d] + j[n + d]
      <4>1. Split(i)[d] = Split(j)[d]
        BY <1>8
      <4> QED
        BY <1>5, <4>1
    <3>2. Local[d] \in Nat
      BY <1>1
    <3>3. /\ i[d] \in Nat /\ i[n + d] \in Nat /\ i[n + d] < Local[d]
          /\ j[d] \in Nat /\ j[n + d] \in Nat /\ j[n + d] < Local[d]
      BY <1>6
    <3>4. PICK l \in Nat : l = Local[d]
      BY <3>2
    <3>5. PICK q \in Nat, m \in Nat : q = i[d] /\ m = i[n + d]
      BY <3>3
    <3>6. PICK r \in Nat, k \in Nat : r = j[d] /\ k = j[n + d]
      BY <3>3
    <3>7. m < l /\ k < l
      BY <3>3, <3>4, <3>5, <3>6
    <3>8. PICK g : g = i[d] * Local[d] + i[n + d]
      OBVIOUS
    <3>9. g = q * l + m
      BY <3>4, <3>5, <3>8, Zenon
    <3>10. g = r * l + k
      BY <3>1, <3>4, <3>6, <3>8, Zenon
    <3>11. q = r /\ m = k
      BY <3>7, <3>9, <3>10, GroupsUnique
    <3> QED
      BY <3>5, <3>6, <3>11
  <2>2. \A e \in 1 .. 2 * n : e \in 1 .. n \/ (e - n \in 1 .. n /\ e = n + (e - n))
    BY <1>1
  <2>3. \A e \in 1 .. 2 * n : i[e] = j[e]
    BY <2>1, <2>2
  <2>4. i \in [1 .. 2 * n -> Nat] /\ j \in [1 .. 2 * n -> Nat]
    BY <1>4
  <2>5. i = [e \in 1 .. 2 * n |-> i[e]] /\ j = [e \in 1 .. 2 * n |-> j[e]]
    BY <2>4
  <2> QED
    BY <2>3, <2>5, Zenon
<1>9. ASSUME NEW x \in Points(Global) PROVE \E i \in MockPoints : Split(i) = x
  <2>1. x \in [1 .. n -> Nat] /\ \A d \in 1 .. n : x[d] \in Nat /\ x[d] < Global[d]
    BY <1>3
  <2>2. ASSUME NEW d \in 1 .. n
        PROVE  /\ x[d] \div Local[d] \in Nat /\ x[d] \div Local[d] < Global[d] \div Local[d]
               /\ x[d] % Local[d] \in Nat /\ x[d] % Local[d] < Local[d]
               /\ x[d] = (x[d] \div Local[d]) * Local[d] + (x[d] % Local[d])
    <3>1. Local[d] > 0 /\ Global[d] % Local[d] = 0
      BY DEF n
    <3>2. Global[d] \in Nat /\ Local[d] \in Nat
      BY <1>1
    <3>3. \A y \in Nat : y < Global[d] =>
            /\ y \div Local[d] \in Nat /\ y \div Local[d] < Global[d] \div Local[d]
            /\ y % Local[d] \in Nat /\ y % Local[d] < Local[d]
            /\ y = (y \div Local[d]) * Local[d] + (y % Local[d])
      BY <3>1, <3>2, Groups
    <3> QED
      BY <2>1, <3>3, Zenon
  <2> DEFINE i == [e \in 1 .. 2 * n |-> IF e <= n THEN x[e] \div Local[e]
                                         ELSE x[e - n] % Local[e - n]]
  <2>3. \A d \in 1 .. n : d <= n /\ ~ (n + d <= n) /\ (n + d) - n = d
    BY <1>1
  <2>4. \A d \in 1 .. n : i[d] = x[d] \div Local[d] /\ i[n + d] = x[d] % Local[d]
    BY <1>2, <2>3
  <2>5. \A e \in 1 .. 2 * n : i[e] \in Nat
    <3>1. \A e \in 1 .. 2 * n : e \in 1 .. n \/ (e - n \in 1 .. n /\ e = n + (e - n))
      BY <1>1
    <3> HIDE DEF i
    <3> QED
      BY <2>2, <2>4, <3>1
  <2>6. i \in [1 .. 2 * n -> Nat]
    BY <2>5
  <2> HIDE DEF i
  <2>7. i \in MockPoints
    BY <1>4, <2>2, <2>4, <2>6
  <2>8. Split(i) = x
    BY <1>5, <2>1, <2>2, <2>4
  <2> QED
    BY <2>7, <2>8
<1> QED
  BY <1>7, <1>8, <1>9

----------------------------------------------------------------------------
(* The work items *)

\* The positions of the items in the order in which they are run, and the index of
\* the item at each: the simulator loops over groups first.
SplitLoops == call.caller = "python" /\ call.kind = "NdRange"
Positions == IF SplitLoops THEN MockPoints ELSE Points(Global)
Index == [i \in Positions |-> IF SplitLoops THEN Split(i) ELSE i]
Indices(S) == {Index[i] : i \in S}

\* The items run or about to run.
Started == phase = "loop" \/ native # NoLaunch

\* The kernel has run for the indices of those items that are not left.
ItemsInv ==
  /\ Ids \subseteq Points(Global)
  /\ Started => left \subseteq Positions /\ Ids = Points(Global) \ Indices(left)

\* Every position has its index, and every index its position.
LEMMA IndexBijective ==
  ASSUME LaunchInv, phase \notin Errors \cup {"construct", "type"}
  PROVE  /\ Index \in [Positions -> Points(Global)]
         /\ \A i, j \in Positions : Index[i] = Index[j] => i = j
         /\ \A x \in Points(Global) : \E i \in Positions : Index[i] = x
<1>1. CASE SplitLoops
  <2>1. call \in Calls /\ call.caller # "parfor" /\ call.kind = "NdRange" /\ SpaceError = "none"
    BY <1>1 DEF LaunchInv, ControlInv, SpaceInv, SplitLoops
  <2>2. Global \in Seq(Nat) /\ Global # <<>>
    BY <2>1, GlobalType
  <2>3. Positions = MockPoints /\ Index = [i \in MockPoints |-> Split(i)]
    BY <1>1 DEF Positions, Index
  <2>4. /\ Local \in Seq(Nat) /\ Len(Local) = Len(Global)
        /\ \A d \in 1 .. Len(Global) : Local[d] > 0 /\ Global[d] % Local[d] = 0
    BY <2>1, Accepted
  <2>5. /\ \A i \in MockPoints : Split(i) \in Points(Global)
        /\ \A i, j \in MockPoints : Split(i) = Split(j) => i = j
        /\ \A x \in Points(Global) : \E i \in MockPoints : Split(i) = x
    BY <2>2, <2>4, SplitBijective
  <2> QED
    BY <2>3, <2>5, Zenon
<1>2. CASE ~SplitLoops
  BY <1>2 DEF Positions, Index
<1> QED
  BY <1>1, <1>2

\* Running the item at one position.
LEMMA OneItem ==
  ASSUME NEW P, NEW Q, NEW f \in [Q -> P], \A i, j \in Q : f[i] = f[j] => i = j,
         NEW S, S \subseteq Q, NEW i \in S, NEW D, D = P \ {f[j] : j \in S}
  PROVE  /\ f[i] \in P \ D
         /\ D \cup {f[i]} = P \ {f[j] : j \in S \ {i}}
<1>1. f[i] \in P /\ f[i] \in {f[j] : j \in S}
  OBVIOUS
<1>2. ASSUME NEW x PROVE x \in {f[j] : j \in S \ {i}} <=> x \in {f[j] : j \in S} /\ x # f[i]
  OBVIOUS
<1> QED
  BY <1>1, <1>2

\* Before any item runs.
LEMMA AllLeft ==
  ASSUME NEW P, NEW Q, NEW f \in [Q -> P], \A x \in P : \E i \in Q : f[i] = x
  PROVE  {} = P \ {f[j] : j \in Q}
  OBVIOUS

\* What an item says of its index: the index it runs for.
LEMMA TellsIndex ==
  ASSUME LaunchInv, Started, NEW i \in Positions
  PROVE  /\ phase = "loop" => LoopVariables(MockItem(i).methods) = Index[i]
         /\ native # NoLaunch =>
              LoopVariables(ItemOnDevice(Builtins(NativeRange(native.global), NativeLocal, i),
                                         call.kind).methods) = Index[i]
<1>1. /\ call \in Calls
      /\ phase = "loop" => call.caller = "python" /\ native = NoLaunch
      /\ native # NoLaunch => call.caller # "python" /\ native = IRArguments
      /\ phase \notin Errors \cup {"construct", "type"}
      /\ call.caller = "parfor" => Len(call.loops) <= 3
  <2>1. phase \in {"loop", "wait", "returned"}
    BY DEF LaunchInv, ProgressInv, Started
  <2>2. phase \notin Errors \cup {"construct", "type"}
    BY <2>1 DEF Errors
  <2> QED
    BY <2>1, <2>2 DEF LaunchInv, ControlInv, ProgressInv, SpaceInv
<1> DEFINE n == Len(Global)
<1>2. /\ Global \in Seq(Nat) /\ n \in 1 .. 3 /\ Global # <<>>
      /\ DOMAIN Global = 1 .. n
  BY <1>1, GlobalType, Elements
<1>3. \A m, k : Answers(m, k).methods = m
  BY DEF Answers
<1>4. ASSUME ~SplitLoops PROVE i = [d \in DOMAIN i |-> i[d]] /\ Index[i] = i
  <2>1. i \in [DOMAIN Global -> Nat]
    BY <1>2, <1>4, PointsAre DEF Positions
  <2> QED
    BY <1>4, <2>1 DEF Index
<1>5. ASSUME phase = "loop" PROVE LoopVariables(MockItem(i).methods) = Index[i]
  <2>1. CASE call.kind = "Range"
    <3>1. MockItem(i).methods.get_global_id = i
      BY <1>3, <2>1 DEF MockItem, MethodsOfItem
    <3> QED
      BY <1>4, <2>1, <3>1 DEF LoopVariables, SplitLoops
  <2>2. CASE call.kind # "Range"
    <3> DEFINE gidx == SubSeq(i, 1, n)
               lidx == SubSeq(i, n + 1, 2 * n)
    <3>1. SplitLoops /\ call.kind = "NdRange"
      BY <1>1, <1>5, <2>2, CallAssumption DEF SplitLoops
    <3>2. SpaceError = "none"
      BY <1>1, <1>5, <3>1 DEF LaunchInv, SpaceInv, SplitLoops
    <3>3. /\ Local \in Seq(Nat) /\ Len(Local) = Len(Global)
          /\ \A d \in 1 .. Len(Global) : Local[d] > 0 /\ Global[d] % Local[d] = 0
      BY <1>1, <3>1, <3>2, Accepted DEF SplitLoops
    <3>4. i \in [1 .. 2 * n -> Nat]
      BY <1>2, <3>1, <3>3, MockPointsAre DEF Positions
    <3>5. DOMAIN gidx = 1 .. n /\ \A d \in 1 .. n : gidx[d] = i[d]
      <4>1. n \in Nat
        BY <1>2
      <4> HIDE DEF n
      <4> QED
        BY <3>4, <4>1
    <3>6. \A d \in 1 .. n : lidx[d] = i[n + d]
      <4>1. n \in Nat
        BY <1>2
      <4> HIDE DEF n
      <4>2. i \in Seq(Nat) /\ Len(i) = 2 * n
        BY <3>4, <4>1
      <4>3. ASSUME NEW d \in 1 .. n PROVE lidx[d] = i[n + d]
        BY <4>1, <4>2
      <4> QED
        BY <4>3
    <3>7. MockItem(i).methods = MethodsOfNdItem(Global, Local, gidx, lidx)
      BY <1>3, <2>2 DEF MockItem
    <3> HIDE DEF gidx, lidx
    <3>8. MockItem(i).methods.get_global_id = [d \in 1 .. n |-> i[d] * Local[d] + i[n + d]]
      BY <3>5, <3>6, <3>7 DEF MethodsOfNdItem
    <3>9. Split(i) = [d \in 1 .. n |-> i[d] * Local[d] + i[n + d]]
      BY <1>2 DEF Split
    <3>10. LoopVariables(MockItem(i).methods) = Split(i)
      BY <3>8, <3>9 DEF LoopVariables
    <3> QED
      BY <3>1, <3>10 DEF Index
  <2> QED
    BY <2>1, <2>2
<1>6. ASSUME native # NoLaunch
      PROVE  LoopVariables(ItemOnDevice(Builtins(NativeRange(native.global), NativeLocal, i),
                                        call.kind).methods) = Index[i]
  <2>1. ~SplitLoops
    BY <1>1, <1>6 DEF SplitLoops
  <2>2. \A b, k : ItemOnDevice(b, k).methods.get_global_id = b.GlobalInvocationId
    BY <1>3 DEF ItemOnDevice, MethodsOnDevice
  <2>3. \A r, l : Builtins(r, l, i).GlobalInvocationId = i
    BY DEF Builtins
  <2> QED
    BY <1>4, <2>1, <2>2, <2>3 DEF LoopVariables
<1> QED
  BY <1>5, <1>6

LEMMA ItemsFrozen ==
  ASSUME call' = call
  PROVE  Positions' = Positions /\ Index' = Index /\ Points(Global)' = Points(Global)
<1>1. Global' = Global /\ Local' = Local
  BY Frozen
<1>2. MockPoints' = MockPoints /\ Points(Global)' = Points(Global)
  BY <1>1 DEF MockPoints, GroupRange, Points
<1>3. \A i : Split(i)' = Split(i)
  BY <1>1 DEF Split
<1>4. (SplitLoops)' <=> SplitLoops
  BY DEF SplitLoops
<1>5. Positions' = Positions
  BY <1>2, <1>4 DEF Positions
<1>6. Index' = Index
  BY <1>3, <1>4, <1>5 DEF Index, Split
<1> QED
  BY <1>2, <1>5, <1>6

\* An item that runs is told an index the kernel has not run for.
LEMMA OneMore ==
  ASSUME LaunchInv, ItemsInv, Started, call' = call, NEW i \in left, NEW m,
         left' = left \ {i}, ran' = ran \cup {m}, LoopVariables(m.methods) = Index[i]
  PROVE  /\ Index[i] \in Points(Global) \ Ids
         /\ Ids' = Ids \cup {Index[i]}
         /\ left' \subseteq Positions
         /\ Ids' = Points(Global) \ {Index[j] : j \in left'}
<1>1. phase \notin Errors \cup {"construct", "type"}
  <2>1. phase \in {"loop", "wait", "returned"}
    BY DEF LaunchInv, ProgressInv, Started
  <2> QED
    BY <2>1 DEF Errors
<1>2. /\ Index \in [Positions -> Points(Global)]
      /\ \A p, q \in Positions : Index[p] = Index[q] => p = q
  BY <1>1, IndexBijective
<1>3. left \subseteq Positions /\ Ids = Points(Global) \ {Index[j] : j \in left}
  BY DEF ItemsInv, Indices
<1>4. Ids' = Ids \cup {Index[i]}
  <2>1. \A v : LoopVariables(v)' = LoopVariables(v)
    BY DEF LoopVariables
  <2>2. Ids' = {LoopVariables(v.methods) : v \in ran \cup {m}}
    BY DEF Ids, LoopVariables
  <2> QED
    BY <2>2 DEF Ids
<1>5. /\ Index[i] \in Points(Global) \ Ids
      /\ Ids \cup {Index[i]} = Points(Global) \ {Index[j] : j \in left \ {i}}
  BY <1>2, <1>3, OneItem
<1> QED
  BY <1>3, <1>4, <1>5

\* What a step of the device does.
LEMMA DeviceRuns ==
  ASSUME LaunchInv, ItemsInv, call' = call, NEW i \in left, RunItem(i)
  PROVE  /\ Started /\ phase \in {"wait", "returned"}
         /\ UNCHANGED <<phase, native>> /\ runs' = runs + 1 /\ left' = left \ {i}
         /\ Index[i] \in Points(Global) \ Ids
         /\ Ids' = Ids \cup {Index[i]}
         /\ left' \subseteq Positions
         /\ Ids' = Points(Global) \ {Index[j] : j \in left'}
<1>1. /\ event = "submitted" /\ UNCHANGED <<phase, native>> /\ runs' = runs + 1
      /\ left' = left \ {i}
  BY DEF RunItem
<1>2. native # NoLaunch /\ phase \in {"wait", "returned"}
  BY <1>1 DEF LaunchInv, ProgressInv
<1>3. Started /\ i \in Positions
  BY <1>2 DEF Started, ItemsInv
<1> DEFINE m == ItemOnDevice(Builtins(NativeRange(native.global), NativeLocal, i), call.kind)
<1>4. ran' = ran \cup {m}
  BY DEF RunItem
<1>5. LoopVariables(m.methods) = Index[i]
  BY <1>2, <1>3, TellsIndex
<1> HIDE DEF m
<1> QED
  BY <1>1, <1>2, <1>3, <1>4, <1>5, OneMore

\* What a round of the simulator's loops does.
LEMMA SimulatorRuns ==
  ASSUME LaunchInv, ItemsInv, call' = call, MockRound, phase' # "ValueError"
  PROVE  /\ Started /\ phase = "loop" /\ UNCHANGED <<phase, native>> /\ runs' = runs + 1
         /\ \E i \in left :
              /\ left' = left \ {i}
              /\ Index[i] \in Points(Global) \ Ids
              /\ Ids' = Ids \cup {Index[i]}
              /\ left' \subseteq Positions
              /\ Ids' = Points(Global) \ {Index[j] : j \in left'}
<1>1. PICK i \in left :
        /\ left' = left \ {i} /\ ran' = ran \cup {MockItem(i)} /\ runs' = runs + 1
        /\ UNCHANGED <<phase, native>> /\ phase = "loop"
  BY DEF MockRound, Raise
<1>2. Started /\ i \in Positions
  BY <1>1 DEF Started, ItemsInv
<1>3. LoopVariables(MockItem(i).methods) = Index[i]
  BY <1>1, <1>2, TellsIndex
<1>4. /\ Index[i] \in Points(Global) \ Ids
      /\ Ids' = Ids \cup {Index[i]}
      /\ left' \subseteq Positions
      /\ Ids' = Points(Global) \ {Index[j] : j \in left'}
  BY <1>1, <1>2, <1>3, OneMore
<1> QED
  BY <1>1, <1>2, <1>4

LEMMA ItemsStep == LaunchInv /\ ItemsInv /\ [Next]_vars => ItemsInv'
<1> SUFFICES ASSUME LaunchInv, ItemsInv, [Next]_vars PROVE ItemsInv'
  OBVIOUS
<1>1. call' = call
  BY SameCall
<1>2. Positions' = Positions /\ Index' = Index /\ Points(Global)' = Points(Global)
  BY <1>1, ItemsFrozen
<1>3. Indices(left)' = {Index[j] : j \in left'}
  BY <1>2 DEF Indices
<1>4. ASSUME Ids' = Points(Global) \ {Index[j] : j \in left'}, left' \subseteq Positions
      PROVE  ItemsInv'
  BY <1>2, <1>3, <1>4 DEF ItemsInv
<1>5. ASSUME UNCHANGED <<left, ran>>, Started' => Started PROVE ItemsInv'
  <2>1. Ids' = Ids
    BY <1>5 DEF Ids, LoopVariables
  <2>2. Started' => Ids = Points(Global) \ {Index[j] : j \in left} /\ left \subseteq Positions
    BY <1>5 DEF ItemsInv, Indices
  <2>3. Ids' \subseteq Points(Global)'
    BY <1>2, <2>1 DEF ItemsInv
  <2>4. CASE Started'
    BY <1>4, <1>5, <2>1, <2>2, <2>4
  <2> QED
    BY <2>3, <2>4 DEF ItemsInv
<1>6. ASSUME left' = Positions, ran' = ran, phase \in {"submit", "mock"} PROVE ItemsInv'
  <2>1. ran = {} /\ phase \notin Errors \cup {"construct", "type"}
    BY <1>6 DEF LaunchInv, ProgressInv, Fresh, Errors
  <2>2. Ids' = {}
    BY <1>6, <2>1 DEF Ids
  <2>3. Ids' = Points(Global) \ {Index[j] : j \in left'}
    BY <1>6, <2>1, <2>2, IndexBijective, AllLeft
  <2> QED
    BY <1>4, <1>6, <2>3
<1>7. ASSUME Construct \/ TypeKernel \/ TypeParfor \/ LowerLaunch PROVE ItemsInv'
  <2>1. UNCHANGED <<left, ran, native>> /\ phase' # "loop"
    BY <1>7, SpaceErrors
    DEF Construct, TypeKernel, TypeParfor, LowerLaunch, Raise, Goto, Unsubmitted, Errors
  <2>2. Started' => Started
    BY <2>1 DEF Started, NoLaunch
  <2> QED
    BY <1>5, <2>1, <2>2
<1>8. ASSUME Submit PROVE ItemsInv'
  <2>1. /\ phase = "submit" /\ ran' = ran
        /\ left' = Points(NativeRange(IRArguments.global))
    BY <1>8 DEF Submit
  <2>2. /\ call \in Calls /\ call.caller # "python"
        /\ call.caller = "parfor" => Len(call.loops) <= 3
    BY <2>1 DEF LaunchInv, ControlInv, SpaceInv
  <2>3. NativeRange(IRArguments.global) = Global
    BY <2>2, GlobalType, DeviceRange
  <2>4. left' = Positions
    BY <2>1, <2>2, <2>3 DEF Positions, SplitLoops
  <2> QED
    BY <1>6, <2>1, <2>4
<1>9. ASSUME StartMock PROVE ItemsInv'
  <2>1. /\ phase = "mock" /\ ran' = ran /\ native' = native
        /\ \/ phase' = "TypeError" /\ left' = left
           \/ left' = Points(IF call.kind = "Range" THEN Global ELSE GroupRange \o Local)
    BY <1>9 DEF StartMock, Raise, Goto
  <2>2. CASE phase' = "TypeError" /\ left' = left
    <3>1. Started' => Started
      BY <2>1, <2>2 DEF Started, NoLaunch
    <3> QED
      BY <1>5, <2>1, <2>2, <3>1
  <2>3. CASE left' = Points(IF call.kind = "Range" THEN Global ELSE GroupRange \o Local)
    <3>1. call \in Calls /\ call.caller = "python"
      BY <2>1 DEF LaunchInv, ControlInv
    <3>2. left' = Positions
      BY <2>3, <3>1, CallAssumption DEF Positions, SplitLoops, MockPoints
    <3> QED
      BY <1>6, <2>1, <3>2
  <2> QED
    BY <2>1, <2>2, <2>3
<1>10. ASSUME MockRound PROVE ItemsInv'
  <2>1. CASE phase' = "ValueError"
    <3>1. UNCHANGED <<left, ran, native>>
      BY <1>10, <2>1 DEF MockRound, Raise
    <3>2. Started' => Started
      BY <2>1, <3>1 DEF Started, NoLaunch
    <3> QED
      BY <1>5, <3>1, <3>2
  <2>2. CASE phase' # "ValueError"
    BY <1>1, <1>4, <1>10, <2>2, SimulatorRuns
  <2> QED
    BY <2>1, <2>2
<1>11. ASSUME NEW i \in left, RunItem(i) PROVE ItemsInv'
  BY <1>1, <1>4, <1>11, DeviceRuns
<1>12. ASSUME Wait \/ EndMock PROVE ItemsInv'
  <2>1. UNCHANGED <<left, ran, native>> /\ phase' # "loop"
    BY <1>12 DEF Wait, EndMock, Goto, Unsubmitted
  <2>2. Started' => Started
    BY <2>1 DEF Started, NoLaunch
  <2> QED
    BY <1>5, <2>1, <2>2
<1>13. ASSUME FinishKernel \/ Environment \/ UNCHANGED vars PROVE ItemsInv'
  <2>1. UNCHANGED <<left, ran, native, phase>>
    BY <1>13 DEF FinishKernel, Environment, CompleteEvent, vars
  <2>2. Started' => Started
    BY <2>1 DEF Started, NoLaunch
  <2> QED
    BY <1>5, <2>1, <2>2
<1> QED
  BY <1>7, <1>8, <1>9, <1>10, <1>11, <1>12, <1>13 DEF Next, Host, Device

\* The kernel has run for the indices of the items that are not left, in whatever
\* order the device takes them.
THEOREM ItemsInvariance == Spec => [](LaunchInv /\ ItemsInv)
<1>1. Init => ItemsInv
  BY DEF Init, ItemsInv, Started, NoLaunch, Ids
<1>2. LaunchInv /\ ItemsInv /\ LaunchInv' /\ [Next]_vars => ItemsInv'
  BY ItemsStep
<1> QED
  BY <1>1, <1>2, Invariance, PTL DEF Spec

----------------------------------------------------------------------------
(* What was asked for *)

\* The calls for which the index space of a launch is the one asked for: no extent
\* after the first is 0 where Range's constructor sees it, and a parfor's loops
\* start at 0.  (What runs otherwise: RunsWhatWasAsked.)
AskedExactly ==
  \A c \in Calls :
    /\ c.caller = "parfor" => \A d \in DOMAIN c.loops : c.loops[d].start = 0
    /\ c.caller # "parfor" /\ c.made # "jit" => \A d \in DOMAIN c.dims : d # 1 => c.dims[d] # 0

LEMMA Asked ==
  ASSUME AskedExactly, call \in Calls, call.caller = "parfor" => Len(call.loops) <= 3
  PROVE  AskedSpace = Points(Global)
<1>1. CASE call.caller = "parfor"
  <2> DEFINE D == DOMAIN call.loops
             T == {0} \cup {call.loops[d].stop : d \in D}
  <2>1. /\ Global = [d \in D |-> call.loops[d].stop]
        /\ \A d \in D : call.loops[d].start = 0
    BY <1>1 DEF Global, AskedExactly
  <2>2. Global \in Seq(Nat) /\ Global # <<>> /\ DOMAIN Global = D
    BY <1>1, <2>1, GlobalType
  <2>3. \A d \in D : Global[d] \in Nat /\ Global[d] = call.loops[d].stop
    BY <2>1, <2>2, Elements
  <2>4. Max(T) \in Nat /\ \A d \in D : call.loops[d].stop <= Max(T)
    <3>1. PICK m \in Nat : \A d \in 1 .. Len(Global) : Global[d] <= m
      BY <2>2, Elements, Bounded
    <3>2. \A y \in T : y \in Nat /\ y <= m
      <4>1. D = 1 .. Len(Global)
        BY <2>2, Elements
      <4>2. \A d \in D : call.loops[d].stop \in Nat /\ call.loops[d].stop <= m
        BY <2>3, <3>1, <4>1
      <4> QED
        BY <4>2
    <3>3. T \subseteq Nat /\ T # {} /\ \A d \in D : call.loops[d].stop \in T
      BY <3>2
    <3> HIDE DEF T
    <3>4. Max(T) \in T /\ \A y \in T : y <= Max(T)
      BY <3>2, <3>3, MaxIs
    <3> QED
      BY <3>3, <3>4
  <2>5. AskedSpace = {p \in [D -> 0 .. Max(T)] : \A d \in D :
                        call.loops[d].start <= p[d] /\ p[d] < call.loops[d].stop}
    BY <1>1 DEF AskedSpace
  <2>6. Points(Global) = {p \in [D -> Nat] : \A d \in D : p[d] < Global[d]}
    BY <2>2, PointsAre
  <2> HIDE DEF T, D
  <2>7. ASSUME NEW p \in AskedSpace PROVE p \in Points(Global)
    <3>1. p \in [D -> 0 .. Max(T)] /\ \A d \in D : p[d] < call.loops[d].stop
      BY <2>5, <2>7
    <3>2. p \in [D -> Nat]
      BY <2>4, <3>1
    <3> QED
      BY <2>3, <2>6, <3>1, <3>2
  <2>8. ASSUME NEW p \in Points(Global) PROVE p \in AskedSpace
    <3>1. p \in [D -> Nat] /\ \A d \in D : p[d] \in Nat /\ p[d] < call.loops[d].stop
      BY <2>3, <2>6, <2>8
    <3>2. \A d \in D : call.loops[d].stop \in Nat
      BY <2>3
    <3>3. \A d \in D : p[d] \in 0 .. Max(T) /\ call.loops[d].start <= p[d]
      BY <2>1, <2>4, <3>1, <3>2 DEF D
    <3>4. p \in [D -> 0 .. Max(T)]
      BY <3>1, <3>3
    <3> QED
      BY <2>5, <3>1, <3>3, <3>4
  <2> QED
    BY <2>7, <2>8
<1>2. CASE call.caller # "parfor"
  <2>1. call.dims \in Seq(Nat) /\ Len(call.dims) \in 1 .. 3
    BY <1>2, CallAssumption
  <2>2. call.made = "jit" \/ \A d \in DOMAIN call.dims : d # 1 => call.dims[d] # 0
    BY <1>2 DEF AskedExactly
  <2>3. Made(call.dims) = call.dims
    BY <2>1, <2>2, MadeType
  <2> QED
    BY <1>2, <2>3 DEF Global, AskedSpace
<1> QED
  BY <1>1, <1>2

\* Once a launch is beyond its typing, the space is the one asked for.
LEMMA AskedOnce ==
  ASSUME AskedExactly, LaunchInv, phase \in {"wait", "returned", "loop"}
  PROVE  AskedSpace = Points(Global)
<1>1. call \in Calls /\ (call.caller = "parfor" => Len(call.loops) <= 3)
  BY DEF LaunchInv, ControlInv, SpaceInv
<1> QED
  BY <1>1, Asked

\* A kernel runs for nothing but the indices asked for, in such calls
\* (ranges.py 57-70, parfor_lowerer.py).
THEOREM AskedCorrect == ASSUME AskedExactly PROVE Spec => []RunsWhatWasAsked
<1>1. LaunchInv /\ ItemsInv => RunsWhatWasAsked
  <2> SUFFICES ASSUME LaunchInv, ItemsInv PROVE Ids \subseteq AskedSpace
    BY DEF RunsWhatWasAsked
  <2>1. phase \in {"wait", "returned", "loop"} \/ ran = {}
    BY DEF LaunchInv, ControlInv, ProgressInv
  <2>2. CASE ran = {}
    BY <2>2 DEF Ids
  <2>3. CASE phase \in {"wait", "returned", "loop"}
    BY <2>3, AskedOnce DEF ItemsInv
  <2> QED
    BY <2>1, <2>2, <2>3
<1> QED
  BY <1>1, ItemsInvariance, PTL

----------------------------------------------------------------------------
(* Every launch is refused or runs once *)

\* The state of LaunchOnce in terms of the state of a launch.
Status == CASE phase = "returned" -> "returned"
            [] phase \in Errors -> "refused"
            [] OTHER -> "open"

LEMMA StatusIs ==
  /\ phase = "returned" => Status = "returned"
  /\ phase \in Errors => Status = "refused"
  /\ phase \notin Errors \cup {"returned"} => Status = "open"
<1>1. "returned" \notin Errors
  BY DEF Errors
<1> QED
  BY <1>1 DEF Status

LEMMA StatusNext ==
  /\ phase' = "returned" => Status' = "returned"
  /\ phase' \in Errors => Status' = "refused"
  /\ phase' \notin Errors \cup {"returned"} => Status' = "open"
<1>1. "returned" \notin Errors
  BY DEF Errors
<1> QED
  BY <1>1 DEF Status

\* The steps of LaunchOnce, in those terms.
LEMMA OnceSteps ==
  ASSUME call' = call
  PROVE  /\ Status = "open" /\ Ids = {} /\ Status' = "refused" /\ UNCHANGED <<Ids, runs>>
              => Once!Next
         /\ Status = "open" /\ (call.sync => Ids = AskedSpace) /\ Status' = "returned"
              /\ UNCHANGED <<Ids, runs>> => Once!Next
         /\ \A x : /\ Status # "refused" /\ Status' = Status /\ x \in AskedSpace \ Ids
                   /\ Ids' = Ids \cup {x} /\ runs' = runs + 1
                   => Once!Next
         /\ UNCHANGED <<Status, Ids, runs>> => UNCHANGED Once!vars
<1>1. AskedSpace' = AskedSpace /\ (call.sync)' = call.sync
  BY Frozen
<1> QED
  BY <1>1 DEF Once!Next, Once!Refuse, Once!Return, Once!Run, Once!vars, Status

\* Every step of a launch is one of LaunchOnce, or none.
LEMMA OnceStep ==
  ASSUME AskedExactly, LaunchInv, ItemsInv, [Next]_vars
  PROVE  [Once!Next]_(Once!vars)
<1>1. call' = call
  BY SameCall
<1>2. ASSUME UNCHANGED <<phase, ran, runs>> PROVE UNCHANGED Once!vars
  <2>1. UNCHANGED <<Status, Ids, runs>>
    BY <1>2 DEF Status, Ids, LoopVariables
  <2> QED
    BY <1>1, <2>1, OnceSteps
<1>3. ASSUME phase \notin Errors \cup {"returned"}, phase' \notin Errors \cup {"returned"},
             UNCHANGED <<ran, runs>>
      PROVE  UNCHANGED Once!vars
  <2>1. UNCHANGED <<Status, Ids, runs>>
    BY <1>3, StatusIs, StatusNext DEF Ids, LoopVariables
  <2> QED
    BY <1>1, <2>1, OnceSteps
<1>4. ASSUME phase \notin Errors \cup {"returned"}, ran = {}, phase' \in Errors,
             UNCHANGED <<ran, runs>>
      PROVE  Once!Next
  <2>1. Status = "open" /\ Status' = "refused"
    BY <1>4, StatusIs, StatusNext
  <2>2. Ids = {} /\ UNCHANGED <<Ids, runs>>
    BY <1>4 DEF Ids, LoopVariables
  <2> QED
    BY <1>1, <2>1, <2>2, OnceSteps
<1>5. ASSUME phase \notin Errors \cup {"returned"}, call.sync => Ids = AskedSpace,
             phase' = "returned", UNCHANGED <<ran, runs>>
      PROVE  Once!Next
  <2>1. Status = "open" /\ Status' = "returned"
    BY <1>5, StatusIs, StatusNext
  <2>2. UNCHANGED <<Ids, runs>>
    BY <1>5 DEF Ids, LoopVariables
  <2> QED
    BY <1>1, <1>5, <2>1, <2>2, OnceSteps
<1>6. ASSUME phase \in {"wait", "returned", "loop"}, phase' = phase, runs' = runs + 1,
             NEW x, x \in Points(Global) \ Ids, Ids' = Ids \cup {x}
      PROVE  Once!Next
  <2>1. Status # "refused" /\ Status' = Status
    <3>1. phase \notin Errors
      BY <1>6 DEF Errors
    <3> QED
      BY <1>6, <3>1, StatusIs DEF Status
  <2>2. x \in AskedSpace \ Ids
    BY <1>6, AskedOnce
  <2> QED
    BY <1>1, <1>6, <2>1, <2>2, OnceSteps
<1>7. ASSUME Started, left = {} PROVE Ids = AskedSpace
  <2>1. phase \in {"loop", "wait", "returned"}
    BY <1>7 DEF LaunchInv, ProgressInv, Started
  <2>2. AskedSpace = Points(Global)
    BY <2>1, AskedOnce
  <2> QED
    BY <1>7, <2>2 DEF ItemsInv, Indices
<1>8. ASSUME Construct \/ TypeKernel \/ TypeParfor \/ LowerLaunch
      PROVE  [Once!Next]_(Once!vars)
  <2>1. /\ phase \in Fresh /\ UNCHANGED <<ran, runs>>
        /\ phase' \in Errors \cup {"mock", "type", "lower", "submit"}
    BY <1>8, SpaceErrors
    DEF Construct, TypeKernel, TypeParfor, LowerLaunch, Unsubmitted, Raise, Goto, Fresh, Errors
  <2>2. phase \notin Errors \cup {"returned"} /\ ran = {}
    BY <2>1 DEF LaunchInv, ProgressInv, Fresh, Errors
  <2>3. phase' # "returned"
    BY <2>1 DEF Errors
  <2> QED
    BY <1>3, <1>4, <2>1, <2>2, <2>3
<1>9. ASSUME Submit PROVE [Once!Next]_(Once!vars)
  <2>1. /\ phase = "submit" /\ UNCHANGED <<ran, runs>>
        /\ \/ phase' = "wait"
           \/ phase' = "returned" /\ ~call.sync
    BY <1>9 DEF Submit, Goto, NextPhase
  <2>2. "submit" \notin Errors /\ "wait" \notin Errors
    BY DEF Errors
  <2> QED
    BY <1>3, <1>5, <2>1, <2>2
<1>10. ASSUME Wait PROVE [Once!Next]_(Once!vars)
  <2>1. phase = "wait" /\ event = "complete" /\ phase' = "returned" /\ UNCHANGED <<ran, runs>>
    BY <1>10 DEF Wait, Goto
  <2>2. Started /\ left = {}
    BY <2>1 DEF LaunchInv, ProgressInv, Started
  <2>3. "wait" \notin Errors
    BY DEF Errors
  <2> QED
    BY <1>5, <1>7, <2>1, <2>2, <2>3
<1>11. ASSUME StartMock PROVE [Once!Next]_(Once!vars)
  <2>1. /\ phase = "mock" /\ UNCHANGED <<ran, runs>>
        /\ phase' \in {"TypeError", "loop"}
    BY <1>11 DEF StartMock, Raise, Goto
  <2>2. ran = {}
    BY <2>1 DEF LaunchInv, ProgressInv, Fresh
  <2>3. "mock" \notin Errors /\ "loop" \notin Errors /\ "TypeError" \in Errors
    BY DEF Errors
  <2> QED
    BY <1>3, <1>4, <2>1, <2>2, <2>3
<1>12. ASSUME MockRound PROVE [Once!Next]_(Once!vars)
  <2>1. CASE phase' = "ValueError"
    <3>1. phase = "loop" /\ call.extra # 1 /\ UNCHANGED <<ran, runs>>
      BY <1>12, <2>1 DEF MockRound, Raise
    <3>2. ran = {}
      BY <3>1 DEF LaunchInv, ProgressInv
    <3>3. "loop" \notin Errors /\ "ValueError" \in Errors
      BY DEF Errors
    <3> QED
      BY <1>4, <2>1, <3>1, <3>2, <3>3
  <2>2. CASE phase' # "ValueError"
    <3>1. phase = "loop" /\ phase' = phase /\ runs' = runs + 1
      BY <1>1, <1>12, <2>2, SimulatorRuns
    <3>2. \E x : x \in Points(Global) \ Ids /\ Ids' = Ids \cup {x}
      BY <1>1, <1>12, <2>2, SimulatorRuns
    <3> QED
      BY <1>6, <3>1, <3>2
  <2> QED
    BY <2>1, <2>2
<1>13. ASSUME EndMock PROVE [Once!Next]_(Once!vars)
  <2>1. phase = "loop" /\ left = {} /\ phase' = "returned" /\ UNCHANGED <<ran, runs>>
    BY <1>13 DEF EndMock, Goto, Unsubmitted
  <2>2. "loop" \notin Errors
    BY DEF Errors
  <2> QED
    BY <1>5, <1>7, <2>1, <2>2 DEF Started
<1>14. ASSUME NEW i \in left, RunItem(i) PROVE [Once!Next]_(Once!vars)
  BY <1>1, <1>6, <1>14, DeviceRuns
<1>15. ASSUME FinishKernel \/ Environment \/ UNCHANGED vars PROVE [Once!Next]_(Once!vars)
  <2>1. UNCHANGED <<phase, ran, runs>>
    BY <1>15 DEF FinishKernel, Environment, CompleteEvent, vars
  <2> QED
    BY <1>2, <2>1
<1> QED
  BY <1>8, <1>9, <1>10, <1>11, <1>12, <1>13, <1>14, <1>15 DEF Next, Host, Device

\* Whoever makes a launch of what was asked exactly, it is refused before any of it
\* runs, or runs the kernel once for every index asked for, and a synchronous call
\* returns after it (kernel_launcher.py, launcher.py): the safety of LaunchOnce.
THEOREM LaunchesOnce ==
  ASSUME AskedExactly PROVE Spec => Once!Init /\ [][Once!Next]_(Once!vars)
<1>1. Init => Once!Init
  <2> SUFFICES ASSUME Init PROVE Once!Init
    OBVIOUS
  <2>1. phase \in {"type", "construct"} /\ ran = {} /\ runs = 0
    BY DEF Init
  <2>2. Status = "open"
    BY <2>1, StatusIs DEF Errors
  <2> QED
    BY <2>1, <2>2 DEF Once!Init, Status, Ids
<1>2. LaunchInv /\ ItemsInv /\ [Next]_vars => [Once!Next]_(Once!vars)
  BY OnceStep
<1> QED
  BY <1>1, <1>2, ItemsInvariance, PTL DEF Spec

----------------------------------------------------------------------------
(* How often the kernel runs *)

\* There are finitely many functions between finite intervals.
LEMMA FiniteFunctions ==
  ASSUME NEW n \in Nat, NEW m \in Nat
  PROVE  IsFiniteSet([1 .. n -> 0 .. m])
<1> DEFINE F == [1 .. n -> 0 .. m]
           G == SUBSET ((1 .. n) \X (0 .. m))
           graph == [f \in F |-> {<<d, f[d]>> : d \in 1 .. n}]
<1>1. IsFiniteSet(1 .. n) /\ IsFiniteSet(0 .. m)
  BY FS_Interval
<1>2. IsFiniteSet((1 .. n) \X (0 .. m))
  BY <1>1, FS_Product
<1>3. IsFiniteSet(G)
  BY <1>2, FS_SUBSET
<1>4. graph \in [F -> G]
  OBVIOUS
<1>5. ASSUME NEW f \in F, NEW g \in F, graph[f] = graph[g] PROVE f = g
  <2>1. \A d \in 1 .. n : <<d, f[d]>> \in graph[g]
    BY <1>5
  <2>2. \A d \in 1 .. n : f[d] = g[d]
    BY <2>1
  <2> QED
    BY <2>2
<1> HIDE DEF F, G, graph
<1>6. graph \in Injection(F, G)
  BY <1>4, <1>5 DEF Injection, IsInjective
<1>7. IsFiniteSet(F)
  BY <1>3, <1>6, FS_Injection
<1> QED
  BY <1>7 DEF F

LEMMA FinitePoints ==
  ASSUME NEW r \in Seq(Nat), r # <<>>
  PROVE  IsFiniteSet(Points(r))
<1> DEFINE m == Max(ToSet(r))
           n == Len(r)
<1>1. m \in Nat /\ n \in Nat /\ DOMAIN r = 1 .. n
  BY MaxBound, Elements
<1>2. Points(r) \subseteq [1 .. n -> 0 .. m]
  BY <1>1 DEF Points
<1> HIDE DEF m, n
<1>3. IsFiniteSet([1 .. n -> 0 .. m])
  BY <1>1, FiniteFunctions
<1> QED
  BY <1>2, <1>3, FS_Subset

\* As many items as indices.
LEMMA AsManyItems ==
  ASSUME LaunchInv, phase \in {"submit", "mock"}
  PROVE  IsFiniteSet(Positions) /\ Cardinality(Positions) = Cardinality(Points(Global))
<1>1. phase \notin Errors \cup {"construct", "type"}
  BY DEF Errors
<1>2. /\ Index \in [Positions -> Points(Global)]
      /\ \A i, j \in Positions : Index[i] = Index[j] => i = j
      /\ \A x \in Points(Global) : \E i \in Positions : Index[i] = x
  BY <1>1, IndexBijective
<1>3. Index \in Injection(Positions, Points(Global))
  BY <1>2 DEF Injection, IsInjective
<1>4. Index \in Surjection(Positions, Points(Global))
  BY <1>2 DEF Surjection
<1>5. call \in Calls /\ (call.caller = "parfor" => Len(call.loops) <= 3)
  BY DEF LaunchInv, ControlInv, SpaceInv
<1>6. IsFiniteSet(Points(Global))
  BY <1>5, GlobalType, FinitePoints
<1> QED
  BY <1>3, <1>4, <1>6, FS_Injection

\* What was run and what is left are as many as the indices.
CountInv ==
  /\ runs \in Nat /\ IsFiniteSet(left)
  /\ runs + Cardinality(left) \in {0, Cardinality(Points(Global))}

LEMMA CountStep == LaunchInv /\ CountInv /\ [Next]_vars => CountInv'
<1> SUFFICES ASSUME LaunchInv, CountInv, [Next]_vars PROVE CountInv'
  OBVIOUS
<1>1. call' = call
  BY SameCall
<1>2. Positions' = Positions /\ Points(Global)' = Points(Global)
  BY <1>1, ItemsFrozen
<1>3. Cardinality(left)' = Cardinality(left') /\ (IsFiniteSet(left)' <=> IsFiniteSet(left'))
  OBVIOUS
<1>4. ASSUME UNCHANGED <<left, runs>> PROVE CountInv'
  BY <1>2, <1>4 DEF CountInv
<1>5. ASSUME phase \in {"submit", "mock"}, left' = Positions, runs' = runs PROVE CountInv'
  <2>1. runs = 0
    BY <1>5 DEF LaunchInv, ProgressInv, Fresh
  <2>2. IsFiniteSet(left') /\ Cardinality(left') = Cardinality(Points(Global))
    BY <1>5, AsManyItems
  <2>3. Cardinality(left') \in Nat
    BY <2>2, FS_CardinalityType
  <2>4. runs' = 0 /\ runs' + Cardinality(left') = Cardinality(Points(Global))
    BY <1>5, <2>1, <2>2, <2>3
  <2> QED
    BY <1>2, <2>2, <2>4 DEF CountInv
<1>6. ASSUME NEW i \in left, left' = left \ {i}, runs' = runs + 1 PROVE CountInv'
  <2>1. IsFiniteSet(left') /\ Cardinality(left') = Cardinality(left) - 1
    BY <1>6, FS_RemoveElement DEF CountInv
  <2>2. Cardinality(left) \in Nat /\ runs \in Nat
    BY FS_CardinalityType DEF CountInv
  <2>3. runs' \in Nat /\ runs' + Cardinality(left') = runs + Cardinality(left)
    BY <1>6, <2>1, <2>2
  <2> QED
    BY <1>2, <2>1, <2>3 DEF CountInv
<1>7. ASSUME Submit PROVE CountInv'
  <2>1. /\ phase = "submit" /\ runs' = runs
        /\ left' = Points(NativeRange(IRArguments.global))
    BY <1>7 DEF Submit
  <2>2. /\ call \in Calls /\ call.caller # "python"
        /\ call.caller = "parfor" => Len(call.loops) <= 3
    BY <2>1 DEF LaunchInv, ControlInv, SpaceInv
  <2>3. NativeRange(IRArguments.global) = Global
    BY <2>2, GlobalType, DeviceRange
  <2>4. left' = Positions
    BY <2>1, <2>2, <2>3 DEF Positions, SplitLoops
  <2> QED
    BY <1>5, <2>1, <2>4
<1>8. ASSUME StartMock PROVE CountInv'
  <2>1. /\ phase = "mock" /\ runs' = runs
        /\ \/ left' = left
           \/ left' = Points(IF call.kind = "Range" THEN Global ELSE GroupRange \o Local)
    BY <1>8 DEF StartMock
  <2>2. CASE left' = left
    BY <1>4, <2>1, <2>2
  <2>3. CASE left' = Points(IF call.kind = "Range" THEN Global ELSE GroupRange \o Local)
    <3>1. call \in Calls /\ call.caller = "python"
      BY <2>1 DEF LaunchInv, ControlInv
    <3>2. left' = Positions
      BY <2>3, <3>1, CallAssumption DEF Positions, SplitLoops, MockPoints
    <3> QED
      BY <1>5, <2>1, <3>2
  <2> QED
    BY <2>1, <2>2, <2>3
<1>9. ASSUME MockRound PROVE CountInv'
  BY <1>4, <1>6, <1>9 DEF MockRound
<1>10. ASSUME NEW i \in left, RunItem(i) PROVE CountInv'
  BY <1>6, <1>10 DEF RunItem
<1>11. ASSUME Construct \/ TypeKernel \/ TypeParfor \/ LowerLaunch \/ Wait \/ EndMock
       PROVE  CountInv'
  BY <1>4, <1>11
  DEF Construct, TypeKernel, TypeParfor, LowerLaunch, Wait, EndMock, Unsubmitted
<1>12. ASSUME FinishKernel \/ Environment \/ UNCHANGED vars PROVE CountInv'
  BY <1>4, <1>12 DEF FinishKernel, Environment, CompleteEvent, vars
<1> QED
  BY <1>7, <1>8, <1>9, <1>10, <1>11, <1>12 DEF Next, Host, Device

\* A launch is in one of its states, and the kernel has run as often as there are
\* indices that have none left.
THEOREM TypeCorrect == Spec => []TypeOK
<1>1. Init => CountInv
  BY FS_EmptySet DEF Init, CountInv
<1>2. LaunchInv /\ CountInv /\ [Next]_vars => CountInv'
  BY CountStep
<1>3. LaunchInv /\ CountInv => TypeOK
  <2> SUFFICES ASSUME LaunchInv, CountInv PROVE TypeOK
    OBVIOUS
  <2>1. phase \in Errors \cup {"construct", "type", "lower", "submit", "wait", "returned",
                              "mock", "loop"}
    BY DEF LaunchInv, ControlInv, Fresh
  <2>2. runs + Cardinality(left) \in {0, Cardinality(Points(Global))}
    BY DEF CountInv
  <2>3. /\ event \in {"none", "submitted", "complete", "deleted"}
        /\ event = "none" <=> native = NoLaunch
    BY DEF LaunchInv, ProgressInv
  <2>4. call \in Calls /\ complete \subseteq call.deps
    BY DEF LaunchInv, ControlInv
  <2> QED
    BY <2>1, <2>2, <2>3, <2>4 DEF TypeOK
<1> QED
  BY <1>1, <1>2, <1>3, Invariance, PTL DEF Spec
=============================================================================
