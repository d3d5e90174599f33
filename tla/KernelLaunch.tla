---------------------------- MODULE KernelLaunch ----------------------------
(***************************************************************************)
(* One launch of a kernel, from its call to the end of its last work item: *)
(* by call_kernel and call_kernel_async (core/kernel_launcher.py), by the  *)
(* lowering of a parfor without reduction (core/parfors), or by the        *)
(* simulator that runs a kernel as plain Python (kernel_api/launcher.py).  *)
(* The first two type the kernel, lower the launch to code that packs its  *)
(* arguments and its index space for the queue                             *)
(* (core/utils/call_kernel_builder.py), and submit it; the device then     *)
(* runs the items in any order.                                            *)
(***************************************************************************)
EXTENDS IndexSpace, KernelArgs

CONSTANT
  Calls  \* [caller, kind, made, dims, local, loops, args, extra, sync, deps]:
         \* who calls (jit, parfor, python); Range or NdRange, where it is made
         \* (python, jit: in a dpjit function, returned: by one that returns it
         \* to Python) and the arguments it is made of; the loops [start, stop,
         \* step] of a parfor; the kernel's arguments; its parameters beyond
         \* these; does the call wait; the events the kernel depends on

\* What a caller may pass: a range has one to three extents, a loop nest at least
\* one loop.
ASSUME CallAssumption ==
  \A c \in Calls :
    /\ c.caller \in {"jit", "parfor", "python"} /\ c.kind \in {"Range", "NdRange"}
    /\ c.made \in {"python", "jit", "returned"}
    /\ DOMAIN c.args \subseteq Nat
    /\ c.extra \in Nat /\ c.sync \in BOOLEAN
    /\ IF c.caller = "parfor"
       THEN /\ c.kind = "Range" /\ c.sync /\ c.loops # <<>>
            /\ c.loops \in Seq([start : Nat, stop : Nat, step : Int])
       ELSE c.dims \in Seq(Nat) /\ Len(c.dims) \in 1 .. 3
    /\ c.kind = "NdRange" => c.local \in Seq(Nat) /\ Len(c.local) \in 1 .. 3

\* The type of an array names the queue of its memory: Numba types what Python
\* passes by the array itself (core/typing/typeof.py).  Where this fails for an
\* array that a dpjit function makes is the subject of ComputeFollowsData.
ASSUME TypeofAssumption ==
  \A c \in Calls : \A n \in DOMAIN c.args :
    IsArray(c.args[n].ty) => c.args[n].ty.queue = c.args[n].val.sycl_queue

\* A dpjit function makes no NdRange that Python's constructor would refuse for
\* its sizes: what SYCL does with one is not modelled.
ASSUME NdRangeAssumption ==
  \A c \in Calls :
    c.kind = "NdRange" /\ c.made = "jit" =>
      NdRangeError(c.dims, c.local) \in {"none", "UnmatchedNumberOfRangeDimsError"}

VARIABLES
  call,      \* the call
  phase,     \* what the calling thread does next, or the error it raised
  native,    \* what was submitted to the queue, or NoLaunch
  left,      \* the items that have not run
  ran,       \* what the items that have run were told of their index
  runs,      \* how often the kernel was executed
  event,     \* the kernel's event: none, submitted, complete, deleted
  complete   \* the dependency events that are complete

vars == <<call, phase, native, left, ran, runs, event, complete>>

Errors ==
  {"TypeError", "ValueError", "UnmatchedNumberOfRangeDimsError", "ZeroDivisionError",
   "UnsupportedGroupWorkItemSizeError", "TypingError", "ExecutionQueueInferenceError",
   "InvalidKernelSpecializationError", "UnsupportedParforError", "NotImplementedError",
   "UnboundLocalError"}

NoLaunch == [queue |-> "none"]
Types == [n \in DOMAIN call.args |-> call.args[n].ty]
Arrays == {n \in DOMAIN Types : IsArray(Types[n])}
HasLocalAccessor == \E n \in DOMAIN Types : IsLocal(Types[n])

\* The extents of Range(dims), where the call makes it.
Made(dims) ==
  CASE call.made = "python" -> MkRange(dims)
    [] call.made = "jit" -> dims
    [] call.made = "returned" -> BoxRange(RangeAlloc(dims))

\* The index space of a call, the extents of a parfor's range.
Global == IF call.caller = "parfor" THEN [d \in DOMAIN call.loops |-> call.loops[d].stop]
          ELSE Made(call.dims)
Local == Made(call.local)

Goto(p) == phase' = p
Raise(e) == phase' = e
Unsubmitted == UNCHANGED <<call, native, left, ran, runs, event, complete>>

----------------------------------------------------------------------------
(* Python objects *)

\* LocalAccessor(shape, dtype)
LocalDtypes ==
  {"float32", "float64"} \cup
  {"int8", "int16", "int32", "int64", "uint8", "uint16", "uint32", "uint64"}
LocalAccessorValid(arg) ==
  /\ \A d \in DOMAIN arg.val : arg.val[d] > 0
  /\ Len(arg.val) \in 1 .. 3
  /\ arg.ty.dtype \in LocalDtypes

\* NdRange(global_range, local_range)
SpaceError ==
  LET jitted == IF call.made = "python" THEN "none" ELSE JitNdRangeError(call.dims, call.local)
  IN  CASE call.kind = "Range" -> "none"
        [] call.kind = "NdRange" /\ jitted # "none" -> jitted
        [] OTHER -> IF call.made = "jit" THEN "none" ELSE NdRangeError(Global, Local)

\* The caller makes the arguments and the index space, and calls.
Construct ==
  /\ phase = "construct"
  /\ IF \E n \in DOMAIN call.args : IsLocal(Types[n]) /\ ~LocalAccessorValid(call.args[n])
     THEN Raise("TypeError")
     ELSE IF SpaceError # "none" THEN Raise(SpaceError)
     ELSE Goto(IF call.caller = "python" THEN "mock" ELSE "type")
  /\ Unsubmitted

----------------------------------------------------------------------------
(* Typing *)

\* check_sig_types: an array that is not in USM memory.
UnsupportedArgument == \E n \in DOMAIN Types : Types[n].cls = "numpy"

\* Faulty: the queues are not compared.
QueuesDifferUnchecked(tys) == FALSE

\* check_queue_equivalence_of_args: a local accessor counts, with the queue that
\* its type took for want of one.
QueuesDiffer(tys) ==
  LET usm == {n \in DOMAIN tys : IsUSMNdArray(tys[n])}
  IN  usm = {} \/ \E m, n \in usm : tys[m].queue # tys[n].queue

ItemTy == [cls |-> "item", ndim |-> Len(Global)]

\* _submit_kernel: the kernel is typed with an item first if it has a parameter
\* to spare.
KernelTypes ==
  IF call.caller = "parfor" \/ call.extra > 0 THEN <<ItemTy>> \o Types ELSE Types

TypeKernel ==
  /\ phase = "type" /\ call.caller = "jit"
  /\ IF HasLocalAccessor /\ call.kind = "Range" THEN Raise("TypeError")
     ELSE IF UnsupportedArgument THEN Raise("InvalidKernelSpecializationError")
     ELSE IF QueuesDiffer(Types) THEN Raise("ExecutionQueueInferenceError")
     ELSE IF call.extra > 1 THEN Raise("TypingError")
     ELSE Goto("lower")
  /\ Unsubmitted

\* create_kernel_for_parfor and _loop_ranges: an item has at most three
\* dimensions, and a loop unit stride.
TypeParfor ==
  /\ phase = "type" /\ call.caller = "parfor"
  /\ IF \/ Len(call.loops) > 3
        \/ QueuesDiffer(Types)
        \/ \E d \in DOMAIN call.loops : call.loops[d].step # 1
     THEN Raise("UnsupportedParforError")
     ELSE Goto("lower")
  /\ Unsubmitted

----------------------------------------------------------------------------
(* Lowering and submission *)

\* get_queue_from_llvm_values: the queue in the struct of the first array that is
\* not local memory.
FirstArray == CHOOSE n \in Arrays : \A m \in Arrays : n <= m

\* The codegen of _submit_kernel and of _submit_parfor_kernel, as far as it may
\* raise.
LowerLaunch ==
  /\ phase = "lower"
  /\ IF FlattenError(call.args) THEN Raise("NotImplementedError")
     ELSE IF Arrays = {} THEN Raise("UnboundLocalError")
     ELSE Goto("submit")
  /\ Unsubmitted

\* The struct of a range, as Python's object is unboxed or as it was made.
RangeStruct(r) == IF call.made = "jit" THEN RangeAlloc(r) ELSE UnboxRange(r)
SyclRange(r) == CreateSyclRange(Extents(RangeStruct(r), Len(r)))

\* The arguments of dpctl_queue_submit_range or dpctl_queue_submit_ndrange.
IRArguments ==
  [queue |-> call.args[FirstArray].val.sycl_queue,
   args |-> FlattenAll(call.args),
   total |-> NumFlattened(Types),
   global |-> SyclRange(Global),
   local |-> IF call.kind = "NdRange" THEN SyclRange(Local) ELSE <<>>,
   size |-> Len(Global),
   deps |-> call.deps]

\* Faulty: call_kernel does not wait for its kernel.
NextPhaseAsync == "returned"

\* A synchronous launch waits for its event.
NextPhase == IF call.sync THEN "wait" ELSE "returned"

\* The jitted code runs: submit, then wait or return the events.
Submit ==
  /\ phase = "submit"
  /\ native' = IRArguments
  /\ left' = Points(NativeRange(IRArguments.global))
  /\ event' = "submitted"
  /\ Goto(NextPhase)
  /\ UNCHANGED <<call, ran, runs, complete>>

\* dpctl_event_wait and dpctl_event_delete
Wait ==
  /\ phase = "wait" /\ event = "complete"
  /\ event' = "deleted"
  /\ Goto("returned")
  /\ UNCHANGED <<call, native, left, ran, runs, complete>>

----------------------------------------------------------------------------
(* The queue and the device *)

\* Another kernel or host task ends.
CompleteEvent(e) ==
  /\ e \in call.deps \ complete
  /\ complete' = complete \cup {e}
  /\ UNCHANGED <<call, phase, native, left, ran, runs, event>>

\* The groups of a Range kernel are the runtime's choice, and its items are not
\* told.
NativeLocal == IF native.local = <<>> THEN [d \in DOMAIN native.global |-> 1]
               ELSE NativeRange(native.local)

RunItem(i) ==
  /\ event = "submitted" /\ native.deps \subseteq complete
  /\ i \in left
  /\ left' = left \ {i}
  /\ ran' = ran \cup {ItemOnDevice(Builtins(NativeRange(native.global), NativeLocal, i),
                                   call.kind)}
  /\ runs' = runs + 1
  /\ UNCHANGED <<call, phase, native, event, complete>>

FinishKernel ==
  /\ event = "submitted" /\ native.deps \subseteq complete /\ left = {}
  /\ event' = "complete"
  /\ UNCHANGED <<call, phase, native, left, ran, runs, complete>>

----------------------------------------------------------------------------
(* The simulator *)

GroupRange == [d \in DOMAIN Global |-> Global[d] \div Local[d]]

\* _range_kernel_launcher and _ndrange_kernel_launcher up to their loops.
StartMock ==
  /\ phase = "mock"
  /\ IF call.kind = "Range" /\ HasLocalAccessor
     THEN Raise("TypeError") /\ UNCHANGED left
     ELSE /\ left' = Points(IF call.kind = "Range" THEN Global ELSE GroupRange \o Local)
          /\ Goto("loop")
  /\ UNCHANGED <<call, native, ran, runs, event, complete>>

\* What the item at position i of the nested loops is told.
MockItem(i) ==
  LET n == Len(Global)
  IN  Answers(IF call.kind = "Range" THEN MethodsOfItem(Global, i)
              ELSE MethodsOfNdItem(Global, Local, SubSeq(i, 1, n), SubSeq(i, n + 1, 2 * n)),
              call.kind)

\* One round of the loop: the kernel is called, if it has as many parameters as
\* it must.
MockRound ==
  /\ phase = "loop"
  /\ \E i \in left :
       /\ \A j \in left \ {i} : Before(i, j)
       /\ IF call.extra # 1
          THEN Raise("ValueError") /\ UNCHANGED <<left, ran, runs>>
          ELSE /\ left' = left \ {i}
               /\ ran' = ran \cup {MockItem(i)}
               /\ runs' = runs + 1
               /\ UNCHANGED phase
  /\ UNCHANGED <<call, native, event, complete>>

EndMock ==
  /\ phase = "loop" /\ left = {}
  /\ Goto("returned")
  /\ Unsubmitted

----------------------------------------------------------------------------
(* Specification *)

Init ==
  /\ call \in Calls
  /\ phase = IF call.caller = "parfor" THEN "type" ELSE "construct"
  /\ native = NoLaunch
  /\ left = {} /\ ran = {} /\ runs = 0
  /\ event = "none" /\ complete = {}

Host ==
  \/ Construct \/ TypeKernel \/ TypeParfor \/ LowerLaunch \/ Submit \/ Wait
  \/ StartMock \/ MockRound \/ EndMock

Device == FinishKernel \/ \E i \in left : RunItem(i)

Environment == \E e \in call.deps : CompleteEvent(e)

Done ==
  /\ phase \in Errors \cup {"returned"}
  /\ event \in {"none", "complete", "deleted"}
  /\ complete = call.deps

Next == Host \/ Device \/ Environment \/ (Done /\ UNCHANGED vars)

\* The calling thread goes on, the device runs what is submitted, and other
\* kernels end.
Fairness == WF_vars(Host) /\ WF_vars(Device) /\ WF_vars(Environment)

Spec == Init /\ [][Next]_vars /\ Fairness

----------------------------------------------------------------------------
(* Properties *)

\* The index a kernel runs for: what the item answers, from which the kernel of a
\* parfor takes its loop variables.
LoopVariables(methods) == [d \in DOMAIN methods.get_global_id |-> methods.get_global_id[d]]
Ids == {LoopVariables(v.methods) : v \in ran}

TypeOK ==
  /\ call \in Calls
  /\ phase \in Errors \cup {"construct", "type", "lower", "submit", "wait", "returned",
                            "mock", "loop"}
  /\ runs + Cardinality(left) \in {0, Cardinality(Points(Global))}
  /\ event \in {"none", "submitted", "complete", "deleted"}
  /\ event = "none" <=> native = NoLaunch
  /\ complete \subseteq call.deps

\* The index space a call asks for: the given extents, all of them, or the
\* iterations of the loops.  (One that is refused asks for none.)
AskedSpace ==
  IF call.caller = "parfor"
  THEN LET high == Max({0} \cup {call.loops[d].stop : d \in DOMAIN call.loops})
       IN  {p \in [DOMAIN call.loops -> 0 .. high] :
              \A d \in DOMAIN call.loops :
                call.loops[d].start <= p[d] /\ p[d] < call.loops[d].stop}
  ELSE Points(call.dims)

\* A kernel runs for nothing but the indices asked for.
RunsWhatWasAsked == Ids \subseteq AskedSpace

\* Whoever calls, the kernel runs once for every index of the space asked for,
\* or is refused as a whole; a synchronous call returns after it.
Once ==
  INSTANCE LaunchOnce WITH
    space <- AskedSpace, sync <- call.sync,
    status <- CASE phase = "returned" -> "returned"
                [] phase \in Errors -> "refused"
                [] OTHER -> "open",
    ran <- Ids
ImplementsLaunchOnce == Once!Spec

Rank(p, r) == Cardinality({q \in Points(r) : Before(q, p)})

\* An item is told the same on the device and in the simulator, and the truth:
\* the extents are those asked for, a global index is its group's and its local
\* index together, and a linear id is the number of the indices before it.
AnswersExact ==
  \A v \in ran :
    LET m == v.methods IN
    /\ m.get_global_range = Global
    /\ v.global_linear_id = Rank(m.get_global_id, Global)
    /\ v.global_linear_range = Cardinality(Points(Global))
    /\ call.kind = "NdRange" =>
         /\ m.get_local_range = Local
         /\ \A d \in DOMAIN Global :
              /\ m.get_group_range[d] * Local[d] = Global[d]
              /\ m.get_local_id[d] \in 0 .. Local[d] - 1
              /\ m.get_global_id[d] = m.get_group_id[d] * Local[d] + m.get_local_id[d]
         /\ v.local_linear_id = Rank(m.get_local_id, Local)
         /\ v.local_linear_range = Cardinality(Points(Local))
         /\ v.group_linear_id = Rank(m.get_group_id, m.get_group_range)
         /\ v.group_linear_range = Cardinality(Points(m.get_group_range))

\* The queue is told as many arguments as were written, they have the types of
\* the kernel's parameters, and every argument arrives as the value passed.
\* (Strides of local memory are not compared: see Meant.)
ArgumentsExact ==
  native # NoLaunch =>
    /\ native.total = Len(native.args)
    /\ [p \in DOMAIN native.args |-> native.args[p].code] = Parameters(KernelTypes)
    /\ \A n \in DOMAIN call.args :
         LET first == Len(Parameters(SubSeq(Types, 1, n - 1))) + 1
             got == Repack(Types[n], native.args, first)
             meant == Meant(call.args[n])
         IN  \A f \in DOMAIN meant : got[f] = meant[f]

\* A kernel runs on the queue on which all of its arrays were allocated.
QueueExact ==
  native # NoLaunch =>
    \A n \in Arrays : call.args[n].val.sycl_queue = native.queue
=============================================================================
