--------------------------- MODULE MCKernelLaunch ---------------------------
(***************************************************************************)
(* The calls that KernelLaunch is checked for.  "gpu" is the queue that    *)
(* the type of a local accessor takes, the cached queue of the default     *)
(* device.                                                                 *)
(***************************************************************************)
EXTENDS KernelLaunch

\* The n-th array of a program, contiguous with items of 4 bytes.
Array(n, shape, queue) ==
  [ty |-> [cls |-> "array", ndim |-> Len(shape), itemsize |-> 4, queue |-> queue],
   val |-> [meminfo |-> 100 + n, parent |-> 200 + n, data |-> 300 + n,
            nitems |-> Product(shape), itemsize |-> 4, sycl_queue |-> queue,
            shape |-> shape,
            strides |-> [d \in DOMAIN shape |->
                           4 * Product(SubSeq(shape, d + 1, Len(shape)))]]]
Slm(shape, dtype, itemsize) ==
  [ty |-> [cls |-> "local", ndim |-> Len(shape), itemsize |-> itemsize, dtype |-> dtype,
           queue |-> "gpu"], val |-> shape]
Scalar(cls, val) == [ty |-> [cls |-> cls, ndim |-> 0], val |-> val]

A == Array(1, <<5>>, "gpu")
B == Array(2, <<2, 3>>, "gpu")
C == Array(3, <<5>>, "cpu")
S == Slm(<<2>>, "float32", 4)

MixedArgs ==
  {<<A>>, <<Scalar("complex64", 7), B, Scalar("int64", 8), A>>,
   <<Scalar("complex128", 7), Scalar("bool", 1), C>>,
   <<S, A>>, <<Slm(<<2, 3>>, "int64", 8), Scalar("float32", 9), B>>,
   <<A, C>>, <<S, C>>, <<S>>, <<Scalar("int64", 1)>>,
   <<A, Scalar("numpy", 0)>>, <<A, Scalar("int16", 1)>>, <<A, Slm(<<2>>, "int16", 2)>>,
   <<A, Slm(<<0>>, "float32", 4)>>, <<A, Slm(<<2>>, "bool", 1)>>}

Call(caller, kind, dims, local, loops, args, extra, sync, deps) ==
  [caller |-> caller, kind |-> kind, made |-> "python", dims |-> dims, local |-> local, loops |-> loops,
   args |-> args, extra |-> extra, sync |-> sync, deps |-> deps]
RangeCall(caller, dims, args, extra, sync, deps) ==
  Call(caller, "Range", dims, <<>>, <<>>, args, extra, sync, deps)
NdRangeCall(caller, dims, local, args, extra, sync, deps) ==
  Call(caller, "NdRange", dims, local, <<>>, args, extra, sync, deps)
Parfor(loops, args) == Call("parfor", "Range", <<>>, <<>>, loops, args, 1, TRUE, {})
Loop(start, stop, step) == [start |-> start, stop |-> stop, step |-> step]

At(place, calls) == {[c EXCEPT !.made = place] : c \in calls}

\* Every index space with one argument list, and every argument list with one
\* index space of each kind.
Spaces == {<<3>>, <<0>>, <<2, 3>>, <<0, 2>>, <<2, 1, 3>>}
NdSpaces == {<<<<4>>, <<2>>>>, <<<<2, 4>>, <<1, 2>>>>, <<<<1, 2, 4>>, <<1, 1, 2>>>>,
             <<<<4>>, <<3>>>>, <<<<4, 2>>, <<2>>>>, <<<<4>>, <<0>>>>, <<<<0>>, <<2>>>>}
Ranges == {RangeCall(c, d, <<A>>, 1, TRUE, {}) : c \in {"jit", "python"}, d \in Spaces}
NdRanges ==
  {NdRangeCall(c, s[1], s[2], <<S, A>>, 1, TRUE, {}) :
     c \in {"jit", "python"}, s \in NdSpaces}

\* Index spaces made in a dpjit function, and those it returns.
Empty == {<<2, 0>>, <<2, 3, 0>>}
JitMade ==
  At("jit", {RangeCall("jit", d, <<A>>, 1, TRUE, {}) : d \in Spaces \cup Empty}
              \cup {NdRangeCall("jit", s[1], s[2], <<S, A>>, 1, TRUE, {}) :
                     s \in {n \in NdSpaces : NdRangeError(n[1], n[2]) \in
                             {"none", "UnmatchedNumberOfRangeDimsError"}}})
Returned ==
  At("returned", {c \in Ranges \cup NdRanges : c.caller = "jit"})

Arguments ==
  {NdRangeCall(c, <<2>>, <<1>>, as, 1, TRUE, {}) : c \in {"jit", "python"}, as \in MixedArgs}
    \cup {RangeCall(c, <<2>>, as, 1, TRUE, {}) : c \in {"jit", "python"}, as \in MixedArgs}
Asynchronous ==
  {RangeCall(c, <<2, 2>>, <<A>>, extra, sync, deps) :
     c \in {"jit"}, extra \in 0 .. 2, sync \in BOOLEAN, deps \in SUBSET {"e1", "e2"}}
Arities == {RangeCall("python", <<2>>, <<A>>, extra, TRUE, {}) : extra \in 0 .. 2}
Parfors ==
  {Parfor(loops, as) :
     loops \in {<<Loop(0, 3, 1)>>, <<Loop(0, 3, 2)>>, <<Loop(0, 2, 1), Loop(0, 3, 1)>>,
                <<Loop(0, 2, 1), Loop(0, 1, 1), Loop(0, 2, 1)>>,
                [d \in 1 .. 4 |-> Loop(0, 2, 1)]},
     as \in {<<A, Scalar("float64", 3), B>>, <<C>>, <<A, C>>}}

MCCalls == Ranges \cup NdRanges \cup Arguments \cup Asynchronous \cup Arities \cup Parfors
              \cup JitMade \cup Returned

\* Index spaces with nothing in a later dimension, loops that start late.
AskedCalls ==
  LET empty == {RangeCall("jit", d, <<A>>, 1, TRUE, {}) : d \in Empty}
  IN  empty \cup At("jit", empty) \cup At("returned", empty) \cup {Parfor(<<Loop(2, 4, 1)>>, <<A>>)}
=============================================================================
