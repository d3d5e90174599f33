------------------------- MODULE MCKernelDispatcher -------------------------
(***************************************************************************)
(* The functions and threads that KernelDispatcher is checked for: a       *)
(* module is imported, then two threads launch its kernels.                *)
(***************************************************************************)
EXTENDS KernelDispatcher, TLC

Scalar(dtype) == [cls |-> "scalar", dtype |-> dtype, queue |-> "none"]
Array(dtype, queue) == [cls |-> "usm", dtype |-> dtype, queue |-> queue]
Numpy == [cls |-> "numpy", dtype |-> "i32", queue |-> "none"]
Disp(f) == [cls |-> "dispatcher", dtype |-> f, queue |-> "none"]
I32 == Scalar("i32")   I64 == Scalar("i64")   F32 == Scalar("f32")
A32 == Array("i32", "q1")   B32 == Array("i32", "q2")   AF == Array("f32", "q1")

\* Numba's conversions: a promotion costs 1, an unsafe conversion 100, and arrays
\* have none.
MCCost ==
  [c \in ({I32, I64, F32} \X {I32, I64, F32}) \ {<<x, x>> : x \in {I32, I64, F32}} |->
     IF c = <<I32, I64>> THEN 1 ELSE 100]

Call(f, args) == [fn |-> f, args |-> args]
Leaf(lists) == [a \in lists |-> <<>>]

\* inc1 and inc3 are closures of one function, kspec, fi32 and fi32i64 have
\* signatures; kret returns a value, kbad calls a function with no version for
\* its argument, kouter calls a kernel.
MCKind ==
  [f \in {"inc1", "inc3", "fi32", "fi32i64"} |-> "DEVICE_FUNC"]
    @@ [f \in {"k", "kspec", "ktwo", "kret", "kbad", "kouter"} |-> "KERNEL"]
    @@ [f \in {"call_kernel", "work"} |-> "HOST"]
MCFunctions == DOMAIN MCKind
MCModule == MCFunctions \ {"ktwo"}
MCQualName == [f \in MCFunctions |-> IF f \in {"inc1", "inc3"} THEN "inner" ELSE f]
MCSigs ==
  [f \in MCFunctions |->
     CASE f = "fi32" -> << <<I32>> >>
       [] f = "fi32i64" -> << <<I32>>, <<I64>> >>
       [] f = "kspec" -> << <<A32, A32>>, <<AF, AF>> >>
       [] f = "ktwo" -> << <<A32, A32>>, <<A32, B32>> >>
       [] OTHER -> <<>>]

KernelBody ==
  "k" :> (<<A32, A32>> :> <<Call("inc1", <<I32>>), Call("fi32", <<I32>>), Call("inc3", <<I32>>)>>
          @@ <<AF, AF>> :> <<Call("fi32", <<F32>>), Call("fi32i64", <<F32>>)>>
          @@ <<A32, B32>> :> <<>> @@ <<A32, Numpy>> :> <<>> @@ <<I32>> :> <<>>)
    @@ "kspec" :> (<<A32, A32>> :> <<Call("fi32i64", <<I64>>)>> @@ <<AF, AF>> :> <<>>)
    @@ "ktwo" :> Leaf({<<A32, A32>>, <<A32, B32>>})
    @@ "kret" :> (<<A32>> :> <<Call("inc1", <<I32>>)>>)
    @@ "kbad" :> (<<A32>> :> <<Call("inc3", <<I32>>), Call("inc1", <<F32>>)>>
                 )
    @@ "kouter" :> (<<A32>> :> <<Call("k", <<A32, A32>>)>> @@ <<B32>> :> <<Call("kret", <<A32>>)>>)
MCBody ==
  [f \in {"inc1", "inc3"} |-> Leaf({<<I32>>})]
    @@ "fi32" :> Leaf({<<I32>>}) @@ "fi32i64" :> Leaf({<<I32>>, <<I64>>})
    @@ KernelBody
    @@ "call_kernel" :>
         [a \in {<<Disp(k)>> \o as : k \in DOMAIN KernelBody \ {"ktwo"},
                 as \in {<<A32>>, <<B32>>, <<I32>>, <<I32, I32>>, <<A32, A32>>}} |->
            <<Call(a[1].dtype, Tail(a))>>]
    @@ "work" :> (<<A32>> :> <<Call("call_kernel", <<Disp("kouter"), A32>>),
                               Call("call_kernel", <<Disp("kspec"), A32, A32>>)>>)
MCReturns == {"inc1", "inc3", "fi32", "fi32i64", "kret"}

Decorate(f) == [op |-> "decorate", fn |-> f, args |-> <<>>]
Ask(f, args) == [op |-> "call", fn |-> f, args |-> args]
Launch(k, args) == Ask("call_kernel", <<Disp(k)>> \o args)

\* The main thread imports the module, then two threads call: both compile k and
\* kret, and what k calls.
MCProgram ==
  "main" :> <<Decorate("inc1"), Decorate("inc3"), Decorate("fi32"), Decorate("fi32i64"),
              Decorate("k"), Decorate("kret"), Decorate("kbad"), Decorate("kouter"),
              Decorate("kspec"), Decorate("ktwo"), Decorate("work"), Decorate("call_kernel")>>
    @@ "t1" :> <<Ask("work", <<A32>>), Launch("kret", <<A32>>), Ask("k", <<A32, Numpy>>),
                 Launch("kbad", <<A32>>), Launch("kouter", <<B32>>)>>
    @@ "t2" :> <<Launch("k", <<A32, A32>>), Ask("k", <<A32, B32>>),
                 Launch("kret", <<A32>>), Launch("kspec", <<I32, I32>>),
                 Launch("kbad", <<A32>>), Ask("k", <<AF, AF>>),
                 Launch("k", <<I32>>)>>
MCThreads == DOMAIN MCProgram
=============================================================================
