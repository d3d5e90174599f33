-------------------------- MODULE KernelDispatcher --------------------------
(***************************************************************************)
(* How threads get their functions compiled: the decorators that make a    *)
(* dispatcher and compile its signatures (core/decorators.py), and the     *)
(* dispatchers of kernels and device functions                             *)
(* (kernel_api_impl/spirv/dispatcher.py) and of dpjit functions            *)
(* (core/dpjit_dispatcher.py).  A compilation types the function's calls,  *)
(* which compiles the functions called, in the same thread and under the   *)
(* same re-entrant lock; every dispatcher remembers its overloads and its  *)
(* failures.                                                               *)
(***************************************************************************)
EXTENDS Integers, Sequences, FiniteSets, Functions

CONSTANTS
  Threads,
  NoThread,   \* the owner of a free lock
  Functions,  \* the Python functions that are decorated
  Module,     \* those of the module whose import the program begins with
  Kind,       \* function -> HOST (dpjit), KERNEL or DEVICE_FUNC
  QualName,   \* function -> its qualified name; closures share it
  Sigs,       \* function -> the signatures given to its decorator, a sequence
  Body,       \* function -> argument types its body types for -> the calls it
              \* makes, a sequence of [fn, args]
  Returns,    \* the functions that return a value
  Cost,       \* <<type, other type>> -> the price of Numba's conversion, where there is one
  Program     \* thread -> its statements, a sequence of [op, fn, args]

ASSUME NoThreadAssumption == NoThread \notin Threads

CallsOf(f) == UNION {{Body[f][a][n] : n \in DOMAIN Body[f][a]} : a \in DOMAIN Body[f]}

\* Functions call functions of the module, never themselves.
ASSUME CallsAreOrdered ==
  \A S \in (SUBSET Functions) \ {{}} : \E f \in S : \A c \in CallsOf(f) : c.fn \in Module \ S

SigSet(f) == {Sigs[f][n] : n \in DOMAIN Sigs[f]}
\* The arguments that are compiled for.
ArgLists ==
  (UNION {SigSet(f) \cup DOMAIN Body[f] \cup {c.args : c \in CallsOf(f)} : f \in Functions})
    \cup UNION {{Program[t][n].args : n \in DOMAIN Program[t]} : t \in Threads}

\* Arguments are sequences of types, and to convert costs something.
ASSUME ArgumentsAssumption ==
  /\ \A args \in ArgLists : args \in Seq(Range(args)) /\ Len(args) \in Nat
  /\ \A c \in DOMAIN Cost : Cost[c] \in Nat \ {0}

\* Decorators, bodies and programs are finite, and name functions there are.  A
\* decorator makes a function of its own each time it runs.
ASSUME ProgramAssumption ==
  /\ Module \subseteq Functions
  /\ \A f \in Functions :
       /\ Len(Sigs[f]) \in Nat /\ DOMAIN Sigs[f] = 1 .. Len(Sigs[f])
       /\ \A a \in DOMAIN Body[f] :
            Len(Body[f][a]) \in Nat /\ DOMAIN Body[f][a] = 1 .. Len(Body[f][a])
  /\ \A t \in Threads :
       /\ Len(Program[t]) \in Nat /\ DOMAIN Program[t] = 1 .. Len(Program[t])
       /\ \A n \in DOMAIN Program[t] :
            /\ Program[t][n].op \in {"decorate", "call"} /\ Program[t][n].fn \in Functions
            /\ Program[t][n].op = "decorate" =>
                 \A u \in Threads : \A m \in DOMAIN Program[u] :
                   Program[u][m].op = "decorate" /\ Program[u][m].fn = Program[t][n].fn =>
                     u = t /\ m = n

VARIABLES
  overloads,   \* function -> arguments -> [id, entry_point, code]
  failed,      \* function -> the arguments in its _failed_cache
  can_compile, \* function -> _can_compile
  decorated,   \* the functions whose decorator has returned
  defns,       \* target context: <<entry point, arguments>> -> function inserted last
  ids,         \* function identities handed out
  lock,        \* global_compiler_lock: [owner, depth]
  stack,       \* thread -> frames of dispatchers and decorators, innermost first
  ret,         \* thread -> how its last call ended
  pc           \* thread -> its next statement

vars == <<overloads, failed, can_compile, decorated, defns, ids, lock, stack, ret, pc>>

Errors == {"RuntimeError", "TypingError", "ExecutionQueueInferenceError",
           "InvalidKernelSpecializationError", "KernelHasReturnValueError"}

HasBody(f, args) == args \in DOMAIN Body[f]
Frame(step, f, args) ==
  [step |-> step, fn |-> f, args |-> args, id |-> 0, n |-> 1, sigs |-> <<>>]

Top(t) == stack[t][1]
At(t, step) == stack[t] # <<>> /\ Top(t).step = step
Become(t, frame) == stack' = [stack EXCEPT ![t] = <<frame>> \o Tail(@)]
Push(t, frame, below) == stack' = [stack EXCEPT ![t] = <<frame, below>> \o Tail(@)]
Return(t, how) ==
  /\ stack' = [stack EXCEPT ![t] = Tail(@)]
  /\ ret' = [ret EXCEPT ![t] = how]
\* Faulty: the end of an inner compilation opens the lock.
ReleaseAll(t) == lock' = [owner |-> NoThread, depth |-> 0]
Release(t) ==
  lock' = IF lock.depth = 1 THEN [owner |-> NoThread, depth |-> 0]
          ELSE [lock EXCEPT !.depth = @ - 1]

----------------------------------------------------------------------------
(* Arguments *)

Queues(args) == {args[i].queue : i \in {j \in DOMAIN args : args[j].cls = "usm"}}

\* check_sig_types, then check_queue_equivalence_of_args.
ArgumentError(args) ==
  IF \E i \in DOMAIN args : args[i].cls = "numpy" THEN "InvalidKernelSpecializationError"
  ELSE IF Cardinality(Queues(args)) # 1 THEN "ExecutionQueueInferenceError"
  ELSE "none"

Price(from, to) == IF from = to THEN 0 ELSE Cost[<<from, to>>]
Convertible(args, sig) ==
  /\ Len(args) = Len(sig)
  /\ \A i \in DOMAIN args : args[i] = sig[i] \/ <<args[i], sig[i]>> \in DOMAIN Cost
TotalCost(args, sig) ==
  LET cost[n \in 0 .. Len(args)] ==
        IF n = 0 THEN 0 ELSE cost[n - 1] + Price(args[n], sig[n])
  IN  cost[Len(args)]

\* The cheapest signature to convert to, the first of several.
IsBest(s, args, sigs, Rank(_)) ==
  /\ Convertible(args, s)
  /\ \A r \in sigs \ {s} :
       Convertible(args, r) =>
         \/ TotalCost(args, s) < TotalCost(args, r)
         \/ TotalCost(args, s) = TotalCost(args, r) /\ Rank(s) < Rank(r)

----------------------------------------------------------------------------
(* Statements and decorators *)

\* What f calls, and what is called there, is decorated.
Bound(f) ==
  \E D \in SUBSET decorated : \A g \in D \cup {f} : \A c \in CallsOf(g) : c.fn \in D

\* A statement decorates a function, or has it compiled and called: Python calls
\* a dpjit function or asks a kernel for its get_compile_result.  A name is bound
\* before it is used: the module is imported before functions are called, and
\* what a function calls is there when its signatures are compiled.
Start(t) ==
  /\ stack[t] = <<>> /\ pc[t] <= Len(Program[t])
  /\ LET s == Program[t][pc[t]] IN
       /\ s.op = "call" => Module \cup {s.fn} \subseteq decorated
       /\ s.op = "decorate" /\ Sigs[s.fn] # <<>> => Bound(s.fn)
       /\ stack' = [stack EXCEPT ![t] =
            <<Frame(IF s.op = "decorate" THEN "decorate" ELSE "result", s.fn, s.args)>>]
  /\ pc' = [pc EXCEPT ![t] = @ + 1]
  /\ ret' = [ret EXCEPT ![t] = "ok"]
  /\ UNCHANGED <<overloads, failed, can_compile, decorated, defns, ids, lock>>

\* The next signature of a decorator.
DecorateSig(t) ==
  /\ At(t, "decorate") /\ ret[t] = "ok"
  /\ LET d == Top(t) IN
       /\ d.n <= Len(Sigs[d.fn])
       /\ Push(t, Frame("acquire", d.fn, Sigs[d.fn][d.n]), [d EXCEPT !.n = @ + 1])
  /\ UNCHANGED <<overloads, failed, can_compile, decorated, defns, ids, lock, ret, pc>>

\* Faulty: the decorator compiles its signatures and leaves the rest to be
\* compiled on demand.
DisableCompileNever(f) == UNCHANGED can_compile
\* disable_compile of a function that was given signatures.
DisableCompile(f) ==
  can_compile' = [can_compile EXCEPT ![f] = @ /\ Sigs[f] = <<>>]

Decorated(t) ==
  /\ At(t, "decorate") /\ ret[t] = "ok" /\ Top(t).n > Len(Sigs[Top(t).fn])
  /\ DisableCompile(Top(t).fn)
  /\ decorated' = decorated \cup {Top(t).fn}
  /\ Return(t, "ok")
  /\ UNCHANGED <<overloads, failed, defns, ids, lock, pc>>

\* A signature is refused: the decorator raises, and there is no dispatcher.
DecorateFails(t) ==
  /\ At(t, "decorate") /\ ret[t] # "ok"
  /\ Return(t, ret[t])
  /\ UNCHANGED <<overloads, failed, can_compile, decorated, defns, ids, lock, pc>>

----------------------------------------------------------------------------
(* Looking up an overload, without the lock *)

\* get_compile_result, and the lookup of a call from Python.
Result(t) ==
  /\ At(t, "result")
  /\ LET d == Top(t) IN
       IF d.args \in DOMAIN overloads[d.fn] THEN Return(t, "ok")
       ELSE IF can_compile[d.fn] THEN Become(t, [d EXCEPT !.step = "acquire"]) /\ UNCHANGED ret
       ELSE Return(t, "TypingError")
  /\ UNCHANGED <<overloads, failed, can_compile, decorated, defns, ids, lock, pc>>

\* get_call_template: the caller chooses among the overloads there are.
Template(t) ==
  /\ At(t, "template")
  /\ IF can_compile[Top(t).fn]
     THEN Become(t, [Top(t) EXCEPT !.step = "acquire"]) /\ UNCHANGED ret
     ELSE Return(t, "ok")
  /\ UNCHANGED <<overloads, failed, can_compile, decorated, defns, ids, lock, pc>>

----------------------------------------------------------------------------
(* compile *)

\* Faulty: a lock that a thread does not get twice.
MayAcquireOnce(t) == lock.owner = NoThread
\* global_compiler_lock is an RLock.
MayAcquire(t) == lock.owner \in {NoThread, t}

Acquire(t) ==
  /\ At(t, "acquire") /\ MayAcquire(t)
  /\ lock' = [owner |-> t, depth |-> lock.depth + 1]
  /\ Become(t, [Top(t) EXCEPT !.step = "check"])
  /\ UNCHANGED <<overloads, failed, can_compile, decorated, defns, ids, ret, pc>>

\* What compile refuses before it looks for an overload.
Refusal(f, args) ==
  IF ~can_compile[f] THEN "RuntimeError"
  ELSE IF Kind[f] = "KERNEL" THEN ArgumentError(args)
  ELSE "none"

\* Don't recompile if the signature already exists.
Existing(f, args) == args \in DOMAIN overloads[f]

Check(t) ==
  /\ At(t, "check")
  /\ LET d == Top(t)
         refusal == Refusal(d.fn, d.args)
         how == IF refusal # "none" THEN refusal
                ELSE IF Existing(d.fn, d.args) THEN "ok"
                ELSE IF d.args \in failed[d.fn] THEN "TypingError"
                ELSE "compile"
     IN  IF how = "compile"
         THEN /\ Become(t, [d EXCEPT !.step = "body", !.id = ids])
              /\ ids' = ids + 1
              /\ UNCHANGED <<lock, ret>>
         ELSE Return(t, how) /\ Release(t) /\ UNCHANGED ids
  /\ UNCHANGED <<overloads, failed, can_compile, decorated, defns, pc>>

\* A TypingError is remembered for the signature.
Fail(t) ==
  /\ failed' = [failed EXCEPT ![Top(t).fn] = @ \cup {Top(t).args}]
  /\ Return(t, "TypingError") /\ Release(t)

\* The body does not type for these arguments.
BodyFails(t) ==
  /\ At(t, "body") /\ ~HasBody(Top(t).fn, Top(t).args)
  /\ Fail(t)
  /\ UNCHANGED <<overloads, can_compile, decorated, defns, ids, pc>>

\* The next call of the body is typed.  call_kernel's intrinsic asks the kernel
\* for its compile result, any other call for a template.
TypeCall(t) ==
  /\ At(t, "body") /\ HasBody(Top(t).fn, Top(t).args)
  /\ LET d == Top(t)
         calls == Body[d.fn][d.args]
         step(callee) == IF Kind[d.fn] = "HOST" /\ Kind[callee] = "KERNEL"
                         THEN "result" ELSE "template"
     IN  /\ d.n <= Len(calls)
         /\ Push(t, Frame(step(calls[d.n].fn), calls[d.n].fn, calls[d.n].args),
                 [d EXCEPT !.step = "resolve"])
  /\ ret' = [ret EXCEPT ![t] = "ok"]
  /\ UNCHANGED <<overloads, failed, can_compile, decorated, defns, ids, lock, pc>>

\* The call is resolved to an overload of the function called.  Whatever went
\* wrong below is a TypingError of the caller: CAPTURED_ERRORS is "old_style", as
\* it is unless a program changes Numba's configuration.
Resolve(t) ==
  /\ At(t, "resolve")
  /\ LET d == Top(t)
         call == Body[d.fn][d.args][d.n]
         sigs == DOMAIN overloads[call.fn]
         best == {s \in sigs : IsBest(s, call.args, sigs, LAMBDA x : overloads[call.fn][x].id)}
     IN  IF ret[t] # "ok" \/ best = {}
         THEN Fail(t)
         ELSE /\ \E s \in best :
                   Become(t, [d EXCEPT !.step = "body", !.n = @ + 1,
                                       !.sigs = Append(@, s)])
              /\ UNCHANGED <<failed, ret, lock>>
  /\ UNCHANGED <<overloads, can_compile, decorated, defns, ids, pc>>

\* Faulty: Numba's own lowering, which goes by the qualified name.
EntryPointQualname(f, id) == [name |-> QualName[f], id |-> 0]
\* QualNameDisambiguationLowering: the name is that of one compilation.
EntryPoint(f, id) == [name |-> QualName[f], id |-> id]

\* The code a compilation links for its calls: what the target context knows by
\* the entry points of the overloads.
Linked(d) ==
  [n \in DOMAIN d.sigs |->
     LET callee == Body[d.fn][d.args][n].fn
     IN  [fn |-> defns[<<overloads[callee][d.sigs[n]].entry_point, d.sigs[n]>>],
          args |-> d.sigs[n]]]

\* add_overload and insert_user_function.
AddOverload(d) ==
  LET entry == EntryPoint(d.fn, d.id)
      keep == DOMAIN defns
      new == <<entry, d.args>>
  IN  /\ overloads' = [overloads EXCEPT ![d.fn] =
           [a \in DOMAIN @ \cup {d.args} |->
              IF a = d.args THEN [id |-> d.id, entry_point |-> entry, code |-> Linked(d)]
              ELSE @[a]]]
      /\ defns' = [k \in keep \cup {new} |-> IF k = new THEN d.fn ELSE defns[k]]

\* Faulty: the overload is added, then the kernel's return type looked at.
FinishFirst(t) ==
  /\ At(t, "body") /\ HasBody(Top(t).fn, Top(t).args)
  /\ LET d == Top(t) IN
       /\ d.n > Len(Body[d.fn][d.args])
       /\ AddOverload(d)
       /\ Return(t, IF Kind[d.fn] = "KERNEL" /\ d.fn \in Returns
                    THEN "KernelHasReturnValueError" ELSE "ok")
  /\ Release(t)
  /\ UNCHANGED <<failed, can_compile, decorated, ids, pc>>
\* A kernel that returns a value is refused after it was compiled.
Finish(t) ==
  /\ At(t, "body") /\ HasBody(Top(t).fn, Top(t).args)
  /\ LET d == Top(t) IN
       /\ d.n > Len(Body[d.fn][d.args])
       /\ IF Kind[d.fn] = "KERNEL" /\ d.fn \in Returns
          THEN UNCHANGED <<overloads, defns>> /\ Return(t, "KernelHasReturnValueError")
          ELSE AddOverload(d) /\ Return(t, "ok")
  /\ Release(t)
  /\ UNCHANGED <<failed, can_compile, decorated, ids, pc>>

----------------------------------------------------------------------------
(* Specification *)

Nothing == [a \in {} |-> 0]

Init ==
  /\ overloads = [f \in Functions |-> Nothing] /\ defns = Nothing
  /\ failed = [f \in Functions |-> {}]
  /\ can_compile = [f \in Functions |-> TRUE]
  /\ decorated = {}
  /\ ids = 0
  /\ lock = [owner |-> NoThread, depth |-> 0]
  /\ stack = [t \in Threads |-> <<>>]
  /\ ret = [t \in Threads |-> "ok"]
  /\ pc = [t \in Threads |-> 1]

Step(t) ==
  \/ Start(t) \/ DecorateSig(t) \/ Decorated(t) \/ DecorateFails(t)
  \/ Result(t) \/ Template(t) \/ Acquire(t) \/ Check(t)
  \/ BodyFails(t) \/ TypeCall(t) \/ Resolve(t) \/ Finish(t)

Done == \A t \in Threads : stack[t] = <<>> /\ pc[t] > Len(Program[t])

Next == (\E t \in Threads : Step(t)) \/ (Done /\ UNCHANGED vars)

\* A thread that can go on does: programs are finite, so that a thread that waits
\* for the lock gets it when the others are through with their calls.
Spec == Init /\ [][Next]_vars /\ \A t \in Threads : WF_vars(Step(t))

----------------------------------------------------------------------------
(* What compiling a function means, whoever asks and whatever was compiled *)

Position(f, sig) == CHOOSE n \in DOMAIN Sigs[f] :
                      Sigs[f][n] = sig /\ \A m \in 1 .. n - 1 : Sigs[f][m] # sig

\* The overload a call of the body of f is meant for: of a function with
\* signatures the best of them, where a host function launches a kernel exactly
\* its own; of another function the one for the call's arguments.
Meant(f, call) ==
  IF Sigs[call.fn] = <<>> THEN {call.args}
  ELSE IF Kind[f] = "HOST" /\ Kind[call.fn] = "KERNEL" THEN {call.args} \cap SigSet(call.fn)
  ELSE {s \in SigSet(call.fn) :
          IsBest(s, call.args, SigSet(call.fn), LAMBDA x : Position(call.fn, x))}

Outcome[f \in Functions] == [args \in ArgLists |->
  IF Kind[f] = "KERNEL" /\ ArgumentError(args) # "none" THEN ArgumentError(args)
  ELSE IF \/ ~HasBody(f, args)
          \/ \E n \in DOMAIN Body[f][args] :
               LET call == Body[f][args][n]
               IN  \A s \in Meant(f, call) : Outcome[call.fn][s] # "ok"
       THEN "TypingError"
  ELSE IF Kind[f] = "KERNEL" /\ f \in Returns THEN "KernelHasReturnValueError"
  ELSE "ok"]

ExpectedOf(s) ==
  LET bad == {n \in DOMAIN Sigs[s.fn] : Outcome[s.fn][Sigs[s.fn][n]] # "ok"} IN
  IF s.op = "call"
  THEN IF Sigs[s.fn] # <<>> /\ s.args \notin SigSet(s.fn) THEN "TypingError"
       ELSE Outcome[s.fn][s.args]
  ELSE IF bad = {} THEN "ok"
  ELSE Outcome[s.fn][Sigs[s.fn][CHOOSE n \in bad : \A m \in bad : n <= m]]

----------------------------------------------------------------------------
(* Properties *)

Holds(frame) == frame.step \in {"check", "body", "resolve"}

\* The lock is held as often as its owner has compilations under way, and by
\* nobody else.
TypeOK ==
  /\ ids \in Nat
  /\ \A f \in Functions :
       /\ can_compile[f] \in BOOLEAN
       /\ failed[f] \cap DOMAIN overloads[f] = {}
  /\ \A t \in Threads :
       /\ ret[t] \in Errors \cup {"ok"}
       /\ pc[t] \in 1 .. Len(Program[t]) + 1
       /\ Cardinality({n \in DOMAIN stack[t] : Holds(stack[t][n])}) =
            IF t = lock.owner THEN lock.depth ELSE 0

\* Whether a function compiles depends on its source, its signatures and the
\* arguments: not on what was compiled or refused before, nor on what other
\* threads compile meanwhile.
OutcomeExact ==
  \A t \in Threads :
    stack[t] = <<>> /\ pc[t] > 1 => ret[t] = ExpectedOf(Program[t][pc[t] - 1])

\* Compiled code calls the functions its source names, and of each the version
\* for the types of the call, also when closures share a qualified name.
CodeExact ==
  \A f \in Functions : \A a \in DOMAIN overloads[f] :
    /\ DOMAIN overloads[f][a].code = DOMAIN Body[f][a]
    /\ \A n \in DOMAIN Body[f][a] :
         LET to == overloads[f][a].code[n]
         IN  to.fn = Body[f][a][n].fn /\ to.args \in Meant(f, Body[f][a][n])

\* No overload can be found that compile refuses, for a lookup makes no checks
\* of its own, and a function with signatures has no other versions.
OverloadsJustified ==
  \A f \in Functions : \A a \in DOMAIN overloads[f] :
    Outcome[f][a] = "ok" /\ (Sigs[f] # <<>> => a \in SigSet(f))

\* Whoever asks for a function gets an answer.
EveryCallReturns == \A t \in Threads : stack[t] # <<>> ~> stack[t] = <<>>
=============================================================================
