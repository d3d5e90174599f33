---------------------------- MODULE KernelCache ----------------------------
(***************************************************************************)
(* The process-wide cache of built kernels and the handles a launch makes  *)
(* around it (core/runtime/experimental/kernel_caching.cpp, and            *)
(* KernelLaunchIRBuilder in core/utils/call_kernel_builder.py).            *)
(*                                                                         *)
(* The map has no lock of its own: what keeps two threads from meeting in  *)
(* get_else_compute is that jitted code runs with the GIL held, which is   *)
(* so unless the program asks for dpjit(nogil=True).  A step here is one   *)
(* call into the dpctl or dpex runtime.                                    *)
(***************************************************************************)
EXTENDS Integers, FiniteSets

CONSTANTS Thread,   \* Python threads that launch kernels
          Context, Device,
          Program,  \* SPIR-V modules, told apart by the hash of their bytes
          NoThread, NoKey

ASSUME CacheAssumption ==
  /\ IsFiniteSet(Thread) /\ NoThread \notin Thread
  /\ IsFiniteSet(Context) /\ IsFiniteSet(Device) /\ IsFiniteSet(Program)

\* std::tuple<DPCTLSyclContextRef, DPCTLSyclDeviceRef, size_t>; two keys are
\* equal when their contexts and devices are, whichever handles name them.
CacheKey == [ctx : Context, dev : Device, il : Program]

ASSUME NoKeyAssumption == NoKey \notin CacheKey

VARIABLES
  gil,     \* the thread that holds the GIL
  pc,      \* each thread's next step
  key,     \* the key of the launch it is in
  kernel,  \* its sycl_kernel_ref: none, null, or kernel
  cache,   \* sycl_kernel_cache: absent, empty (V()), null, or kernel
  ctxRefs, \* live handles on a context that launches made or the cache keeps
  devRefs, \* the same for devices
  kRefs    \* live handles on the kernel of a key

vars == <<gil, pc, key, kernel, cache, ctxRefs, devRefs, kRefs>>

Plus(f, x) == [f EXCEPT ![x] = @ + 1]
Minus(f, x) == [f EXCEPT ![x] = @ - 1]
Goto(t, step) == pc' = [pc EXCEPT ![t] = step]

----------------------------------------------------------------------------
\* Faulty: jitted code runs without the GIL.
EnterNoGil(t, k) ==
  /\ pc[t] = "python"
  /\ gil' = t
  /\ key' = [key EXCEPT ![t] = k]
  /\ Goto(t, "context")
  /\ UNCHANGED <<kernel, cache, ctxRefs, devRefs, kRefs>>

\* A jitted function starts to launch a kernel on the queue of its arguments.
Enter(t, k) ==
  /\ pc[t] = "python"
  /\ gil = NoThread
  /\ gil' = t
  /\ key' = [key EXCEPT ![t] = k]
  /\ Goto(t, "context")
  /\ UNCHANGED <<kernel, cache, ctxRefs, devRefs, kRefs>>

GetContext(t) ==
  /\ pc[t] = "context"
  /\ ctxRefs' = Plus(ctxRefs, key[t].ctx)
  /\ Goto(t, "device")
  /\ UNCHANGED <<gil, key, kernel, cache, devRefs, kRefs>>

GetDevice(t) ==
  /\ pc[t] = "device"
  /\ devRefs' = Plus(devRefs, key[t].dev)
  /\ Goto(t, "lookup")
  /\ UNCHANGED <<gil, key, kernel, cache, ctxRefs, kRefs>>

\* m.insert finds no entry: an empty one is inserted, whose key keeps both handles.
Insert(t) ==
  /\ pc[t] = "lookup"
  /\ cache[key[t]] = "absent"
  /\ cache' = [cache EXCEPT ![key[t]] = "empty"]
  /\ Goto(t, "build")
  /\ UNCHANGED <<gil, key, kernel, ctxRefs, devRefs, kRefs>>

\* Faulty: the handle on the device is not deleted.
HitKeepsDevice(t) ==
  /\ pc[t] = "lookup"
  /\ cache[key[t]] # "absent"
  /\ ctxRefs' = Minus(ctxRefs, key[t].ctx)
  /\ Goto(t, "copy")
  /\ UNCHANGED <<gil, key, kernel, cache, devRefs, kRefs>>

\* m.insert finds an entry: its key has handles already, those passed are deleted.
Hit(t) ==
  /\ pc[t] = "lookup"
  /\ cache[key[t]] # "absent"
  /\ ctxRefs' = Minus(ctxRefs, key[t].ctx)
  /\ devRefs' = Minus(devRefs, key[t].dev)
  /\ Goto(t, "copy")
  /\ UNCHANGED <<gil, key, kernel, cache, kRefs>>

\* f(v): the kernel bundle is built and its kernel stored in the entry, or the
\* build fails and GetKernel returns a null reference that is stored as well.
Build(t, outcome) ==
  /\ pc[t] = "build"
  /\ cache' = [cache EXCEPT ![key[t]] = outcome]
  /\ kRefs' = IF outcome = "kernel" THEN Plus(kRefs, key[t]) ELSE kRefs
  /\ Goto(t, "copy")
  /\ UNCHANGED <<gil, key, kernel, ctxRefs, devRefs>>

\* Faulty: the launch gets the reference of the cache, and no copy of it.
CopyNothing(t) ==
  /\ pc[t] = "copy"
  /\ kernel' = [kernel EXCEPT ![t] = IF cache[key[t]] = "kernel" THEN "kernel" ELSE "null"]
  /\ Goto(t, "submit")
  /\ UNCHANGED <<gil, key, cache, ctxRefs, devRefs, kRefs>>

\* DPCTLKernel_Copy; the copy of a null reference, or of V(), is null.
Copy(t) ==
  /\ pc[t] = "copy"
  /\ LET found == cache[key[t]]
     IN  /\ kernel' = [kernel EXCEPT ![t] = IF found = "kernel" THEN "kernel" ELSE "null"]
         /\ kRefs' = IF found = "kernel" THEN Plus(kRefs, key[t]) ELSE kRefs
  /\ Goto(t, "submit")
  /\ UNCHANGED <<gil, key, cache, ctxRefs, devRefs>>

\* submit(): the kernel goes to the queue, and SYCL keeps what it needs of it; a
\* null reference is passed on unchecked. Then the cleanups delete the copy.
Submit(t) ==
  /\ pc[t] = "submit"
  /\ kRefs' = IF kernel[t] = "kernel" THEN Minus(kRefs, key[t]) ELSE kRefs
  /\ kernel' = [kernel EXCEPT ![t] = "none"]
  /\ Goto(t, "submitted")
  /\ UNCHANGED <<gil, key, cache, ctxRefs, devRefs>>

\* The same jitted function launches its next kernel.
Again(t, k) ==
  /\ pc[t] = "submitted"
  /\ key' = [key EXCEPT ![t] = k]
  /\ Goto(t, "context")
  /\ UNCHANGED <<gil, kernel, cache, ctxRefs, devRefs, kRefs>>

\* It returns, and the thread gives up the GIL sooner or later.
Leave(t) ==
  /\ pc[t] = "submitted"
  /\ gil' = NoThread
  /\ key' = [key EXCEPT ![t] = NoKey]
  /\ Goto(t, "python")
  /\ UNCHANGED <<kernel, cache, ctxRefs, devRefs, kRefs>>

----------------------------------------------------------------------------
Init ==
  /\ gil = NoThread
  /\ pc = [t \in Thread |-> "python"]
  /\ key = [t \in Thread |-> NoKey]
  /\ kernel = [t \in Thread |-> "none"]
  /\ cache = [k \in CacheKey |-> "absent"]
  /\ ctxRefs = [c \in Context |-> 0]
  /\ devRefs = [d \in Device |-> 0]
  /\ kRefs = [k \in CacheKey |-> 0]

Next ==
  \E t \in Thread :
    \/ GetContext(t) \/ GetDevice(t) \/ Insert(t) \/ Hit(t)
    \/ Copy(t) \/ Submit(t) \/ Leave(t)
    \/ \E outcome \in {"kernel", "null"} : Build(t, outcome)
    \/ \E k \in CacheKey : Enter(t, k) \/ Again(t, k)

Spec == Init /\ [][Next]_vars

----------------------------------------------------------------------------
(* Properties *)

Typed ==
  /\ gil \in Thread \cup {NoThread}
  /\ pc \in [Thread -> {"python", "context", "device", "lookup", "build",
                        "copy", "submit", "submitted"}]
  /\ key \in [Thread -> CacheKey \cup {NoKey}]
  /\ \A t \in Thread : pc[t] # "python" => key[t] \in CacheKey
  /\ kernel \in [Thread -> {"none", "null", "kernel"}]
  /\ cache \in [CacheKey -> {"absent", "empty", "null", "kernel"}]
  /\ ctxRefs \in [Context -> Int] /\ devRefs \in [Device -> Int]
  /\ kRefs \in [CacheKey -> Int]

\* Every variable keeps its type, and no handle is deleted that does not exist:
\* the copies that launches delete are not the cache's own.
TypeOK ==
  /\ Typed
  /\ \A c \in Context : ctxRefs[c] >= 0
  /\ \A d \in Device : devRefs[d] >= 0
  /\ \A k \in CacheKey : kRefs[k] >= 0

Cached == {k \in CacheKey : cache[k] # "absent"}
At(steps) == {t \in Thread : pc[t] \in steps}

\* The handles that exist are those the keys of the cache are compared by and
\* those of the launch under way: no key is left with deleted handles, no
\* launch leaks one, and the kernel in the cache survives the deletion of every
\* copy of it.
HandlesExact ==
  /\ \A c \in Context :
       ctxRefs[c] = Cardinality({k \in Cached : k.ctx = c})
                  + Cardinality({t \in At({"device", "lookup"}) : key[t].ctx = c})
  /\ \A d \in Device :
       devRefs[d] = Cardinality({k \in Cached : k.dev = d})
                  + Cardinality({t \in At({"lookup"}) : key[t].dev = d})
  /\ \A k \in CacheKey :
       kRefs[k] = (IF cache[k] = "kernel" THEN 1 ELSE 0)
                + Cardinality({t \in Thread : key[t] = k /\ kernel[t] = "kernel"})

\* What the store of resolutions shows of the cache, and of a thread.
Resolved ==
  [k \in CacheKey |-> IF cache[k] \in {"absent", "empty"} THEN "none" ELSE cache[k]]
Asked ==
  [t \in Thread |-> IF pc[t] \in {"python", "submitted"} THEN NoKey ELSE key[t]]

\* Each key is built once, and a launch submits the outcome of that build: the
\* empty entry that get_else_compute inserts before it builds is never seen by
\* another launch.
Store == INSTANCE KernelStore WITH
  Key <- CacheKey, result <- Resolved, asked <- Asked, answer <- kernel

BuildsOnce == Store!StoreSpec

\* Nobody but the holder of the GIL is inside a jitted function, and only a
\* thread about to build leaves an entry empty.
GilInv ==
  /\ \A t \in Thread : pc[t] # "python" => gil = t
  /\ \A t \in Thread : pc[t] # "submit" => kernel[t] = "none"
  /\ \A t \in Thread : pc[t] = "submit" => kernel[t] = cache[key[t]]
  /\ \A t \in Thread : pc[t] = "build" => cache[key[t]] = "empty"
  /\ \A t \in Thread : pc[t] = "copy" => cache[key[t]] \in {"null", "kernel"}
  /\ \A k \in CacheKey :
       cache[k] = "empty" => \E t \in Thread : pc[t] = "build" /\ key[t] = k

IInv == Typed /\ GilInv
============================================================================
