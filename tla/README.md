# Formal model of numba-dpex

TLA+ specifications of the core of numba-dpex, model-checked with TLC on small
instances and, where it matters most, proved with TLAPS for every value of the
constants.  numba-dpex compiles Python functions to SYCL kernels (`kernel`) and
to host functions that launch kernels (`dpjit`), and shares USM memory between
Python objects, jitted host code and the device.

`PROJECT.json` lists the components, runs, mutants, the source lines of every
definition, the findings, the hazards and the theorems.  This file explains
them.

## 1. The system

### Components, state, operations

| Component | State it keeps | Operations | Source (under `numba_dpex/`) |
|---|---|---|---|
| MemInfo runtime | for each `NRT_MemInfo`: `refct`, dtor info with the owner, data, external allocator with a queue copy | allocate, fill, acquire, release, destructor, unbox and box arrays, queues and events | `core/runtime/*.c`, `core/boxing` |
| Host tasks | references taken for an asynchronous launch | acquire, schedule the release, release | `core/runtime/experimental/nrt_reserve_meminfo.cpp` |
| Kernel launches | events, the queue's command graph, the GIL | `call_kernel`, `call_kernel_async`, `event.wait()` | `core/kernel_launcher.py`, `core/utils/call_kernel_builder.py`, `dpctl_iface` |
| Kernel cache | global map (context, device, hash of SPIR-V) -> kernel | look up, build, copy | `core/runtime/experimental/kernel_caching.cpp` |
| Parfor reductions | local memory, partial and final sums, host variable | main kernel, remainder kernel, copy back | `core/parfors` |
| Plain parfors | the lowerer's type map, kernel parameters | convert, fuse, lower, submit | `core/parfors` |
| Kernel dispatcher and decorators | overloads, failed signatures, compile depth, compiler lock, the target's list of inserted functions | decorate, `compile`, `get_compile_result`, link | `kernel_api_impl/spirv/dispatcher.py`, `core/decorators.py`, `core/passes` |
| Compute follows data | types of the arrays of a function in program order; which arrays were seen, which types changed; a lowerer per device | type an array expression, legalise a parfor or call, check a kernel | `core/passes/parfor_legalize_cfd_pass.py`, `core/types` |
| Types | none (immutable) | construct, copy, unify, convert, key | `core/types`, `core/typing` |
| Argument flattening | none | flatten arrays, local accessors, complex numbers and scalars; the kernel's parameters; the wrapper that packs them again | `core/utils/kernel_flattened_args_builder.py`, `core/datamodel`, `kernel_api_impl/spirv/target.py` |
| Index spaces | extents of a range, ids of the current work item | make, box and unbox a range, pass it to SYCL, ask an item for its ids; the sequential launcher of plain Python | `kernel_api`, `core/boxing/ranges.py`, `core/overloads`, `kernel_api_impl/spirv/overloads` |
| Atomics, barriers, fences | device memory as the items see it | `AtomicRef`, `atomic_fence`, `group_barrier`, `PrivateArray` | `kernel_api_impl/spirv/overloads`, `kernel_api/atomic_ref.py` |
| SPIR-V back end | LLVM modules | link, finalise, translate | `kernel_api_impl/spirv` |
| dpnp constructors | the elements of what they make (the memory is a MemInfo's) | `empty`, `zeros`, `ones`, `full`, `*_like`, views | `dpnp_iface`, `dpctl_iface/arrayobj.py` |

### How they interact

A Python call of a dpjit function enters numba's C wrapper with the GIL held.
The wrapper unboxes each array: the runtime makes a MemInfo whose *owner* is the
Python object and which keeps a copy of the object's queue.  The body increfs
and decrefs MemInfos, allocates and fills new ones, and launches kernels.  A
launch takes the queue from the first array argument, gets its kernel from the
cache, submits it and either waits for it or acquires the arguments' MemInfos and
submits a *host task* that releases them after the kernel.  That task runs on a
thread of the SYCL runtime, and its last release of an unboxed array runs a
destructor that needs the GIL.  After the body the wrapper releases the
arguments and boxes the result.  A reduction loop is compiled to two kernels and
a copy; each is launched and waited for.

Before a kernel can be launched its dispatcher compiles it: it checks the types of
the arguments, types the body, for which the dispatchers of the functions it calls
compile those, and links the result.  The launch then flattens the arguments to
what SYCL takes, reverses the extents of the range, and a wrapper on the device
packs the parameters again to what the kernel's body expects.  The same kernel
can be called as plain Python, with a launcher that runs the items one by one.

Which queue a launch uses is decided in several places.  Type inference gives
every array a queue and a USM type; the compute follows data pass compares and
changes these types, parfor by parfor; Numba fuses parfors; the kernel compiler
compares the queues of the arguments' types; the launch reads the queue from the
first array's struct; and the constructors choose the queue of the memory.

### What is hard

* Reference counts of three kinds (MemInfo, Python object, SYCL handle) are
  moved between owners by hand-written C and generated IR, on success and on
  every error path.
* Two kinds of thread update one count, one of them without atomicity
  (`_nrt_helper.c:88`).
* The GIL and SYCL events form a wait-for graph that no single file shows.
* The kernel cache is a global map without a lock.
* The work items of a reduction share local memory between barriers.
* The items of a kernel see each other's writes only as far as orders and scopes
  that two tables translate to SPIR-V let them.
* Index spaces, argument lists and strides each have two or three representations,
  with conversions by hand between them.
* Compilations recurse into each other under one lock, and remember successes and
  failures.
* The queue an array is inferred to have, the queue its memory is on and the
  queue its kernel runs on are computed by different code from different inputs.

## 2. The modules

| Module | Models | State and actions |
|---|---|---|
| `MemInfo` | the MemInfo runtime, boxing and unboxing, launches and host tasks as users of references | one variable per field of the C structs (`refct`, `owner`, `data`, `queue`) and per kind of reference (`args`, `local`, `lost`, `wrap`, `held`); `pc` is the main thread's place in a call; one action per runtime entry point or failing exit of it |
| `KernelStore` | what the cache promises | a resolution per key; ask, resolve, answer, give back |
| `KernelCache` | the cache and the handles of a launch | the map, the handles' counts, each thread's place between `set_kernel_from_spirv` and the clean-up after `submit`; implements `KernelStore` |
| `AsyncLaunch` | launches, events, waits, the GIL | the commands and the commands they come after, who holds the GIL, who waits for what |
| `ParforReduction` | the reduction kernels | each work item's place in the loop, its stride, local memory, partial and final sums, the host variable |
| `ComputeFollowsData` | the way of a dpjit function from type inference to its launches | the statements, inferred and legalised types, what the pass has seen and changed, fusion, memory; a phase of the compiler per group of actions |
| `AtomicOps` | typing and lowering of atomic references, orders and scopes, indexing of arrays in kernels, and what the Python classes do | operators only |
| `DeviceKernel` | one kernel from its compilation to the end of its items | the items' places and variables, the history of every cell, what each item knows of the others; one action per operation of the kernel API |
| `IndexSpace` | ranges and ids, in Python, in dpjit functions and on the device | operators only |
| `KernelArgs` | flattened arguments, the kernel's parameters, the wrapper | operators only |
| `LaunchOnce` | what a launch promises | refuse, run an index, return |
| `KernelLaunch` | one launch by `call_kernel`, `call_kernel_async`, a parfor or the simulator | where the caller is, what was submitted, which items have run and what they were told; implements `LaunchOnce` |
| `KernelDispatcher` | decorators and dispatchers, the compiler lock | a stack of frames per thread, the caches of every dispatcher, the lock; one action per step of a compilation |
| `ArrayData` | where elements are and what they hold: boxing, views, constructors, fills | the program's arrays, the function's arrays, the allocations; one action per unboxing, subscript, constructor and way to return |
| `MC*` | instances for TLC | sets of model values |
| `*Proofs` | the proofs about the module they are named for | |

Definitions whose comment begins with *Faulty* are the same operation with a
plausible bug.  No specification uses them; for each property of each passing
run there is one that makes the property fail (`"mutants"`).

### MemInfo

`Release` is `NRT_MemInfo_release` with its destructor.  On the main thread the
destructor completes within the step, since the thread holds the GIL.  In a host
task it takes two steps, `HostRelease` (the count drops, data and queue go) and
`HostClose` (the owner is decref'd under the GIL).  `refct` is atomic in numba's
runtime and a plain `size_t` in the copy of the struct that the boxing code uses,
hence `BoxLoad` and `BoxStore` are two steps with the loaded value in `tmp`.
`Submit` chooses any assignment of reachable MemInfos to the arguments, the same
one twice included.  `Raise` loses the frame's references: numba does not unwind.
References that nobody will give back are kept in `lost`, and those of boxed
arrays, whose `MemInfoObject` the code never deallocates, in `wrap`.

The dpex runtime's `TheMSys` is static memory that nothing initialises, so
`MemInfo_dealloc` would free through a null allocator; it is never reached.

### KernelCache

A step is one call into dpctl or the dpex runtime.  `Insert` and `Build` are the
two halves of `get_else_compute` on a miss: an empty entry is in the map while
the kernel is built.  A failed build leaves a null kernel in the map for ever;
the store's `"null"` resolution is that outcome, and the launch submits it
unchecked.  Compile options and the kernel's name are not part of the key; the
model has one value of them.

### AsyncLaunch

An event is a launch and a kind, `device` or `host`.  `after` holds the commands
that must be done before a command starts: its dependencies and, on an in-order
queue, everything submitted before.  `HostAsksGil` is the destructor's
`PyGILState_Ensure`; it is possible once no jitted frame refers to the launch.
The constants `DepKinds` and `JitWaits` say what a program does with its events,
and `InOrder` what queue it uses.

### ParforReduction

A value is the multiset of what was combined into it: how often each iteration
and how often the variable's old value.  Both `+=` and `*=` are a sum of such
counts and their identities are the empty one, so a single run covers both, and
"each iteration once" is visible in the result.

### ComputeFollowsData

A function is a sequence of statements over numbered arrays: calls of constructors
(`known` is `dpnp.empty`, the one call whose result the pass enters in
`_seen_array_set`), array expressions and `prange` loops.  `typed` is what
inference found and what calls keep, `typemap` what the pass makes of it, `memory`
what the arrays really get.  An expression is a parfor whose init block allocates
its result; the result's type is the last operand's (`LastLeaf`).  The pass takes
the statements in order (`pos`) and stops the compilation where the code raises
(`Refuse...`, `WriteBadExpr`).  `Fuse` joins any adjacent parfors with the same
lowerer: whether two loops have the same extent is abstracted.

One fact comes from Numba and not from the repository: when a variable's type was
changed after the call that defines it was typed, lowering has to convert an array
of one type to another, and Numba's array-to-array cast asserts that it never does
(`DefinitionsAccepted`, external).  Together with the refusal in a parfor's own init
block (`InitBlockFails`: both `device` and `sycl_queue` are passed) it means that a
function in which the pass has changed the type of an array does not compile,
unless a later parfor changes it back.  So `a + b` with `a` on USM type device and
`b` shared is refused, although lines 33-35 of the pass describe a promotion, while
`b + a` compiles.

What an outcome depends on is stated in the properties: `UsmFollowsData` is about
operands that the pass saw made (a type that was changed and changed back escapes
it otherwise, as the pass has no fixed point), and `RefusalJustified` lists the
three reasons for which a function is refused.

### AtomicOps and DeviceKernel

A kernel is a record: its items with their groups, the first values of memory, the
code of each item as a sequence of operations of the kernel API, and what memory
holds in the end.  `Compile` types the whole kernel and then lowers it, with the
errors of either.  The instances in `MCDeviceKernel` are the kernels of
`tests/kernel_tests` and of the user guide.

The memory of the device is external and modelled as SPIR-V has it.  A cell keeps
the history of its values, an item has a clock per class of memory, a release
attaches the clock to a value and an acquire joins it, both only for the memory in
the mask and within the scope.  A load that is not synchronised may return an
older value; sequential consistency is taken for acquire and release, which allows
more.  Local and private memory start with `Garbage`.  Integers are `Width` bits
wide.

The simulator's `AtomicRef` is the operator `Simulated`; `Linearizable` compares
the two.  The simulator runs the items one after the other, so a kernel that spins
never ends there, and its `group_barrier` raises `NotImplementedError`; the kernels
with these are run for the device only.  An element type that is typed
and has no entry in the table of instructions (the unsigned ones) fails in lowering
with a `ValueError`; `TypeOK` says that no other does.

### IndexSpace, KernelArgs, KernelLaunch and LaunchOnce

A call is a record: who calls, what the range is made of and where, the arguments
with their types and values, whether the call waits, and the events it depends on.
The phases are those of the code: construct the Python objects, type, lower (check
and flatten the arguments, reverse the extents), submit, wait.  On the device any
item may run next; in the simulator they run in the launcher's order.  An item
records what it was told (`ran`), and what arrived for each argument is the wrapper
applied to the flattened list (`Repack`).

What the model keeps of the code's edges: a `LocalAccessor` of an integer of 8 or 16
bits is accepted by its constructor and refused in lowering with
`NotImplementedError`; a kernel whose only array-like argument is a local accessor
stops with `UnboundLocalError`; all strides of a local accessor are its item size,
hence strides of local memory are not compared; a parfor of more than three
dimensions is refused; an `NdRange` made in a dpjit function is not checked for
divisibility or zeros, and an assumption keeps such calls out, because what SYCL
does with one is not this code's.  The null event of a failed submission is not
checked by the code and submission does not fail in the model.

### KernelDispatcher

A program is a list of statements per thread: a module that decorates its functions
and is imported first, and calls.  A name is bound before it is used: functions of the
module are called when it has been imported, and a decorator with signatures, which
compiles there and then, runs when what its function calls is decorated (`Bound`).  A
decorator makes a function of its own each time it runs.  A frame of a thread's stack is a dispatcher's
`compile` or a decorator's loop over signatures; `step` is its place.  `Body` gives,
per function and argument types, the calls the body makes, in order; a body that has
no entry does not type.  `Outcome` is the meaning: what compiling a function for
given types gives, computed from the sources alone.  A conversion of an argument costs
something, as in Numba, so that the version for the very types of a call is the best.

`kernel(signature)` compiles at decoration and then switches compilation off, for
which the docstring promises that no other version is compiled
(`OverloadsJustified`).  A kernel that returns a value is compiled to the end each
time it is asked for and refused each time; it is in neither cache.  Errors in a
callee reach its callers as typing errors.  A function with signatures converts
arguments implicitly when a kernel calls it, and not when it is launched
(`Meant`).

### ArrayData

An array of the program (`objects`) has strides in elements, or none if it is
C-contiguous; an array of the function (`frame`) has them in bytes, and its type has
a layout that says whether compiled code looks at them.  The ghost field `means`
says, for each index, where the element is: it is set where an array enters or is
made, and carried through views by the meaning of a subscript.  `ElementsExact`
compares it with the address arithmetic of either side.

`Pattern` is the bit pattern that `DPEXRT_MemInfo_fill` repeats, a case for each
width and for each kind of value and of item.  Numbers are counted in halves to have
fractions, and the integers of 1, 2, 4, 8 bytes are `Bits` wide.  `Fillable` names the
values for which the code can be right; for the others see section 3.  Errors of
compilation are shown where the call would run.

dpctl's dropping of the strides of a C-contiguous array, Numba's indexing by tuples
and Numba's layout of a view are external.

## 3. The runs

| Run | Instance | Shows |
|---|---|---|
| `MemInfo` | 2 MemInfos, 1 array object, 1 launch of 2 arguments, 1 local reference, fills may fail, fair | no dangling reference, kernels and boxed arrays read live memory, the object's count is exact; whatever nothing pins is destroyed |
| `KernelCache` | 2 threads, 2 contexts, 2 devices, 1 program | refinement of the store, exact handles |
| `AsyncLaunch` | 2 threads, 2 launches, out-of-order queue, device events as dependencies, fair | no wait cycle through the GIL; waits return (also those of `call_kernel`), arguments are released |
| `ParforReduction` | 10 iterations, work groups of 4, fair | two groups, a tree of two rounds, a remainder of two iterations; races, barriers, result, termination |
| `ComputeFollowsData` | all functions of 2 statements over 2 arguments; 2 devices, 3 queues, 2 USM types | launches combine arrays of one queue and run on it, USM types propagate, refusals have a reason |
| `DeviceKernel` | 16 kernels of the tests and docs and all fetch operations on 3 element types, 2 to 4 items, integers of 4 bits, fair | what is typed can be lowered; masks and scopes order every conflict; memory ends as the tests assert; device and Python atomics agree; kernels end |
| `KernelLaunch` | 1 to 3 dimensions, extents 0 to 4, 14 argument lists, `Range`, `NdRange` and parfors, made in Python and in dpjit functions, device and simulator, fair | refinement of `LaunchOnce`; ids, arguments and queue are what the caller meant |
| `KernelDispatcher` | 12 functions, import by one thread, then 2 threads of 5 and 7 calls, fair | outcomes depend on the sources alone, right versions are linked, caches hold nothing that would be refused, every call returns |
| `ArrayData` | 4 arguments (C, F, strided, 0-d), 9 subscripts, 8 element types, 2 arrays in a function, 5 allocations, 5 objects | elements are found where they are by compiled code and by Python; fills give the value asked for |

Why the bounds are enough.  A MemInfo interacts with another only through an
owner, a launch or a frame that holds both, so two of them with one owner and a
launch of two arguments give every pair of users of a MemInfo, and the theorems
remove the bounds.  A MemInfo is not reused after its destruction (`gone` is final),
which bounds the histories, not the calls: the main thread calls again and again.
Two threads over four keys include equal keys, keys that share a context and keys
that share a device.  Two launches are a waited one and one that it depends on or
that is queued before it.  Work groups of 4 have a tree with an inner round, two
groups have partial results to add, and 10 leaves a remainder; the code's groups are
of 8, and the proofs cover every size.  Two statements give every pair of producer
and consumer, two writers of one output and a fused pair; three queues are two
devices and a device with two queues.

Two items are enough for a race and three for a chain of releases; the kernel with
four has two groups of different length.  Extents are unequal in every dimension, so
that a wrong reversal shows, and the largest group has two items in a dimension.
Both threads of `KernelDispatcher` compile the same kernels, a kernel calls three
device functions, and the compilation of `work` goes five levels deep.  In `ArrayData` two
arrays in a function are a view of a view; five objects let a returned view be passed
in again; the widths 4 to 7 keep the order of the real ones, and the values lie on both
sides of each limit.  Steps of slices are positive.  The theorems about
`KernelDispatcher` and `ArrayData` remove these bounds.

### Runs that expect a violation

Each states what a comment or doc of the repository says, and TLC shows the code
doing something else (`"findings"` quotes the lines).

| Run | What happens |
|---|---|
| `MemInfo_boxrace` | a host task releases a reference between the load and the store of boxing's `refct++`; the count stays one too high and the memory is never freed |
| `KernelLaunch_asked` | `Range(2, 0)` made in Python runs two items; `prange(2, 4)` runs the indices 0 to 3 |
| `AsyncLaunch_inorder_sync` | `call_kernel` on an in-order queue behind a host task that needs the GIL never returns |

### Differences that have no run of their own

The models contain these too.  Each is certain rather than a matter of timing, and the
constants or preconditions of the passing runs keep it out of the way of their properties.

* A boxed array's `MemInfoObject` is never deallocated, so its memory stays
  (`_dpexrt_python.c:1231`; `wrap` in `MemInfo`).
* A failed allocation leaves the queue copy it was given (`AllocFail`), and a failed
  fill deletes the array's own queue (`:731`, `FillFail`).
* `zeros_like(x, device=d)` is typed as on `d` and allocated on the queue of `x`
  (`dpnp_iface/_intrinsic.py:150`; set `LikeDevice`).
* Two loops over arrays of two queues of one device are fused, and their kernel is
  refused (`parfor_lowerer.py:440`; `RefusalJustified` names the case).
* A reduction ignores the start of its loop and loses the variable's old value
  (`reduction_helper.py:59`, `:438`; set `Start` or `HasInitial` in `ParforReduction`).
* A host event that is waited for inside a dpjit function blocks for ever when its
  host task needs the GIL (add `"host"` to `JitWaits`).
* The number of items to fill is truncated to an `unsigned int` (`:624`).  `ones`
  and `full` of a `complex64` array write the bits of an integer, those of a
  `complex128` or `float16` array fail; a `uint64` value from 2^63 becomes a negative
  float; a float goes to an unsigned item through the signed type of its width
  (`Fillable`).  Converting a float that the signed type cannot hold is undefined in C,
  and the model allows every result, although `test_dpnp_full.py` compares such fills
  (`4294967295.0`, `3.4028237e38`) with numpy's (`:124`).
* Fill values of other than 64 bits do not compile, since they are bitcast to `i64`
  (`ValuePasses`).
* The `*_like` constructors ignore `dtype`, refuse an explicit `order` and do not
  take the layout or USM type of their prototype; `full_like` also accepts arrays that
  its docstring excludes (`LikeError`).
* A view made by a tuple of indices has no queue, and returning it raises
  `ValueError` (`GetitemTuple`, `ReturnFails`); an array without dimensions cannot be
  unboxed (`UnboxFails`); what boxing makes is always a dpnp array.

### Deadlock

`AsyncLaunch_inorder_sync` turns off deadlock checking, because the deadlock is what
it is about, and checks a liveness property under `FairSpec`.  The run of
`ComputeFollowsData` does, because a function has been compiled and run once.  The
other specifications with an end (`DeviceKernel`, `KernelLaunch`, `KernelDispatcher`)
have a step that stutters there and only there.

### Fairness

`MemInfo!Fairness`: weak fairness of the steps that enter a call, launch and leave
it (straight-line generated code); strong fairness of `Decref` and `Return`, that
is, a jitted function ends, as otherwise its variables rightly live; weak fairness
of the device and of host tasks (the SYCL runtime has threads of its own); strong
fairness of `HostClose`, which needs the GIL, as CPython makes its holder give it
up to whoever asks.  `AsyncLaunch!Fairness` is the same for commands and waits;
a wait inside jitted code is weakly fair because it needs no GIL, a wait in Python
strongly, because it must get the GIL back.  Nothing forces a program to make
calls.  `ParforReduction` only needs the kernels to make progress.

`DeviceKernel` has weak fairness of every work item.  SYCL does not promise it for
items of one group; the repository's tests that spin on another item's store rely on
it, and `Terminates` assumes as much.  `KernelLaunch` has weak fairness of the caller,
the device and the kernels a launch depends on.  `KernelDispatcher` has weak fairness
of each thread: a waiting thread gets the compiler lock when the others are through
with their calls, as their programs are finite.

## 4. The proofs

All theorems are proved by `tlapm` from nothing.  The assumptions are the named
ones of the modules: finite sets, model values outside the sets they are not
members of, and what the constants that stand for a program's text are
(`CallAssumption`, `TypeofAssumption`, `ProgramAssumption`, `CallsAreOrdered`,
`ArgumentsAssumption`, `InputAssumption`, `ArrayAssumption`).  Hypotheses beyond these are named with their theorem below.

**MemInfoProofs** proves `Spec => []IInv` and from it `TypeOK`,
`NoDanglingReference`, `OwnerRefExact`, `KernelDataReadable` and
`BoxedDataReadable`.  None of the last three is inductive.  `IInv` adds

* `CountInv`: the count *covers* the references (`refct >= Holders`), which
  the lost decrement preserves while equality fails (`MemInfo_boxrace`);
* `ReturnInv`: a value on its way to be boxed has its reference, and between load
  and store the count can only have fallen (`tmp >= refct`), so that the store
  raises it by at least one;
* `LaunchInv`: a launch in its loop has arguments that the frame can name, a
  scheduled or failed one holds all of them while its kernel runs;
* `ClosingInv`: each destructor is run by one host task, so that an owner is
  given back once;
* `DataInv`: a live MemInfo's data is not freed.

`KernelDataReadable` then follows by cases on the launch's phase: the frame, or
the acquired references, keep the MemInfo live, and a live MemInfo keeps its owner.
The lemmas count sets: acquiring adds one element to `Tokens`, releasing takes one.

**KernelCacheProofs** proves that the cache implements the store.  The argument is
`GilInv`: only the holder of the GIL is inside a jitted function, so an empty entry
belongs to a thread that is about to build it and a thread that copies finds an
outcome.  Without the GIL (the mutant `EnterNoGil`) the refinement fails.
`HandlesExact` counts the references to a handle: those of the map's keys and one for
each launch between taking and giving back, so that each step adds or removes as many
as the code's calls do.  `TypeOK` adds to the types that no handle is deleted that does
not exist, which follows from the exact counts: it fails if a launch is given the cache's
own kernel reference instead of a copy (`CopyNothing`).

**AsyncLaunchProofs** proves `NoGilCycle` under `Disciplined`: the queue is out of
order, dependencies are device events, and dpjit functions wait for device events
only.  Then no command that a thread waits for comes after a host task
(`KernelsStep`).  The violation run drops the condition on the queue.

**ParforReductionProofs** proves, for every length and every work group size, that
items of a group are at most one round apart (`RoundInv`), and from it that there
is no race on local memory and that barriers are uniform.  `ResultExact` needs more.
The invariant (`ResultInv`) says which iterations a slot of local memory holds: a slot
that is still in use (`SlotInv`) and one that some item of the round is about to read
(`ReadInv`) hold the iterations of one class modulo the stride, each once.  A round
joins two classes into one of half the stride, which needs the stride to be even, hence
the hypothesis `PowerOfTwo(WorkGroupSize)`; the code's size is 8, and for other sizes
the tree loses iterations.  `PartialInv` and `FinalInv` carry the sums of whole groups
and of a prefix of the loop through the remainder kernel.  The other hypotheses of
`ResultCorrect`, `Start = 0` and no value before the loop, exclude what the code
certainly gets wrong (section 3).

**ComputeFollowsDataProofs** proves the four invariants of the run, for functions of
any length over any arguments.  `IInv` follows the compiler.  `ProgInv` says that
statements define arrays before they use them; `MemoryInv` which arrays exist while the
function runs; `PassInv` that what the pass has not reached is as it was typed, that it
only raises USM types and gives a result the largest of its operands; `PlainInv` that
as long as all statements are loops over arrays of one type the pass changes nothing and
chooses one device; `RunInv` that what runs was accepted by the lowering.  A refusal is
then traced to a statement that is not plain.  `ArraysShareQueue` has the hypothesis
`LikeDevice = {}`: a `*_like` call with another device is typed on that device and
allocated on its prototype's queue, which breaks the property; without such calls
memory is on the queue of its type (`SourceInv`).

**KernelLaunchProofs** proves that a launch is refused as a whole or runs the kernel once
for every index.  `LaunchInv` has the order of the phases, what has happened by each
of them, and that what comes to the queue has arrays that agree on it and a space that
was accepted.  `ItemsInv` ties the indices that have run to the items that are left: for
the device these are points of the space, for the simulator's loops over groups and
local ids they are pairs, and `SplitBijective` shows that group and local id determine
the index and reach each one (the extents are multiples of the local ones).  From it
and `LaunchInv` follow `QueueExact`, `RunsWhatWasAsked`, `TypeOK` and `LaunchesOnce`, the safety half
of the refinement of `LaunchOnce`: the initial states, and every step a step of it or a
stutter.  `RunsWhatWasAsked` and `LaunchesOnce` have the hypothesis `AskedExactly`: loops
start at 0, and no extent after the first is 0 in a range made in Python.  The run
`KernelLaunch_asked` shows what happens otherwise; the calls of the run `KernelLaunch`
satisfy it.

**KernelDispatcherProofs** proves the four invariants of the run, `TypeOK`,
`OutcomeExact`, `CodeExact` and `OverloadsJustified`, for every set of threads, functions
and programs.  The stack of a thread is a
chain of calls (`StackInv`), and by `CallsAreOrdered` no function occurs below itself
(`Distinct`).  `LockInv` counts: the lock's depth is the number of compilations on its
owner's stack and the other stacks have none, which every step keeps because acquiring,
the end of a compilation and the early exits change both by one (`Moves`).  So one
thread compiles at a time (`Exclusive`) and, with `NewInv`, what is being compiled is in
neither cache, although the lookups are made without the lock.  `CodeLinked` is the half
of `CodeExact` that is about names: compiled code has one link for each call of its
source, to the function named there and to a version of it that was compiled.  Its
invariant (`LinkInv`) is that every identity was handed out to one compilation; the entry
points then tell overloads apart whatever their qualified names are.

The rest compares what the dispatchers did with `Outcome`, a recursive function over the
calls of bodies.  `OutcomeIs`, that it satisfies the equation it is defined by, is proved
without induction: on a set of functions closed under calls a solution exists and any two
agree, because by `CallsAreOrdered` the functions where that fails would have a member
that calls none of them.  `ExactBest` and `SignedBest` say that the version for the very
types of a call is the best, and that among versions of equal price the first compiled is
the first of the signatures, as a decorator compiles them in order.  No property is
inductive alone: a frame's answer is right if its caller asked for the right thing, what
is found in a cache is right if it was put there by a right answer, and the version chosen
for a call is right if all signatures are compiled by then.  `Exact` says this with

* `PurposeInv`: a frame works for the decorator or for the call of a body that waits for
  it, or for the thread's statement; a function with signatures is compiled for its
  decorator only, and what a body calls is decorated by then;
* `DecoratedInv`: compilation is off for exactly the decorated functions with signatures,
  and a decorator that is running has not returned before;
* `JustifiedInv`: what is compiled is what `Outcome` accepts, linked as is meant, and what
  is remembered as refused has a typing error as its outcome;
* `SignedInv`: the overloads of a function with signatures are among these, all of them
  when its decorator has returned, and their identities grow in the order of signatures;
* `WorkInv`: a compilation resolved its calls so far to versions that are meant and is
  younger than its function's overloads; a decorator has compiled the signatures before
  its last;
* `AnswerInv`: what is returned to a frame is the outcome of what it asked for.

The properties then read off: a thread without frames was answered by the frame of its
last statement, and compiled code is that of a body whose calls are all linked as meant.

**ArrayDataProofs** proves the three invariants of the run, for arrays of every number of
dimensions, every extent, stride, subscript and width.  `IInv` says of each array of a
function (`Shaped`): its strides are whole items; they are the row-major or column-major
ones wherever an extent exceeds 1, if its type claims that layout; and `means` is what its
own strides compute.  Of each object of the program (`ObjectOK`): its meaning is what Python
computes.  Of an array in a filled block (`ElementsIn`): the block was filled as items of
the array's type, and the elements are whole items of it.  The steps are then lemmas of
their own:

* `UnboxOK`, `BoxOK`, `ParentOK`: strides lose and regain their unit, are dropped and
  recomputed, and an array with its argument's block, start, extents and strides has its
  argument's elements;
* `ViewOK`: a view finds the element that `Source` names (`ViewSum`), distinct places are
  distinct elements (`SourceApart`), and a view that Numba types as contiguous has the
  strides of the layout (`RowView`, `ColumnView`);
* `NewOK`: in the layouts of the constructors the elements are exactly one item apart
  (`Numbered`, `Dense`, `Within`);
* `FillHolds`: the pattern decodes to the value that was asked for, since reducing to the
  signed integers of one width and then to a narrower one is reducing once
  (`SignedAgain`).

That addresses are right (`AddressesCorrect`) needs no hypothesis.  That elements do not
overlap is proved under `ItemsApart`, which says so of the program's own arrays: dpctl can
broadcast an array over one element, and its views then overlap too.  The arguments of the
run satisfy it.

Sums, counts and least elements are reasoned about with finite sets and the theorem
that the order of the naturals is well founded, as the provers have no induction over
an operator.

Model-checked only:

* liveness (`EventuallyFreed`, `WaitReturns`, `ArgumentsReleased`, `Terminates`,
  `EveryCallReturns`, and in `ImplementsLaunchOnce` that a call is answered), which is out
  of the prover's reach;
* `AnswersExact` and `ArgumentsExact` of `KernelLaunch`: what items are told and what
  the wrapper packs again are computed by recursive functions over lists of any length;
* `DeviceKernel`: `AtomicOps` computes on bits with the module `Bitwise`, which the
  prover cannot use.

## 5. Not modelled

* Code generation: LLVM IR, SPIR-V, IR rewriting.  The models take what the
  generated code does.
* Tables of ufuncs and math functions, configuration, diagnostics: no state.
* numba, dpctl, dpnp, SYCL and CPython are external.  Their part in a model is what
  the code relies on, and is marked external in the map.
* Boxing of queues and events, and `make_queue`, which leaks a reference on a cached
  Python queue for each call of a constructor without a queue.
* `dpjit(nogil=True)`.  The decorator passes the option on to Numba, and a function
  compiled with it runs without the GIL; no test or doc of the repository does so.  The
  models have Numba's default.  `BuildsOnce` rests on it: `EnterNoGil` is what the option
  would do to the cache, and breaks the refinement.
* `CAPTURED_ERRORS = "new_style"`, which `test_exec_queue_inference.py:38` sets to let an
  `ExecutionQueueInferenceError` pass through `call_kernel` unchanged.  `KernelDispatcher`
  has "old_style", with which every error of a callee is a typing error of its caller.
* Unification of two array types, which drops the queue and keeps the device
  (`usm_ndarray_type.py:157`): a variable would have to have two array types at a join,
  and the functions of `ComputeFollowsData` are straight lines.
* The restoring of the lowerer's type map when a parfor's lowering raises
  (`parfor_lowerer.py:312`): Numba gives up the lowerer of a function that failed.
* Name mangling, a function from strings to strings.
* `bool` arrays, writes of single elements and slices with a negative step in a dpjit
  function; the default element type is that of a device with 64-bit floats.

## 6. Plan

Models of control flow in `ComputeFollowsData`, with the unification of array types.
