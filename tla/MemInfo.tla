------------------------------ MODULE MemInfo ------------------------------
(***************************************************************************)
(* Lifetime of the NRT_MemInfo objects that the dpjit runtime puts around  *)
(* USM memory (core/runtime/_dpexrt_python.c, _nrt_helper.c,               *)
(* experimental/nrt_reserve_meminfo.cpp).                                  *)
(*                                                                         *)
(* Two kinds of thread act.  The main thread runs Python code, calls a     *)
(* dpjit function (unbox the arguments, run the body, release the          *)
(* arguments, box the result) and holds the GIL during the whole call.     *)
(* The SYCL runtime finishes kernels and runs the host tasks that release  *)
(* the arguments of asynchronous launches.                                 *)
(***************************************************************************)
EXTENDS Integers, FiniteSets

CONSTANTS Mem,          \* the MemInfo objects a program may create
          Obj,          \* dpnp.ndarray objects of the Python program
          Launch,       \* kernel launches
          Pos,          \* argument positions of a launch, 1..n
          MaxLocal,     \* bound: references a jitted frame keeps on one MemInfo
          FillMayFail,  \* are fills of unsupported item types among the inputs?
          NoMem, NoObj

ASSUME MemAssumption ==
  /\ IsFiniteSet(Mem) /\ NoMem \notin Mem
  /\ NoObj \notin Obj
  /\ IsFiniteSet(Launch)
  /\ Pos \subseteq Nat /\ IsFiniteSet(Pos)
  /\ MaxLocal \in Nat \ {0}
  /\ FillMayFail \in BOOLEAN

VARIABLES
  pc,      \* where the main thread is
  status,  \* each MemInfo: unused, live, closing (its dtor runs), gone
  refct,   \* MemInfo.refct
  owner,   \* MemInfoDtorInfo.owner
  data,    \* the block behind MemInfo.data: none, usm (ours), python, freed
  queue,   \* the queue copy in external_allocator->opaque_data
  args,    \* MemInfos the call wrapper holds for the unboxed arguments
  local,   \* references held by variables of the jitted frame
  lost,    \* references nobody will release any more
  wrap,    \* MemInfoObject wrappers around a MemInfo; they are never deallocated
  pybox,   \* arrays boxed from a MemInfo that the Python program still holds
  retv,    \* MemInfo of the array being returned
  tmp,     \* value loaded by the non-atomic refct++ of the boxing code
  cur,     \* the launch the main thread is working on, as a set
  lpc,     \* each launch: idle, sync, acquire, scheduled, failed
  kern,    \* its kernel on the device: none, running, done
  larg,    \* its arguments
  held,    \* argument positions it has acquired and not yet released
  closing, \* MemInfo whose dtor its host task is running
  user,    \* references the Python program holds on an object
  pyref    \* ob_refcnt of an object

heap == <<status, refct, owner, data, queue>>
frame == <<args, local, lost, wrap, retv, tmp>>
launches == <<cur, lpc, kern, larg, held, closing>>
python == <<pybox, user, pyref>>
vars == <<pc, heap, frame, launches, python>>

----------------------------------------------------------------------------
(* References and what they keep alive *)

\* References on m that launches have acquired and not released.
Tokens(m) == {t \in Launch \X Pos : t[2] \in held[t[1]] /\ larg[t[1]][t[2]] = m}

ArgRef(m) == IF m \in args THEN 1 ELSE 0

\* Every reference on m that exists.
Holders(m) == ArgRef(m) + local[m] + lost[m] + wrap[m] + Cardinality(Tokens(m))

\* The MemInfos whose dtor will still decref object o.
Keeping(o) == {m \in Mem : owner[m] = o /\ status[m] \in {"live", "closing"}}

\* MemInfos the code of the jitted frame can name.
Reachable == {m \in Mem : m \in args \/ local[m] > 0}

\* i is the first position in S.
First(i, S) == i \in S /\ \A j \in S : i <= j

\* A second delete of the same DPCTLSyclQueueRef is recorded as "double".
Deleted(q) == IF q = "open" THEN "deleted" ELSE "double"

----------------------------------------------------------------------------
(* NRT_MemInfo_release and the destructor *)

\* Faulty: the dtor and the allocator's free function both delete the queue copy.
CloseQueueTwice(m) ==
  /\ data' = IF owner[m] = NoObj THEN [data EXCEPT ![m] = "freed"] ELSE data
  /\ queue' = [queue EXCEPT ![m] = Deleted(Deleted(@))]

\* usmndarray_meminfo_dtor up to the owner: free data nobody else owns, delete
\* the queue copy, free the external allocator.
CloseData(m) ==
  /\ data' = IF owner[m] = NoObj THEN [data EXCEPT ![m] = "freed"] ELSE data
  /\ queue' = [queue EXCEPT ![m] = Deleted(@)]

\* Faulty: the dtor forgets its owner.
KeepOwner(m) == pyref' = IF owner[m] = NoObj THEN pyref ELSE pyref

\* The rest of the dtor: decref the owner (the GIL is held), free the MemInfo.
DropOwner(m) ==
  pyref' = IF owner[m] = NoObj THEN pyref ELSE [pyref EXCEPT ![owner[m]] = @ - 1]

\* A release by the main thread: it holds the GIL, so that the dtor completes.
Release(m) ==
  /\ refct' = [refct EXCEPT ![m] = @ - 1]
  /\ IF refct[m] = 1
     THEN /\ status' = [status EXCEPT ![m] = "gone"]
          /\ CloseData(m)
          /\ DropOwner(m)
     ELSE UNCHANGED <<status, data, queue, pyref>>
  /\ UNCHANGED <<owner>>

----------------------------------------------------------------------------
(* The Python program and the entry of a jitted call *)

Call ==
  /\ pc = "python"
  /\ pc' = "unbox"
  /\ UNCHANGED <<heap, frame, launches, python>>

UserDrop(o) ==
  /\ pc = "python"
  /\ user[o] > 0
  /\ user' = [user EXCEPT ![o] = @ - 1]
  /\ pyref' = [pyref EXCEPT ![o] = @ - 1]
  /\ UNCHANGED <<pc, heap, frame, launches, pybox>>

\* Dropping a boxed array drops dpnp_ary only: the references on usm_ndarr_obj
\* and on miobj were never given back, so that MemInfo_dealloc does not run.
BoxDrop(m) ==
  /\ pc = "python"
  /\ pybox[m] > 0
  /\ pybox' = [pybox EXCEPT ![m] = @ - 1]
  /\ UNCHANGED <<pc, heap, frame, launches, user, pyref>>

\* Faulty: the array object is borrowed (no Py_IncRef).
UnboxBorrowed(o, m) ==
  /\ pc = "unbox"
  /\ user[o] > 0
  /\ status[m] = "unused"
  /\ status' = [status EXCEPT ![m] = "live"]
  /\ refct' = [refct EXCEPT ![m] = 1]
  /\ owner' = [owner EXCEPT ![m] = o]
  /\ data' = [data EXCEPT ![m] = "python"]
  /\ queue' = [queue EXCEPT ![m] = "open"]
  /\ args' = args \cup {m}
  /\ UNCHANGED <<pc, local, lost, wrap, retv, tmp, launches, python>>

\* DPEXRT_sycl_usm_ndarray_from_python: a MemInfo with o as the owner.
Unbox(o, m) ==
  /\ pc = "unbox"
  /\ user[o] > 0
  /\ status[m] = "unused"
  /\ status' = [status EXCEPT ![m] = "live"]
  /\ refct' = [refct EXCEPT ![m] = 1]
  /\ owner' = [owner EXCEPT ![m] = o]
  /\ data' = [data EXCEPT ![m] = "python"]
  /\ queue' = [queue EXCEPT ![m] = "open"]
  /\ args' = args \cup {m}
  /\ pyref' = [pyref EXCEPT ![o] = @ + 1]
  /\ UNCHANGED <<pc, local, lost, wrap, retv, tmp, launches, pybox, user>>

\* The argument is no array of rank > 0: nothing was created.
UnboxFail ==
  /\ pc = "unbox"
  /\ pc' = "cleanup"
  /\ UNCHANGED <<heap, frame, launches, python>>

\* NRT_MemInfo_new_from_usmndarray failed: the MemInfo is freed, but the queue
\* copy that UsmNDArray_GetQueueRef made is not deleted.
UnboxFailNew(o, m) ==
  /\ pc = "unbox"
  /\ user[o] > 0
  /\ status[m] = "unused"
  /\ status' = [status EXCEPT ![m] = "gone"]
  /\ queue' = [queue EXCEPT ![m] = "open"]
  /\ pc' = "cleanup"
  /\ UNCHANGED <<refct, owner, data, frame, launches, python>>

EnterBody ==
  /\ pc = "unbox"
  /\ pc' = "body"
  /\ UNCHANGED <<heap, frame, launches, python>>

----------------------------------------------------------------------------
(* The body of the jitted function *)

\* A variable is bound to an array it shares a MemInfo with, or goes dead.
Incref(m) ==
  /\ pc = "body"
  /\ m \in Reachable
  /\ local[m] < MaxLocal
  /\ refct' = [refct EXCEPT ![m] = @ + 1]
  /\ local' = [local EXCEPT ![m] = @ + 1]
  /\ UNCHANGED <<pc, status, owner, data, queue, args, lost, wrap, retv, tmp,
                 launches, python>>

Decref(m) ==
  /\ pc = "body"
  /\ local[m] > 0
  /\ local' = [local EXCEPT ![m] = @ - 1]
  /\ Release(m)
  /\ UNCHANGED <<pc, args, lost, wrap, retv, tmp, launches, pybox, user>>

\* DPEXRT_MemInfo_alloc, with a fill that succeeds if there is one.
Alloc(m) ==
  /\ pc = "body"
  /\ status[m] = "unused"
  /\ status' = [status EXCEPT ![m] = "live"]
  /\ refct' = [refct EXCEPT ![m] = 1]
  /\ data' = [data EXCEPT ![m] = "usm"]
  /\ queue' = [queue EXCEPT ![m] = "open"]
  /\ local' = [local EXCEPT ![m] = 1]
  /\ UNCHANGED <<pc, owner, args, lost, wrap, retv, tmp, launches, python>>

\* An exception leaves the body: numba does not release the frame's variables.
Abandon(refs) ==
  /\ pc' = "cleanup"
  /\ lost' = [m \in Mem |-> lost[m] + refs[m]]
  /\ local' = [m \in Mem |-> 0]
  /\ UNCHANGED <<args, wrap, retv, tmp, launches, python>>

Raise ==
  /\ pc = "body"
  /\ Abandon(local)
  /\ UNCHANGED heap

\* The allocation failed: mi, ext_alloca and midtor_info are freed, the queue
\* copy is not, and the caller raises MemoryError.
AllocFail(m) ==
  /\ pc = "body"
  /\ status[m] = "unused"
  /\ status' = [status EXCEPT ![m] = "gone"]
  /\ queue' = [queue EXCEPT ![m] = "open"]
  /\ Abandon(local)
  /\ UNCHANGED <<refct, owner, data>>

\* zeros_like, full_like, ...: m was allocated on the queue of array src, whose
\* item type DPEXRT_MemInfo_fill does not support. Its error path deletes the
\* queue it was passed, the one of src, and MemoryError is raised.
FillFail(m, src) ==
  /\ FillMayFail
  /\ pc = "body"
  /\ status[m] = "unused"
  /\ src \in Reachable
  /\ status' = [status EXCEPT ![m] = "live"]
  /\ refct' = [refct EXCEPT ![m] = 1]
  /\ data' = [data EXCEPT ![m] = "usm"]
  /\ queue' = [queue EXCEPT ![m] = "open", ![src] = Deleted(@)]
  /\ Abandon([local EXCEPT ![m] = 1])
  /\ UNCHANGED owner

\* Faulty: the body returns an array it holds no reference on.
ReturnBorrowed(m) ==
  /\ pc = "body"
  /\ \A other \in Mem \ {m} : local[other] = 0
  /\ retv' = m
  /\ pc' = "cleanup"
  /\ UNCHANGED <<heap, args, local, lost, wrap, tmp, launches, python>>

\* The body returns an array it holds one reference on, or none.
Return(m) ==
  /\ pc = "body"
  /\ m \in Mem => local[m] = 1
  /\ \A other \in Mem \ {m} : local[other] = 0
  /\ retv' = m
  /\ pc' = "cleanup"
  /\ UNCHANGED <<heap, args, local, lost, wrap, tmp, launches, python>>

----------------------------------------------------------------------------
(* The wrapper: release the arguments, box the result *)

Cleanup(m) ==
  /\ pc = "cleanup"
  /\ m \in args
  /\ args' = args \ {m}
  /\ Release(m)
  /\ UNCHANGED <<pc, local, lost, wrap, retv, tmp, launches, pybox, user>>

CleanupDone ==
  /\ pc = "cleanup"
  /\ args = {}
  /\ pc' = IF retv = NoMem THEN "python" ELSE "box"
  /\ UNCHANGED <<heap, frame, launches, python>>

\* box_from_arystruct_parent found data, rank, shape and strides unchanged.
BoxParent ==
  /\ pc = "box"
  /\ owner[retv] # NoObj
  /\ user' = [user EXCEPT ![owner[retv]] = @ + 1]
  /\ pyref' = [pyref EXCEPT ![owner[retv]] = @ + 1]
  /\ pc' = "boxed"
  /\ UNCHANGED <<heap, frame, launches, pybox>>

\* No parent, or another view of its data: NRT_MemInfo_acquire in the dpexrt
\* copy of struct MemInfo, where refct is a plain size_t: a load and a store.
BoxLoad ==
  /\ pc = "box"
  /\ tmp' = refct[retv]
  /\ pc' = "store"
  /\ UNCHANGED <<heap, args, local, lost, wrap, retv, launches, python>>

\* Faulty: the MemInfo is wrapped without being acquired.
BoxStoreNoAcquire(ok) ==
  /\ pc = "store"
  /\ wrap' = [wrap EXCEPT ![retv] = @ + 1]
  /\ pybox' = IF ok THEN [pybox EXCEPT ![retv] = @ + 1] ELSE pybox
  /\ tmp' = 0
  /\ pc' = "boxed"
  /\ UNCHANGED <<heap, args, local, lost, retv, launches, user, pyref>>

\* The array object is created (ok), or one of the later steps fails; the
\* MemInfoObject exists in both cases and nobody deallocates it.
BoxStore(ok) ==
  /\ pc = "store"
  /\ refct' = [refct EXCEPT ![retv] = tmp + 1]
  /\ wrap' = [wrap EXCEPT ![retv] = @ + 1]
  /\ pybox' = IF ok THEN [pybox EXCEPT ![retv] = @ + 1] ELSE pybox
  /\ tmp' = 0
  /\ pc' = "boxed"
  /\ UNCHANGED <<status, owner, data, queue, args, local, lost, retv, launches,
                 user, pyref>>

\* box_array decrefs the native array.
BoxDone ==
  /\ pc = "boxed"
  /\ local' = [local EXCEPT ![retv] = @ - 1]
  /\ Release(retv)
  /\ retv' = NoMem
  /\ pc' = "python"
  /\ UNCHANGED <<args, lost, wrap, tmp, launches, pybox, user>>

----------------------------------------------------------------------------
(* Kernel launches *)

\* The kernel goes to the device before any argument is acquired.
Submit(l, f, mode) ==
  /\ pc = "body"
  /\ lpc[l] = "idle"
  /\ \A i \in Pos : f[i] \in Reachable
  /\ larg' = [larg EXCEPT ![l] = f]
  /\ kern' = [kern EXCEPT ![l] = "running"]
  /\ lpc' = [lpc EXCEPT ![l] = mode]
  /\ cur' = {l}
  /\ pc' = "launch"
  /\ UNCHANGED <<heap, frame, held, closing, python>>

\* call_kernel: wait for the device event.
SyncDone(l) ==
  /\ pc = "launch" /\ l \in cur
  /\ lpc[l] = "sync"
  /\ kern[l] = "done"
  /\ cur' = {}
  /\ pc' = "body"
  /\ UNCHANGED <<heap, frame, lpc, kern, larg, held, closing, python>>

\* One iteration of the nrt->acquire loop.
Acquire(l, i, m) ==
  /\ pc = "launch" /\ l \in cur
  /\ lpc[l] = "acquire"
  /\ First(i, Pos \ held[l]) /\ m = larg[l][i]
  /\ held' = [held EXCEPT ![l] = @ \cup {i}]
  /\ refct' = [refct EXCEPT ![m] = @ + 1]
  /\ UNCHANGED <<pc, status, owner, data, queue, frame, cur, lpc, kern, larg,
                 closing, python>>

\* q->submit of the host task succeeds, or throws: then the references stay
\* acquired, and the caller does not look at the status.
Schedule(l, ok) ==
  /\ pc = "launch" /\ l \in cur
  /\ lpc[l] = "acquire"
  /\ held[l] = Pos
  /\ lpc' = [lpc EXCEPT ![l] = IF ok THEN "scheduled" ELSE "failed"]
  /\ cur' = {}
  /\ pc' = "body"
  /\ UNCHANGED <<heap, frame, kern, larg, held, closing, python>>

KernelDone(l) ==
  /\ kern[l] = "running"
  /\ kern' = [kern EXCEPT ![l] = "done"]
  /\ UNCHANGED <<pc, heap, frame, cur, lpc, larg, held, closing, python>>

\* Faulty: the host task does not depend on the kernel's event.
HostReleaseEarly(l, i, m) ==
  /\ lpc[l] = "scheduled"
  /\ closing[l] = NoMem
  /\ First(i, held[l]) /\ m = larg[l][i]
  /\ held' = [held EXCEPT ![l] = @ \ {i}]
  /\ refct' = [refct EXCEPT ![m] = @ - 1]
  /\ IF refct[m] = 1
     THEN /\ status' = [status EXCEPT ![m] = "closing"]
          /\ closing' = [closing EXCEPT ![l] = m]
          /\ CloseData(m)
     ELSE UNCHANGED <<status, closing, data, queue>>
  /\ UNCHANGED <<pc, owner, frame, cur, lpc, kern, larg, python>>

\* Faulty: the host task forgets all arguments but the last one.
HostReleaseLast(l, i, m) ==
  /\ \A j \in held[l] : j <= i
  /\ lpc[l] = "scheduled" /\ kern[l] = "done" /\ closing[l] = NoMem
  /\ i \in held[l] /\ m = larg[l][i]
  /\ held' = [held EXCEPT ![l] = {}]
  /\ refct' = [refct EXCEPT ![m] = @ - 1]
  /\ IF refct[m] = 1
     THEN /\ status' = [status EXCEPT ![m] = "closing"]
          /\ closing' = [closing EXCEPT ![l] = m]
          /\ CloseData(m)
     ELSE UNCHANGED <<status, closing, data, queue>>
  /\ UNCHANGED <<pc, owner, frame, cur, lpc, kern, larg, python>>

\* The host task, which depends on the kernel's event, releases its arguments
\* in order. A release that drops the count to zero enters the destructor.
HostRelease(l, i, m) ==
  /\ lpc[l] = "scheduled"
  /\ kern[l] = "done"
  /\ closing[l] = NoMem
  /\ First(i, held[l]) /\ m = larg[l][i]
  /\ held' = [held EXCEPT ![l] = @ \ {i}]
  /\ refct' = [refct EXCEPT ![m] = @ - 1]
  /\ IF refct[m] = 1
     THEN /\ status' = [status EXCEPT ![m] = "closing"]
          /\ closing' = [closing EXCEPT ![l] = m]
          /\ CloseData(m)
     ELSE UNCHANGED <<status, closing, data, queue>>
  /\ UNCHANGED <<pc, owner, frame, cur, lpc, kern, larg, python>>

\* The end of that destructor needs the GIL if there is an owner to decref.
HostClose(l) ==
  /\ closing[l] # NoMem
  /\ owner[closing[l]] # NoObj => pc = "python"
  /\ status' = [status EXCEPT ![closing[l]] = "gone"]
  /\ DropOwner(closing[l])
  /\ closing' = [closing EXCEPT ![l] = NoMem]
  /\ UNCHANGED <<pc, refct, owner, data, queue, frame, cur, lpc, kern, larg,
                 held, pybox, user>>

----------------------------------------------------------------------------
Init ==
  /\ pc = "python"
  /\ status = [m \in Mem |-> "unused"]
  /\ refct = [m \in Mem |-> 0]
  /\ owner = [m \in Mem |-> NoObj]
  /\ data = [m \in Mem |-> "none"]
  /\ queue = [m \in Mem |-> "none"]
  /\ args = {}
  /\ local = [m \in Mem |-> 0]
  /\ lost = [m \in Mem |-> 0]
  /\ wrap = [m \in Mem |-> 0]
  /\ pybox = [m \in Mem |-> 0]
  /\ retv = NoMem
  /\ tmp = 0
  /\ cur = {}
  /\ lpc = [l \in Launch |-> "idle"]
  /\ kern = [l \in Launch |-> "none"]
  /\ larg = [l \in Launch |-> [i \in Pos |-> NoMem]]
  /\ held = [l \in Launch |-> {}]
  /\ closing = [l \in Launch |-> NoMem]
  /\ user = [o \in Obj |-> 1]
  /\ pyref = [o \in Obj |-> 1]

MainEntry ==
  \/ Call \/ UnboxFail \/ EnterBody
  \/ \E o \in Obj : UserDrop(o)
  \/ \E m \in Mem : BoxDrop(m)
  \/ \E o \in Obj, m \in Mem : Unbox(o, m) \/ UnboxFailNew(o, m)

MainBody ==
  \/ Raise
  \/ \E m \in Mem : Incref(m) \/ Decref(m) \/ Alloc(m) \/ AllocFail(m)
  \/ \E m, src \in Mem : FillFail(m, src)
  \/ \E m \in Mem \cup {NoMem} : Return(m)
  \/ \E l \in Launch, f \in [Pos -> Mem], mode \in {"sync", "acquire"} :
       Submit(l, f, mode)

MainLaunch ==
  \E l \in Launch :
    \/ SyncDone(l)
    \/ \E i \in Pos, m \in Mem : Acquire(l, i, m)
    \/ \E ok \in BOOLEAN : Schedule(l, ok)

MainExit ==
  \/ CleanupDone \/ BoxParent \/ BoxLoad \/ BoxDone
  \/ \E m \in Mem : Cleanup(m)
  \/ \E ok \in BOOLEAN : BoxStore(ok)

HostTask(l) == \E i \in Pos, m \in Mem : HostRelease(l, i, m)

Device == \E l \in Launch : KernelDone(l) \/ HostTask(l) \/ HostClose(l)

Next == MainEntry \/ MainBody \/ MainLaunch \/ MainExit \/ Device

Spec == Init /\ [][Next]_vars

----------------------------------------------------------------------------
(* Properties *)

\* Every variable keeps its type; a live MemInfo is one with refct > 0, and only
\* MemInfos made from an array object have an owner.
TypeOK ==
  /\ pc \in {"python", "unbox", "body", "launch", "cleanup", "box", "store", "boxed"}
  /\ status \in [Mem -> {"unused", "live", "closing", "gone"}]
  /\ refct \in [Mem -> Nat]
  /\ owner \in [Mem -> Obj \cup {NoObj}]
  /\ data \in [Mem -> {"none", "usm", "python", "freed"}]
  /\ queue \in [Mem -> {"none", "open", "deleted", "double"}]
  /\ args \subseteq Mem
  /\ local \in [Mem -> Nat] /\ lost \in [Mem -> Nat]
  /\ wrap \in [Mem -> Nat] /\ pybox \in [Mem -> Nat]
  /\ retv \in Mem \cup {NoMem}
  /\ tmp \in Nat
  /\ cur \subseteq Launch
  /\ lpc \in [Launch -> {"idle", "sync", "acquire", "scheduled", "failed"}]
  /\ kern \in [Launch -> {"none", "running", "done"}]
  /\ larg \in [Launch -> [Pos -> Mem \cup {NoMem}]]
  /\ held \in [Launch -> SUBSET Pos]
  /\ closing \in [Launch -> Mem \cup {NoMem}]
  /\ user \in [Obj -> Nat] /\ pyref \in [Obj -> Int]

\* No reference outlives its MemInfo: whatever the jitted frame, a wrapper, a
\* boxed array or a host task still refers to has not been destroyed, although
\* the refct++ of the boxing code races with the releases of host tasks.
NoDanglingReference == \A m \in Mem : Holders(m) > 0 => status[m] = "live"

\* The block behind m can be read: its own allocation is not freed, and an
\* array object it was unboxed from is not deallocated.
Readable(m) ==
  /\ status[m] = "live"
  /\ data[m] # "freed"
  /\ owner[m] # NoObj => pyref[owner[m]] > 0

\* A kernel on the device only sees memory that is still there: the arguments
\* of an asynchronous launch survive the return of the jitted function, the
\* end of every other use and the program's own references.
KernelDataReadable ==
  \A l \in Launch : kern[l] = "running" => \A i \in Pos : Readable(larg[l][i])

\* The array objects that boxing made from a MemInfo never lose their memory.
BoxedDataReadable == \A m \in Mem : pybox[m] > 0 => Readable(m)

\* The reference count of an array object is what the program holds plus one
\* for each MemInfo whose dtor has yet to give its owner back, neither more (a
\* leak of the user's array) nor less (a premature deallocation).
OwnerRefExact ==
  \A o \in Obj : pyref[o] = user[o] + Cardinality(Keeping(o))

\* The count says how many references there are whenever the boxing code is
\* not between its load and its store.
RefctExact ==
  pc # "store" => \A m \in Mem : status[m] = "live" => refct[m] = Holders(m)

\* References nobody releases: an exception's, a boxed array's, those of a
\* launch whose host task could not be submitted.
Pinned(m) ==
  \/ lost[m] > 0 \/ wrap[m] > 0
  \/ \E l \in Launch : lpc[l] = "failed" /\ \E i \in Pos : larg[l][i] = m

\* Every other MemInfo is destroyed in the end, with its host tasks and the GIL
\* they need competing with further calls of the main thread.
EventuallyFreed ==
  \A m \in Mem : status[m] = "live" ~> (status[m] = "gone" \/ Pinned(m))

----------------------------------------------------------------------------
(* The inductive invariant behind the safety properties *)

\* The count covers every reference, a MemInfo that is not live has none, and
\* each boxed array the program holds has its wrapper.
Counted(m) ==
  /\ status[m] = "live" => refct[m] >= 1 /\ refct[m] >= Holders(m)
  /\ status[m] # "live" => Holders(m) = 0
  /\ pybox[m] <= wrap[m]

CountInv == \A m \in Mem : Counted(m)

\* The array being returned has its reference until it is boxed; between the
\* load and the store of the boxing code the count can only have dropped.
ReturnInv ==
  /\ pc \in {"python", "unbox", "body", "launch"} => retv = NoMem
  /\ pc \in {"box", "store", "boxed"} => retv \in Mem
  /\ retv # NoMem => local[retv] >= 1
  /\ pc = "store" => tmp >= refct[retv]

\* What a launch holds in each of its phases.
LaunchInv ==
  /\ cur # {} => pc = "launch"
  /\ \A k, l \in cur : k = l
  /\ \A l \in Launch :
       /\ lpc[l] = "idle" => held[l] = {} /\ kern[l] = "none"
       /\ lpc[l] # "idle" => larg[l] \in [Pos -> Mem]
       /\ lpc[l] = "sync" => held[l] = {}
       /\ lpc[l] = "acquire" => l \in cur
       /\ lpc[l] = "sync" /\ kern[l] = "running" => l \in cur
       /\ l \in cur => /\ lpc[l] \in {"sync", "acquire"}
                       /\ \A i \in Pos : larg[l][i] \in Reachable
       /\ lpc[l] = "scheduled" /\ kern[l] = "running" => held[l] = Pos
       /\ lpc[l] = "failed" => held[l] = Pos

\* A host task in a destructor is the only one in it.
ClosingInv ==
  \A l \in Launch : closing[l] # NoMem =>
    /\ status[closing[l]] = "closing"
    /\ \A k \in Launch : closing[k] = closing[l] => k = l

DataInv ==
  \A m \in Mem : /\ status[m] = "live" => data[m] # "freed"
                 /\ status[m] = "unused" => owner[m] = NoObj

IInv ==
  TypeOK /\ CountInv /\ ReturnInv /\ LaunchInv /\ ClosingInv /\ DataInv /\ OwnerRefExact

----------------------------------------------------------------------------
(* Fairness.  The jitted function terminates: every step of entering and
   leaving a call is taken, the body drops each of its variables and returns.
   The device finishes kernels and the SYCL runtime runs host tasks.  A host
   task that waits for the GIL gets it although the main thread keeps entering
   jitted calls: CPython makes the holder drop the GIL on request between two
   calls.                                                                  *)
Fairness ==
  /\ WF_vars(EnterBody) /\ WF_vars(MainLaunch) /\ WF_vars(MainExit)
  /\ \A m \in Mem : SF_vars(Decref(m))
  /\ SF_vars(\E m \in Mem \cup {NoMem} : Return(m))
  /\ \A l \in Launch :
       WF_vars(KernelDone(l)) /\ WF_vars(HostTask(l)) /\ SF_vars(HostClose(l))

FairSpec == Spec /\ Fairness
============================================================================
