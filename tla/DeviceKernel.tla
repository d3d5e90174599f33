---------------------------- MODULE DeviceKernel ----------------------------
(***************************************************************************)
(* The work items of one kernel, from its compilation to its end: plain    *)
(* accesses to arrays, atomic references, fences and group barriers, as    *)
(* kernel_api_impl/spirv/overloads lowers them, run by the items in any    *)
(* order.                                                                  *)
(*                                                                         *)
(* The device's memory is external and modelled as SPIR-V defines it.  A   *)
(* cell keeps the history of its values.  Every item has, for each class   *)
(* of memory, a clock: how far the other items' accesses happen before its *)
(* next one.  A release attaches the clock to the value it writes, an      *)
(* acquire that reads the value joins it, each for the memory named by its *)
(* semantics and between items inside both scopes.  A read that is not     *)
(* synchronised may still return an older value.  Sequential consistency   *)
(* is taken for an acquire and a release.                                  *)
(***************************************************************************)
EXTENDS AtomicOps, FiniteSetsExt, SequencesExt

CONSTANTS
  Kernels,  \* [items, group, sub, global, local, private, code, promise]: the
            \* items, their work and sub groups, the first value of every global
            \* address, the size of a group's local memory and of an item's
            \* private memory, the code of each item, the promised final values
  Garbage,  \* what memory that nothing has initialised may hold
  Regs,     \* the names of an item's local variables
  MaxItems  \* a kernel has at most so many items

ASSUME KernelAssumption ==
  /\ MaxItems \in Nat
  /\ \A k \in Kernels : k.items = 1 .. Len(k.code) /\ Len(k.code) <= MaxItems

Classes == {"global", "local"}

VARIABLES
  kernel,   \* the kernel that was called
  phase,    \* compile, run, or the error that the compilation raised
  pc,       \* item -> position in its code
  reg,      \* item -> its local variables
  hist,     \* cell -> the values written to it, oldest first
  reads,    \* cell -> item -> the item's time of its last plain read
  clock,    \* item -> class of memory -> item -> time known to it
  fenced,   \* item -> what its last release fence released
  pending   \* item -> what it read and no acquire fence has joined yet

vars == <<kernel, phase, pc, reg, hist, reads, clock, fenced, pending>>
sync == <<clock, fenced, pending>>

Item == kernel.items
Code(w) == kernel.code[w]
Instr(w) == Code(w)[pc[w]]
Running(w) == phase = "run" /\ pc[w] <= Len(Code(w))
At(w, ops) == Running(w) /\ Instr(w).op \in ops

\* A cell is an address of global memory, one of a group's local memory, or one
\* of an item's private memory.
Cell(space, address, w) ==
  <<space, CASE space = "global" -> 0 [] space = "local" -> kernel.group[w]
             [] space = "private" -> w, address>>
Space(c) == c[1]
RefCell(w) ==
  LET r == Instr(w).ref IN Cell(r.arr.space, ItemPointer(r.arr, r.index), w)
ExpectedCell(w) ==
  LET i == Instr(w)
  IN  Cell(i.expected.space, ExpectedPointer(i.expected, i.idx), w)
PlainCell(w) ==
  LET i == Instr(w) IN Cell(i.arr.space, ItemPointer(i.arr, i.index), w)

\* The value of an expression: a constant and a sum of local variables.
Eval(w, e) == e.c + MapThenSumSet(LAMBDA r : reg[w][r], e.regs)

----------------------------------------------------------------------------
(* SPIR-V scopes, clocks and histories (external) *)

Inclusive(u, w, scope) ==
  CASE scope = "INVOCATION" -> u = w
    [] scope = "SUBGROUP" -> kernel.sub[u] = kernel.sub[w]
    [] scope = "WORKGROUP" -> kernel.group[u] = kernel.group[w]
    [] scope \in {"DEVICE", "CROSS_DEVICE"} -> TRUE

Releases(mask) ==
  mask \cap {"RELEASE", "ACQUIRE_RELEASE", "SEQUENTIALLY_CONSISTENT"} # {}
Acquires(mask) ==
  mask \cap {"ACQUIRE", "ACQUIRE_RELEASE", "SEQUENTIALLY_CONSISTENT"} # {}
ClassesOf(mask) ==
  {s \in Classes : \/ s = "global" /\ "CROSS_WORKGROUP_MEMORY" \in mask
                   \/ s = "local" /\ "WORKGROUP_MEMORY" \in mask}

Larger(a, b) == IF a < b THEN b ELSE a
Join(k1, k2) == [s \in Classes |-> [u \in Item |-> Larger(k1[s][u], k2[s][u])]]
Never == [s \in Classes |-> [u \in Item |-> 0]]
OnClasses(k, S) == [s \in Classes |-> IF s \in S THEN k[s] ELSE Never[s]]
JoinAll(k, S) == FoldSet(Join, k, S)

Now(w) == clock[w]["global"][w]
Ticked(w) == [s \in Classes |-> [clock[w][s] EXCEPT ![w] = @ + 1]]

\* Is an access of item u at time t to a cell known to item w?
Known(w, u, t, c) == t = 0 \/ u = w \/ t <= clock[w][Space(c)][u]

\* The values item w may read: none that it knows to be overwritten.
Visible(w, c) ==
  LET known == {k \in DOMAIN hist[c] : Known(w, hist[c][k].by, hist[c][k].at, c)}
  IN  {k \in DOMAIN hist[c] : \A n \in known : n <= k}

\* A read-modify-write takes the newest value, unless the scopes exclude it.
Modifiable(w, c, scope) ==
  IF \A k \in DOMAIN hist[c] :
       hist[c][k].at = 0 \/ Inclusive(hist[c][k].by, w, scope)
  THEN {Len(hist[c])} ELSE Visible(w, c)

\* What a write of item w with this scope and mask releases.
Released(w, scope, mask) ==
  fenced[w] \cup
    (IF Releases(mask)
     THEN {[by |-> w, scope |-> scope,
            clock |-> OnClasses(Ticked(w), ClassesOf(mask))]}
     ELSE {})

\* What item w takes from what a value m carries, reading it in this scope.
Received(w, m, scope) ==
  {r \in m.released : /\ Inclusive(r.by, w, r.scope)
                      /\ Inclusive(m.by, w, m.scope)
                      /\ Inclusive(m.by, w, scope)}

\* Item w reads value m: an acquire joins the clocks, another read keeps them
\* for a fence.
Acquire(w, m, scope, mask) ==
  LET got == Received(w, m, scope)
  IN  IF Acquires(mask)
      THEN /\ clock' = [clock EXCEPT ![w] =
                          JoinAll(Ticked(w), {OnClasses(r.clock, ClassesOf(mask))
                                                : r \in got})]
           /\ UNCHANGED pending
      ELSE /\ clock' = [clock EXCEPT ![w] = Ticked(w)]
           /\ pending' = [pending EXCEPT ![w] = @ \cup got]

Message(w, val, atomic, scope, released) ==
  [val |-> val, by |-> w, at |-> Now(w) + 1, atomic |-> atomic,
   scope |-> scope, released |-> released]

Next1(w) == pc' = [pc EXCEPT ![w] = @ + 1]
Assign(w, r, val) == reg' = [reg EXCEPT ![w][r] = val]

----------------------------------------------------------------------------
(* Compilation *)

\* Does the typing of an instruction succeed?  The shape of a private array and
\* fill_zeros are literals.
Typed(i) ==
  CASE i.op = "fetch" -> AtomicRefTyped(i.ref) /\ FetchTyped(i.name, i.ref, i.valty)
    [] i.op \in {"store", "exchange"} ->
         AtomicRefTyped(i.ref) /\ AccessTyped(i.ref, i.valty)
    [] i.op \in {"load", "spin"} -> AtomicRefTyped(i.ref)
    [] i.op = "private" -> i.literal
    [] i.op = "cas" -> /\ AtomicRefTyped(i.ref)
                       /\ CompareExchangeTyped(i.ref, i.expected, i.valty)
    [] OTHER -> TRUE

\* What the lowering of an instruction raises.
LoweringError(i) ==
  CASE i.op = "fetch" /\ get_atomic_inst_name(i.name, i.ref.arr.dtype) = "ValueError"
         -> "ValueError"
    [] i.op \in {"fetch", "store", "exchange", "load", "spin", "cas"}
         /\ ~IndicesMatch(i.ref.arr, i.ref.index) -> "TypeError"
    [] OTHER -> "none"

Instructions == UNION {Range(Code(w)) : w \in Item}

\* The pipeline of a kernel: the function is typed as a whole before any of it is
\* lowered.
Compile ==
  /\ phase = "compile"
  /\ LET errors == {LoweringError(i) : i \in Instructions} \ {"none"} IN
       IF \E i \in Instructions : ~Typed(i) THEN phase' = "TypingError"
       ELSE IF errors # {} THEN phase' \in errors
       ELSE phase' = "run"
  /\ UNCHANGED <<kernel, pc, reg, hist, reads, sync>>

----------------------------------------------------------------------------
(* Plain accesses *)

Read(w) ==
  /\ At(w, {"read"})
  /\ LET c == PlainCell(w) IN
       /\ \E k \in Visible(w, c) : Assign(w, Instr(w).reg, hist[c][k].val)
       /\ reads' = [reads EXCEPT ![c][w] = Now(w) + 1]
  /\ clock' = [clock EXCEPT ![w] = Ticked(w)]
  /\ Next1(w)
  /\ UNCHANGED <<kernel, phase, hist, fenced, pending>>

Write(w) ==
  /\ At(w, {"write"})
  /\ hist' = [hist EXCEPT ![PlainCell(w)] =
                Append(@, Message(w, Eval(w, Instr(w).val), FALSE, "", {}))]
  /\ clock' = [clock EXCEPT ![w] = Ticked(w)]
  /\ Next1(w)
  /\ UNCHANGED <<kernel, phase, reg, reads, fenced, pending>>

First(v) == <<[val |-> v, by |-> 0, at |-> 0, atomic |-> FALSE, scope |-> "",
               released |-> {}]>>

\* PrivateArray(shape, dtype, fill_zeros): the memory is allocated once for the
\* place in the code, and zeroed whenever the item comes there, if that is asked.
Zeroed(w) ==
  LET i == Instr(w)
  IN  IF i.fill THEN {Cell("private", i.arr.base + n, w) : n \in 0 .. Product(i.arr.shape) - 1}
      ELSE {}

Private(w) ==
  /\ At(w, {"private"})
  /\ hist' = [c \in DOMAIN hist |-> IF c \in Zeroed(w) THEN First(0) ELSE hist[c]]
  /\ Next1(w)
  /\ UNCHANGED <<kernel, phase, reg, reads, sync>>

\* x = e: an assignment to a local variable
Set(w) ==
  /\ At(w, {"set"})
  /\ Assign(w, Instr(w).reg, Eval(w, Instr(w).val))
  /\ Next1(w)
  /\ UNCHANGED <<kernel, phase, hist, reads, sync>>

\* if, while: go on at another place when the variable has the value
Branch(w) ==
  /\ At(w, {"branch"})
  /\ pc' = [pc EXCEPT ![w] = IF reg[w][Instr(w).reg] = Instr(w).eq
                             THEN Instr(w).to ELSE @ + 1]
  /\ UNCHANGED <<kernel, phase, reg, hist, reads, sync>>

----------------------------------------------------------------------------
(* Atomic references *)

RefScope(w) == get_scope(Instr(w).ref.scope)
RefMask(w) == get_memory_semantics_mask(Instr(w).ref.order)

\* A spin is the loop "while not ref.load(): continue": it goes on once it
\* reads something else than 0.
Load(w) ==
  /\ At(w, {"load", "spin"})
  /\ LET c == RefCell(w) IN
     \E k \in Visible(w, c) :
       /\ Instr(w).op = "spin" => hist[c][k].val # 0
       /\ Assign(w, Instr(w).reg, hist[c][k].val)
       /\ Acquire(w, hist[c][k], RefScope(w), RefMask(w))
  /\ Next1(w)
  /\ UNCHANGED <<kernel, phase, hist, reads, fenced>>

Store(w) ==
  /\ At(w, {"store"})
  /\ hist' = [hist EXCEPT ![RefCell(w)] =
                Append(@, Message(w, Eval(w, Instr(w).val), TRUE, RefScope(w),
                                  Released(w, RefScope(w), RefMask(w))))]
  /\ clock' = [clock EXCEPT ![w] = Ticked(w)]
  /\ Next1(w)
  /\ UNCHANGED <<kernel, phase, reg, reads, fenced, pending>>

\* Item w replaces the value hist[c][k] by val, reading and writing at once.
Replace(w, c, k, val) ==
  /\ hist' = [hist EXCEPT ![c] =
                Append(@, Message(w, val, TRUE, RefScope(w),
                                  Released(w, RefScope(w), RefMask(w))
                                    \cup hist[c][k].released))]
  /\ Acquire(w, hist[c][k], RefScope(w), RefMask(w))

Fetch(w) ==
  /\ At(w, {"fetch"})
  /\ LET i == Instr(w)
         c == RefCell(w)
         call == LowerFetch(i.name, i.ref.arr.dtype, Eval(w, i.val))
     IN \E k \in Modifiable(w, c, RefScope(w)) :
          /\ Replace(w, c, k, SpirvResult(call.name, hist[c][k].val, call.val))
          /\ Assign(w, i.reg, hist[c][k].val)
  /\ Next1(w)
  /\ UNCHANGED <<kernel, phase, reads, fenced>>

Exchange(w) ==
  /\ At(w, {"exchange"})
  /\ LET c == RefCell(w) IN
     \E k \in Modifiable(w, c, RefScope(w)) :
       /\ Replace(w, c, k, Eval(w, Instr(w).val))
       /\ Assign(w, Instr(w).reg, hist[c][k].val)
  /\ Next1(w)
  /\ UNCHANGED <<kernel, phase, reads, fenced>>

\* compare_exchange: on failure the value found goes to expected[idx], by a
\* plain store after the instruction.
CompareExchange(w) ==
  /\ At(w, {"cas"})
  /\ LET i == Instr(w)
         c == RefCell(w)
         e == ExpectedCell(w)
         want == hist[e][Len(hist[e])].val
     IN \E k \in Modifiable(w, c, RefScope(w)) :
          LET old == hist[c][k] IN
          /\ IF old.val = want
             THEN Replace(w, c, k, Eval(w, i.val))
             ELSE /\ hist' = [hist EXCEPT ![e] =
                                Append(@, Message(w, old.val, FALSE, "", {}))]
                  /\ Acquire(w, old, RefScope(w), RefMask(w))
          /\ Assign(w, i.reg, IF old.val = want THEN 1 ELSE 0)
  /\ Next1(w)
  /\ UNCHANGED <<kernel, phase, reads, fenced>>

----------------------------------------------------------------------------
(* Fences and barriers *)

\* atomic_fence(order, scope)
Fence(w) ==
  /\ At(w, {"fence"})
  /\ LET mask == get_memory_semantics_mask(Instr(w).order)
         scope == get_scope(Instr(w).scope)
         got == {r \in pending[w] : Inclusive(r.by, w, scope)}
     IN /\ clock' = [clock EXCEPT ![w] =
                       IF Acquires(mask)
                       THEN JoinAll(@, {OnClasses(r.clock, ClassesOf(mask)) : r \in got})
                       ELSE @]
        /\ fenced' = [fenced EXCEPT ![w] =
                        IF Releases(mask)
                        THEN {[by |-> w, scope |-> scope,
                               clock |-> OnClasses(clock'[w], ClassesOf(mask))]}
                        ELSE @]
  /\ Next1(w)
  /\ UNCHANGED <<kernel, phase, reg, hist, reads, pending>>

\* Faulty: the items of a sub group alone, or those of all groups.
ExecScopeSub == get_scope("SUB_GROUP")
ExecScopeDevice == get_scope("DEVICE")

\* group_barrier(group, fence_scope): the scope of execution is the work group
\* whatever the arguments, the semantics are sequentially consistent.
ExecScope == get_scope("WORK_GROUP")
Mates(w) == {u \in Item : Inclusive(u, w, ExecScope)}

Barrier(M) ==
  /\ \A w \in M : At(w, {"barrier"})
  /\ \A u, w \in M : pc[u] = pc[w]
  /\ LET mask == get_memory_semantics_mask("SEQ_CST")
         scope(w) == get_scope(Instr(w).scope)
         before(w) == {OnClasses(clock[u], ClassesOf(mask)) :
                         u \in {v \in M : Inclusive(v, w, scope(w))}}
     IN clock' = [w \in Item |-> IF w \in M THEN JoinAll(clock[w], before(w))
                                            ELSE clock[w]]
  /\ pc' = [w \in Item |-> IF w \in M THEN pc[w] + 1 ELSE pc[w]]
  /\ UNCHANGED <<kernel, phase, reg, hist, reads, fenced, pending>>

----------------------------------------------------------------------------
(* Specification *)

\* Local memory exists once for each group, private memory for each item.
Cells(k) ==
  {<<"global", 0, a>> : a \in DOMAIN k.global}
    \cup {<<"local", g, a>> : g \in Range(k.group), a \in 1 .. k.local}
    \cup {<<"private", w, a>> : w \in k.items, a \in 1 .. k.private}

Init ==
  /\ kernel \in Kernels
  /\ phase = "compile"
  /\ pc = [w \in Item |-> 1]
  /\ reg = [w \in Item |-> [r \in Regs |-> 0]]
  /\ \E g \in Garbage :
       hist = [c \in Cells(kernel) |->
                 First(IF Space(c) = "global" THEN kernel.global[c[3]] ELSE g)]
  /\ reads = [c \in Cells(kernel) |-> [w \in Item |-> 0]]
  /\ clock = [w \in Item |-> Never]
  /\ fenced = [w \in Item |-> {}]
  /\ pending = [w \in Item |-> {}]

Step(w) ==
  \/ Read(w) \/ Write(w) \/ Private(w) \/ Set(w) \/ Branch(w)
  \/ Load(w) \/ Store(w) \/ Fetch(w) \/ Exchange(w) \/ CompareExchange(w)
  \/ Fence(w)

AllBarriers == \E w \in Item : Barrier(Mates(w))

Done ==
  \/ phase \in {"TypingError", "ValueError", "TypeError"}
  \/ phase = "run" /\ \A w \in Item : pc[w] = Len(Code(w)) + 1

Stop == Done /\ UNCHANGED vars

Next == Compile \/ (\E w \in Item : Step(w)) \/ AllBarriers \/ Stop

\* Every item goes on, as the tests that spin on another item's store expect.
Fairness ==
  /\ WF_vars(Compile)
  /\ WF_vars(AllBarriers)
  /\ \A w \in 1 .. MaxItems : WF_vars(w \in Item /\ Step(w))

Spec == Init /\ [][Next]_vars /\ Fairness

----------------------------------------------------------------------------
(* Properties *)

\* The type invariant.  It also says what the typing layer promises the
\* lowering: what is typed has an instruction, unless the element type is
\* unsigned, and no item knows more of another than that one has done.
TypeOK ==
  /\ kernel \in Kernels
  /\ phase \in {"compile", "run", "TypingError", "ValueError", "TypeError"}
  /\ phase = "ValueError" =>
       \E i \in Instructions : i.op = "fetch" /\ i.ref.arr.dtype \in {"uint32", "uint64"}
  /\ \A w \in Item : pc[w] \in 1 .. Len(Code(w)) + 1
  /\ reg \in [Item -> [Regs -> Int]]
  /\ \A u, w \in Item, s \in Classes : clock[w][s][u] <= Now(u)

\* What the next instruction of item w accesses.
Accesses(w) ==
  LET i == Instr(w)
      access(c, write, atomic) ==
        [cell |-> c, write |-> write, atomic |-> atomic,
         scope |-> IF atomic THEN RefScope(w) ELSE ""]
  IN  CASE ~Running(w) -> {}
        [] i.op = "read" -> {access(PlainCell(w), FALSE, FALSE)}
        [] i.op = "write" -> {access(PlainCell(w), TRUE, FALSE)}
        [] i.op \in {"load", "spin"} -> {access(RefCell(w), FALSE, TRUE)}
        [] i.op \in {"store", "fetch", "exchange"} -> {access(RefCell(w), TRUE, TRUE)}
        [] i.op = "cas" -> {access(RefCell(w), TRUE, TRUE),
                            access(ExpectedCell(w), TRUE, FALSE)}
        [] OTHER -> {}

\* Two accesses conflict when one of them writes, unless both are atomic in
\* scopes that include both items.
Excluded(w, a, m) ==
  a.atomic /\ m.atomic /\ Inclusive(m.by, w, a.scope) /\ Inclusive(m.by, w, m.scope)

\* The kernels of the tests and of the documentation have no data race: with
\* the orders and scopes they ask for, the masks and scopes that the overloads
\* emit order every two conflicting accesses.
NoDataRace ==
  \A w \in Item : \A a \in Accesses(w) :
    /\ \A k \in DOMAIN hist[a.cell] :
         LET m == hist[a.cell][k] IN
         Known(w, m.by, m.at, a.cell) \/ Excluded(w, a, m)
    /\ a.write => \A u \in Item : Known(w, u, reads[a.cell][u], a.cell)

Final(c) == hist[c][Len(hist[c])].val

\* When a kernel has run, memory holds what the test or the documentation the
\* kernel is taken from asserts.
ResultExact ==
  phase = "run" /\ Done =>
    \A a \in DOMAIN kernel.promise : Final(<<"global", 0, a>>) = kernel.promise[a]

\* Kernels in which every item makes one fetch or exchange of one element.
SingleOp ==
  /\ \A w \in Item : Len(Code(w)) = 1 /\ Code(w)[1].op \in {"fetch", "exchange"}
  /\ Cardinality({i.ref : i \in Instructions}) = 1

\* An atomic operation does on the device, whatever the items' order, what the
\* Python class does when the items are called one after the other: in some
\* order of the items both return the same values and leave the same element.
Linearizable ==
  phase = "run" /\ Done /\ SingleOp =>
    \E order \in SetToSeqs(Item) :
      LET instr(n) == Code(order[n])[1]
          dtype == instr(1).ref.arr.dtype
          cell == <<"global", 0, ItemPointer(instr(1).ref.arr, instr(1).ref.index)>>
          after[n \in 0 .. Len(order)] ==
            IF n = 0 THEN hist[cell][1].val
            ELSE Simulated(IF instr(n).op = "fetch" THEN instr(n).name ELSE "exchange",
                           dtype, after[n - 1], instr(n).val.c)
      IN  /\ Final(cell) = after[Len(order)]
          /\ \A n \in DOMAIN order : reg[order[n]][instr(n).reg] = after[n - 1]

\* Every kernel ends: no item waits for ever at a barrier, for a store, or in a
\* loop of compare_exchange.
Terminates == <>Done
=============================================================================
