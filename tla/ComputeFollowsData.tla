------------------------- MODULE ComputeFollowsData -------------------------
(***************************************************************************)
(* How a dpjit function over dpnp arrays is compiled and run: type         *)
(* inference and conversion to parfors, the compute follows data pass      *)
(* (core/passes/parfor_legalize_cfd_pass.py), Numba's fusion of parfors,   *)
(* the lowering of each parfor to a kernel, and the launches.              *)
(*                                                                         *)
(* A function is straight-line code over arrays, written one statement at  *)
(* a time; a variable is its number in the order of definition, arguments  *)
(* first.  The type of an array names its queue (and so its device) and    *)
(* its USM type; the memory it really has is known only at run time.       *)
(***************************************************************************)
EXTENDS Integers, Sequences

CONSTANTS Device, Queue,
          DeviceOf,     \* the device of a queue
          CachedQueue,  \* dpctl's cached queue of a device
          Usm,          \* USM types, numbered as inputUsmTypeStrToInt does
          Args,         \* the argument types of the functions that are tried
          MaxStmts,     \* bound: the statements of a function
          LikeDevice    \* devices given to the device keyword of zeros_like

ASSUME QueueAssumption ==
  /\ DeviceOf \in [Queue -> Device] /\ CachedQueue \in [Device -> Queue]
  /\ \A d \in Device : DeviceOf[CachedQueue[d]] = d

ArrayType == [queue : Queue, usm : Usm]

ASSUME InputAssumption ==
  /\ Usm \subseteq 1..3 /\ MaxStmts \in Nat /\ LikeDevice \subseteq Device
  /\ Args \subseteq Seq(ArrayType)

VARIABLES
  phase,     \* typing, cfd, lower, run, done; error: it does not compile
  pos,       \* the statement that the pass or the program is at
  prog,      \* the statements
  typed,     \* the types that were inferred, which calls keep
  typemap,   \* state.typemap, which the pass updates
  seen,      \* _seen_array_set
  updated,   \* _cfd_updated_values
  lowerer,   \* the device of each parfor's lowerer
  fused,     \* the parfors that became part of the one before them
  memory,    \* where the arrays that exist are allocated
  launches   \* the queue of each launch, and those its arrays are on

compiled == <<prog, typed>>
legalized == <<typemap, seen, updated, lowerer>>
executed == <<memory, launches>>
vars == <<phase, pos, compiled, legalized, fused, executed>>

Var == DOMAIN typed
TypedDevice(types, x) == DeviceOf[types[x].queue]

Largest(S) == CHOOSE n \in S : \A m \in S : m <= n
First(S) == CHOOSE n \in S : \A m \in S : n <= m

IsParfor(i) == prog[i].op = "parfor"

----------------------------------------------------------------------------
(* Type inference and conversion to parfors *)

\* An expression is a sequence of operands; one of several variables is an
\* expression nested in it.
Leaves(expr) == UNION {{expr[i][j] : j \in DOMAIN expr[i]} : i \in DOMAIN expr}

Operand == {<<x>> : x \in Var} \cup {<<x, y>> : x \in Var, y \in Var}
Expression == {<<<<x>>>> : x \in Var} \cup {<<a, <<x>>>> : a \in Operand, x \in Var}

\* __array_ufunc__ of the outermost operation, and so of the operand it takes
\* its type from: the last array decides.
LastLeaf(expr) == LET last == expr[Len(expr)] IN last[Len(last)]

\* _get_queue looks for an array whose type has the queue of the result.
Matching(operand, queue) == {j \in DOMAIN operand : typed[operand[j]].queue = queue}
FirstMatch(expr, queue) == First({i \in DOMAIN expr : Matching(expr[i], queue) # {}})

\* A nested expression without one makes it take None.loc.
GetQueueFails(expr, queue) ==
  \E i \in DOMAIN expr : i < FirstMatch(expr, queue) /\ Len(expr[i]) > 1

QueueVar(expr, queue) ==
  LET operand == expr[FirstMatch(expr, queue)]
  IN  operand[First(Matching(operand, queue))]

NewVar == Len(typed) + 1

Fail ==
  /\ phase' = "error"
  /\ UNCHANGED <<pos, compiled, legalized, fused, executed>>

Writing == phase = "typing" /\ Len(prog) < MaxStmts

Write(statement) ==
  /\ Writing
  /\ prog' = Append(prog, statement)
  /\ UNCHANGED <<phase, pos, seen, updated, lowerer, fused, executed>>

\* A statement that defines a new variable, of the type inferred for it.
Define(statement, type) ==
  /\ Write(statement)
  /\ typed' = Append(typed, type) /\ typemap' = typed'

\* from: the array whose queue the allocation uses, 0 for the cached queue of
\* the device of the type; takes: the arrays that are arguments of the call.
Call(known, from, takes) ==
  [op |-> "call", lhs |-> NewVar, known |-> known, from |-> from, takes |-> takes]

\* c = dpnp.empty(n, usm_type=usm, device=device) or, unknown to the pass,
\* dpnp.zeros, ones or full
WriteMake(known, device, usm) ==
  Define(Call(known, 0, {}), [queue |-> CachedQueue[device], usm |-> usm])

\* The same with sycl_queue=x.sycl_queue
WriteMakeOn(known, x, usm) ==
  Define(Call(known, x, {}), [queue |-> typed[x].queue, usm |-> usm])

\* c = dpnp.zeros_like(x, usm_type=usm), or empty_like, ones_like, full_like.
\* With device=device the type has the cached queue of that device, and yet
\* _get_queue_ref takes the queue of x.
WriteLike(x, queue, usm) == Define(Call(FALSE, x, {x}), [queue |-> queue, usm |-> usm])

\* c = expr becomes a parfor whose init block allocates c.
WriteExpr(expr) ==
  LET type == typed[LastLeaf(expr)]
  IN  /\ ~GetQueueFails(expr, type.queue)
      /\ Define([op |-> "parfor", lhs |-> NewVar, from |-> QueueVar(expr, type.queue),
                 ins |-> Leaves(expr), outs |-> {NewVar}],
                type)

WriteBadExpr(expr) ==
  /\ Writing
  /\ GetQueueFails(expr, typed[LastLeaf(expr)].queue)
  /\ prog' = Append(prog, [op |-> "parfor", lhs |-> 0, from |-> 0,
                            ins |-> Leaves(expr), outs |-> {}])
  /\ phase' = "error"
  /\ UNCHANGED <<pos, typed, legalized, fused, executed>>

\* for i in prange(n): outs[i] = f(ins[i])
WritePrange(ins, outs) ==
  /\ Write([op |-> "parfor", lhs |-> 0, from |-> 0, ins |-> ins, outs |-> outs])
  /\ UNCHANGED <<typed, typemap>>

StartLegalize ==
  /\ phase = "typing" /\ prog # <<>>
  /\ phase' = "cfd"
  /\ UNCHANGED <<pos, compiled, legalized, fused, executed>>

----------------------------------------------------------------------------
(* The compute follows data pass *)

AtCall == phase = "cfd" /\ pos <= Len(prog) /\ ~IsParfor(pos)
AtParfor == phase = "cfd" /\ pos <= Len(prog) /\ IsParfor(pos)

NextStatement ==
  /\ pos' = pos + 1
  /\ UNCHANGED <<phase, compiled, fused, executed>>

\* _legalize_expr on a call outside a parfor
LegalizeCall ==
  /\ AtCall
  /\ prog[pos].known \/ prog[pos].takes \cap updated = {}
  /\ seen' = IF prog[pos].known THEN seen \cup {prog[pos].lhs} ELSE seen
  /\ UNCHANGED <<typemap, updated, lowerer>>
  /\ NextStatement

\* NotImplementedError: the type of an argument was changed.
RefuseCall ==
  /\ AtCall
  /\ ~prog[pos].known /\ prog[pos].takes \cap updated # {}
  /\ Fail

\* Faulty: the outputs do not have to agree.
ChecklistInputs(stmt) == stmt.ins \ stmt.outs

\* The arrays that must agree: the inputs, and the outputs seen before.
Checklist(stmt) == (stmt.ins \ stmt.outs) \cup (stmt.outs \cap seen)

DevicesOf(xs) == {TypedDevice(typemap, x) : x \in xs}

ConformingDevice(xs) == CHOOSE d \in Device : DevicesOf(xs) = {d}

\* Faulty: the precedence is the other way round.
ConformingUsmLeast(xs) == First({typemap[x].usm : x \in xs})

\* max(usmTypes)
ConformingUsm(xs) == Largest({typemap[x].usm : x \in xs})

\* _check_cfd_parfor_params: ExecutionQueueInferenceError for two devices,
\* ValueError for max([]).
Conforms(stmt) == \E d \in Device : DevicesOf(Checklist(stmt)) = {d}

\* _legalize_array_attrs: the type is copied when its device or USM type is
\* not the conforming one, and a copy has the cached queue of its device.
Modified(x, device, usm) ==
  TypedDevice(typemap, x) # device \/ typemap[x].usm # usm

\* Faulty: the device is passed where the queue is expected.
LegalTypeOnDevice(x, device, usm) ==
  IF Modified(x, device, usm) THEN [queue |-> device, usm |-> usm] ELSE typemap[x]

LegalType(x, device, usm) ==
  IF Modified(x, device, usm) THEN [queue |-> CachedQueue[device], usm |-> usm]
  ELSE typemap[x]

\* The outputs whose type the parfor changes.
UpdatedBy(stmt) ==
  LET list == Checklist(stmt)
  IN  {x \in stmt.outs : Modified(x, ConformingDevice(list), ConformingUsm(list))}

\* The dpnp.empty call of the init block is resolved again with both a device
\* and a queue, which the constructor of USMNdArray refuses.
InitBlockFails(stmt) == stmt.lhs \in UpdatedBy(stmt)

LegalizeParfor ==
  /\ AtParfor
  /\ LET stmt == prog[pos]
         list == Checklist(stmt)
         device == ConformingDevice(list)
     IN  /\ Conforms(stmt) /\ ~InitBlockFails(stmt)
         /\ typemap' = [x \in Var |-> IF x \in stmt.outs
                                      THEN LegalType(x, device, ConformingUsm(list))
                                      ELSE typemap[x]]
         /\ updated' = (updated \ stmt.outs) \cup UpdatedBy(stmt)
         /\ seen' = seen \cup ({stmt.lhs} \ {0})
         /\ lowerer' = [lowerer EXCEPT ![pos] = {device}]
  /\ NextStatement

RefuseParfor ==
  /\ AtParfor
  /\ Conforms(prog[pos]) => InitBlockFails(prog[pos])
  /\ Fail

----------------------------------------------------------------------------
(* Fusion and lowering *)

\* ParforFusionPass joins adjacent parfors that have the same lowerer; whether
\* the loops have the same extent is left open.
Fusible == {i \in 2..Len(prog) : IsParfor(i - 1) /\ IsParfor(i) /\ lowerer[i - 1] = lowerer[i]}

Fuse ==
  /\ phase = "cfd" /\ pos > Len(prog)
  /\ fused' \in SUBSET Fusible
  /\ phase' = "lower" /\ pos' = 1
  /\ UNCHANGED <<compiled, legalized, executed>>

\* The parfors that the one at i was made from, when the next starts another.
Group(i) == {j \in 1..i : \A k \in j + 1..i : k \in fused}
LastOfGroup(i) == IsParfor(i) /\ i + 1 \notin fused

Outputs(group) == UNION {prog[i].outs : i \in group}
Inputs(group) == (UNION {prog[i].ins : i \in group}) \ Outputs(group)
Arrays(group) == Inputs(group) \cup Outputs(group)

\* Faulty: devices are compared.
KernelAcceptsDevice(group) == \E d \in Device : DevicesOf(Arrays(group)) = {d}

\* check_queue_equivalence_of_args
KernelAccepts(group) == \E q \in Queue : {typemap[x].queue : x \in Arrays(group)} = {q}

\* Numba keeps the type an argument or the result of a call was inferred to
\* have, and converts no array to one of another USM type, device or queue.
DefinitionsAccepted == typemap = typed

Lowers ==
  /\ DefinitionsAccepted
  /\ \A i \in DOMAIN prog : LastOfGroup(i) => KernelAccepts(Group(i))

Lower ==
  /\ phase = "lower" /\ Lowers
  /\ phase' = "run"
  /\ UNCHANGED <<pos, compiled, legalized, fused, executed>>

RefuseLowering == phase = "lower" /\ ~Lowers /\ Fail

----------------------------------------------------------------------------
(* The compiled function runs *)

Running == phase = "run" /\ pos <= Len(prog)

Advance ==
  /\ pos' = pos + 1
  /\ UNCHANGED <<phase, compiled, legalized, fused>>

\* _empty_nd_impl, with the queue of _get_queue_ref
Allocation(stmt) ==
  [queue |-> IF stmt.from = 0 THEN typed[stmt.lhs].queue ELSE memory[stmt.from].queue,
   usm |-> typed[stmt.lhs].usm]

Allocate(stmt) ==
  memory' = IF stmt.lhs = 0 THEN memory ELSE Append(memory, Allocation(stmt))

\* A call, or the init block of a parfor whose kernel comes later
Execute ==
  /\ Running /\ ~LastOfGroup(pos)
  /\ Allocate(prog[pos])
  /\ Advance /\ UNCHANGED launches

\* set_queue_from_arguments: the queue in the struct of the first array; the
\* inputs come first, in the order of their names.
Launch ==
  /\ Running /\ LastOfGroup(pos)
  /\ Allocate(prog[pos])
  /\ LET group == Group(pos)
     IN  \E x \in IF Inputs(group) # {} THEN Inputs(group) ELSE Outputs(group) :
           launches' = launches \cup
             {[queue |-> memory'[x].queue, on |-> {memory'[y].queue : y \in Arrays(group)}]}
  /\ Advance

Finish ==
  /\ phase = "run" /\ pos > Len(prog)
  /\ phase' = "done"
  /\ UNCHANGED <<pos, compiled, legalized, fused, executed>>

----------------------------------------------------------------------------

\* typeof gives an argument the queue and the USM type that it really has.
Init ==
  /\ phase = "typing" /\ pos = 1
  /\ prog = <<>> /\ typed \in Args /\ typemap = typed
  /\ seen = Var /\ updated = {}
  /\ lowerer = [i \in 1..MaxStmts |-> {}] /\ fused = {}
  /\ memory = typed /\ launches = {}

Next ==
  \/ \E usm \in Usm, known \in BOOLEAN :
       \/ \E device \in Device : WriteMake(known, device, usm)
       \/ \E x \in Var : WriteMakeOn(known, x, usm)
  \/ \E usm \in Usm, x \in Var :
       \E queue \in {typed[x].queue} \cup {CachedQueue[d] : d \in LikeDevice} :
         WriteLike(x, queue, usm)
  \/ \E expr \in Expression : WriteExpr(expr) \/ WriteBadExpr(expr)
  \/ \E ins \in SUBSET Var, outs \in (SUBSET Var) \ {{}} : WritePrange(ins, outs)
  \/ StartLegalize
  \/ LegalizeCall \/ RefuseCall \/ LegalizeParfor \/ RefuseParfor
  \/ Fuse \/ Lower \/ RefuseLowering
  \/ Execute \/ Launch \/ Finish

Spec == Init /\ [][Next]_vars

----------------------------------------------------------------------------
(* Properties *)

\* The type invariant: what each variable holds.
TypeOK ==
  /\ phase \in {"typing", "cfd", "lower", "run", "done", "error"}
  /\ pos \in 1..Len(prog) + 1
  /\ typed \in Seq(ArrayType) /\ typemap \in [Var -> ArrayType]
  /\ seen \subseteq Var /\ updated \subseteq Var
  /\ lowerer \in [1..MaxStmts -> SUBSET Device] /\ fused \subseteq 2..Len(prog)
  /\ memory \in Seq(ArrayType)
  /\ \A l \in launches : l.queue \in Queue /\ l.on \subseteq Queue

\* Arrays are combined only if their allocation queues are the same
\* (docs/source/programming_model.old.rst:262), and the kernel that combines
\* them runs on that queue: inference, pass, fusion and lowering let no launch
\* through whose arrays really are on another queue.
ArraysShareQueue == \A l \in launches : l.on = {l.queue}

Known(x) == \A i \in DOMAIN prog : ~IsParfor(i) /\ prog[i].lhs = x => prog[i].known

\* The USM type of the memory of an array expression's result is the first of
\* device, shared, host that an operand has (parfor_legalize_cfd_pass.py:32),
\* provided the pass saw the operands made.
UsmFollowsData ==
  phase = "done" =>
    \A i \in DOMAIN prog :
      LET stmt == prog[i]
      IN  IsParfor(i) /\ stmt.lhs # 0 /\ (\A x \in stmt.ins : Known(x)) =>
            memory[stmt.lhs].usm = Largest({memory[x].usm : x \in stmt.ins})

MixesTypes(i) == \E x, y \in Arrays({i}) : typed[x] # typed[y]

NothingKnown(i) == \A x \in Arrays({i}) : x \in prog[i].outs /\ ~Known(x)

\* Two loops over different queues of one device became one kernel.
FusedQueues(i) ==
  \E x, y \in Arrays(Group(i)) :
    typed[x].queue # typed[y].queue /\ TypedDevice(typed, x) = TypedDevice(typed, y)

\* A function is refused only if one of its loops or expressions combines
\* arrays that differ in queue or USM type, is over no array that the pass
\* knows, or was fused with one on another queue of the same device.
RefusalJustified ==
  phase = "error" =>
    \E i \in DOMAIN prog :
      IsParfor(i) /\ (MixesTypes(i) \/ NothingKnown(i) \/ FusedQueues(i))
=============================================================================
