----------------------------- MODULE AtomicOps -----------------------------
(***************************************************************************)
(* How the kernel API's atomic references, fences and barriers are typed   *)
(* and lowered to SPIR-V (kernel_api_impl/spirv/overloads), and what the   *)
(* same operations do when a kernel is called as plain Python              *)
(* (kernel_api/atomic_ref.py).                                             *)
(*                                                                         *)
(* Integers have Width bits and wrap; a float is an integer that does not. *)
(* An array is [space, base, shape, strides, layout, dtype, aspect64]: its *)
(* address space, its data pointer, its extents, its strides in elements,  *)
(* "C" if it is known to be contiguous, and whether the device of its      *)
(* type's queue has 64-bit atomics.  An index is a sequence.               *)
(***************************************************************************)
EXTENDS Integers, Sequences, FiniteSets, Functions, Bitwise

CONSTANT Width

ASSUME WidthAssumption == Width \in 2 .. 31

IntDtypes == {"int32", "int64"}
FloatDtypes == {"float32", "float64"}
Dtypes64 == {"int64", "float64", "uint64"}
MemoryOrder ==
  {"RELAXED", "ACQUIRE", "CONSUME_UNSUPPORTED", "RELEASE", "ACQ_REL", "SEQ_CST"}
MemoryScope == {"WORK_ITEM", "SUB_GROUP", "WORK_GROUP", "DEVICE", "SYSTEM"}

IntOnly == {"fetch_and", "fetch_or", "fetch_xor"}
FetchOps == {"fetch_add", "fetch_sub", "fetch_min", "fetch_max"} \cup IntOnly

----------------------------------------------------------------------------
(* Scopes, memory semantics and instructions *)

\* Faulty: device-wide is taken to be the work group.
get_scope_short(scope) ==
  CASE scope = "WORK_ITEM" -> "INVOCATION" [] scope = "SUB_GROUP" -> "SUBGROUP"
    [] OTHER -> "WORKGROUP"

\* get_scope
get_scope(scope) ==
  CASE scope = "WORK_ITEM" -> "INVOCATION"
    [] scope = "SUB_GROUP" -> "SUBGROUP"
    [] scope = "WORK_GROUP" -> "WORKGROUP"
    [] scope = "DEVICE" -> "DEVICE"
    [] scope = "SYSTEM" -> "CROSS_DEVICE"

\* The bits of the mask: the order, and the memory it is about.
OrderFlag(order) ==
  CASE order \in {"RELAXED", "CONSUME_UNSUPPORTED"} -> {}
    [] order = "ACQUIRE" -> {"ACQUIRE"}
    [] order = "RELEASE" -> {"RELEASE"}
    [] order = "ACQ_REL" -> {"ACQUIRE_RELEASE"}
    [] order = "SEQ_CST" -> {"SEQUENTIALLY_CONSISTENT"}

\* Faulty: the semantics leave global memory out.
get_memory_semantics_mask_local(order) ==
  OrderFlag(order) \cup {"SUBGROUP_MEMORY", "WORKGROUP_MEMORY"}

get_memory_semantics_mask(order) ==
  OrderFlag(order)
    \cup {"SUBGROUP_MEMORY", "WORKGROUP_MEMORY", "CROSS_WORKGROUP_MEMORY"}

\* _spv_atomic_instructions_map: the instruction of each fetch operation.
IntInstruction ==
  [fetch_add |-> "IAdd", fetch_sub |-> "ISub", fetch_min |-> "SMin",
   fetch_max |-> "SMax", fetch_and |-> "And", fetch_or |-> "Or",
   fetch_xor |-> "Xor"]
FloatInstruction ==
  [fetch_add |-> "FAddEXT", fetch_sub |-> "FSubEXT", fetch_min |-> "FMinEXT",
   fetch_max |-> "FMaxEXT"]

\* get_atomic_inst_name, "ValueError" where it raises one
get_atomic_inst_name(op, dtype) ==
  CASE dtype \in IntDtypes -> IntInstruction[op]
    [] dtype \in FloatDtypes /\ op \notin IntOnly -> FloatInstruction[op]
    [] OTHER -> "ValueError"

\* Faulty: the value is not negated.
LowerFetchPlain(op, dtype, val) ==
  [name |-> get_atomic_inst_name(IF op = "fetch_sub" /\ dtype \in FloatDtypes
                                 THEN "fetch_add" ELSE op, dtype),
   val |-> val]

\* The call that a fetch operation becomes.  A float is subtracted by adding
\* its negative.
LowerFetch(op, dtype, val) ==
  IF op = "fetch_sub" /\ dtype \in FloatDtypes
  THEN [name |-> get_atomic_inst_name("fetch_add", dtype), val |-> -val]
  ELSE [name |-> get_atomic_inst_name(op, dtype), val |-> val]

----------------------------------------------------------------------------
(* Typing *)

\* _check_if_supported_ref
CheckIfSupportedRef(arr) ==
  /\ arr.dtype \in IntDtypes \cup FloatDtypes \cup {"uint32", "uint64"}
  /\ arr.dtype \in Dtypes64 => arr.aspect64

\* ol_atomic_ref: may an AtomicRef be made of array ref.arr, in address space
\* ref.space (or in the array's own)?
AtomicRefTyped(ref) ==
  /\ CheckIfSupportedRef(ref.arr)
  /\ ref.space \in {"none", ref.arr.space}
  /\ ref.order \in MemoryOrder /\ ref.scope \in MemoryScope
  /\ ref.arr.space # "private"

\* Faulty: the bit operations take every type.
FetchTypedLoose(op, ref, valty) == valty = ref.arr.dtype

\* ol_fetch_add, ..., ol_fetch_xor
FetchTyped(op, ref, valty) ==
  /\ valty = ref.arr.dtype
  /\ op \in IntOnly => ref.arr.dtype \in IntDtypes

\* ol_load, ol_store, ol_exchange
AccessTyped(ref, valty) == valty = ref.arr.dtype

CompareExchangeTyped(ref, expected, valty) ==
  /\ CheckIfSupportedRef(expected)
  /\ ref.arr.dtype = expected.dtype
  /\ ref.arr.dtype = valty

----------------------------------------------------------------------------
(* Addresses *)

Product(shape) == FoldFunction(LAMBDA a, b : a * b, 1, shape)
RowMajor(shape) ==
  [d \in DOMAIN shape |-> Product(SubSeq(shape, d + 1, Len(shape)))]

\* np_cfarray and populate_array: the array of a shape in memory from base on.
NpCfArray(space, base, shape, dtype) ==
  [space |-> space, base |-> base, shape |-> shape, strides |-> RowMajor(shape),
   layout |-> "C", dtype |-> dtype, aspect64 |-> TRUE]

\* _normalize_indices: an AtomicRef has an index for each dimension.
IndicesMatch(arr, index) == Len(index) = Len(arr.shape)

\* get_item_pointer with wraparound: where an element is.  The strides are used
\* where the array may not be contiguous.
ItemPointer(arr, index) ==
  LET at(d) == IF index[d] < 0 THEN index[d] + arr.shape[d] ELSE index[d]
      steps == IF arr.layout = "C" THEN RowMajor(arr.shape) ELSE arr.strides
  IN  arr.base + FoldFunction(LAMBDA a, b : a + b, 0, [d \in DOMAIN index |-> at(d) * steps[d]])

\* _getitem_array_generic and make_view: fewer indices than dimensions.
View(arr, index) ==
  LET rest(t) == SubSeq(t, Len(index) + 1, Len(t))
  IN  [arr EXCEPT !.base = ItemPointer(arr, index), !.shape = rest(arr.shape),
                  !.strides = rest(arr.strides)]

\* compare_exchange finds the expected value by pointer arithmetic alone.
ExpectedPointer(arr, index) == arr.base + index

----------------------------------------------------------------------------
(* What the instructions compute, and what the Python class computes *)

Wrap(x) == ((x + 2^(Width - 1)) % 2^Width) - 2^(Width - 1)
Bits(x) == x % 2^Width

SpirvResult(name, old, val) ==
  CASE name = "IAdd" -> Wrap(old + val)
    [] name = "ISub" -> Wrap(old - val)
    [] name = "FAddEXT" -> old + val
    [] name = "FSubEXT" -> old - val
    [] name \in {"SMin", "FMinEXT"} -> IF val < old THEN val ELSE old
    [] name \in {"SMax", "FMaxEXT"} -> IF val > old THEN val ELSE old
    [] name = "And" -> Wrap(Bits(old) & Bits(val))
    [] name = "Or" -> Wrap(Bits(old) | Bits(val))
    [] name = "Xor" -> Wrap(Bits(old) ^^ Bits(val))

\* AtomicRef.fetch_add, ..., exchange of kernel_api on a NumPy element
InType(dtype, x) == IF dtype \in FloatDtypes THEN x ELSE Wrap(x)
Simulated(op, dtype, old, val) ==
  CASE op = "fetch_add" -> InType(dtype, old + val)
    [] op = "fetch_sub" -> InType(dtype, old - val)
    [] op = "fetch_min" -> IF old <= val THEN old ELSE val
    [] op = "fetch_max" -> IF old >= val THEN old ELSE val
    [] op = "fetch_and" -> Wrap(Bits(old) & Bits(val))
    [] op = "fetch_or" -> Wrap(Bits(old) | Bits(val))
    [] op = "fetch_xor" -> Wrap(Bits(old) ^^ Bits(val))
    [] op = "exchange" -> val
=============================================================================
