----------------------------- MODULE IndexSpace -----------------------------
(***************************************************************************)
(* Index spaces: what Range and NdRange make of their arguments            *)
(* (kernel_api/ranges.py), how an index space travels from Python to the   *)
(* device (core/boxing/ranges.py, core/utils/call_kernel_builder.py), and  *)
(* what a kernel's item answers on the device                              *)
(* (kernel_api_impl/spirv/overloads/_index_space_id_overloads.py) and in   *)
(* the Python simulator (kernel_api/index_space_ids.py).                   *)
(*                                                                         *)
(* A range is a sequence of extents; dimension d of the code is element    *)
(* d + 1 here.  Extents are natural numbers.                               *)
(***************************************************************************)
EXTENDS Integers, Sequences, FiniteSets, FiniteSetsExt, SequencesExt

----------------------------------------------------------------------------
(* Construction *)

\* Range(dim0, dim1, dim2): a later extent counts if it is true.
MkRange(dims) ==
  IF Len(dims) = 1 \/ dims[2] = 0 THEN <<dims[1]>>
  ELSE IF Len(dims) = 2 \/ dims[3] = 0 THEN SubSeq(dims, 1, 2)
  ELSE dims

\* The exception that NdRange(global, local) raises, or "none".
NdRangeError(global, local) ==
  LET bad == {d \in DOMAIN global : local[d] = 0 \/ global[d] % local[d] # 0}
  IN  CASE Len(local) # Len(global) -> "UnmatchedNumberOfRangeDimsError"
        [] Len(local) = Len(global) /\ bad = {} -> "none"
        [] OTHER -> IF local[Min(bad)] = 0 THEN "ZeroDivisionError"
                    ELSE "UnsupportedGroupWorkItemSizeError"

\* The points of a range.
Points(r) ==
  {p \in [DOMAIN r -> 0 .. Max(ToSet(r))] : \A d \in DOMAIN r : p[d] < r[d]}

\* The order of itertools.product.
Before(p, q) ==
  \E d \in DOMAIN p : p[d] < q[d] /\ \A e \in 1 .. d - 1 : p[e] = q[e]

----------------------------------------------------------------------------
(* From Python to the queue *)

UndefinedDim == -1

\* unbox_range: the struct of RangeModel, read from the attributes ndim, dim0,
\* dim1 and dim2.
UnboxRange(r) ==
  [ndim |-> Len(r),
   dim |-> [d \in 1 .. 3 |-> IF d <= Len(r) THEN r[d] ELSE UndefinedDim]]

\* _intrin_range_alloc and _intrin_ndrange_alloc: the struct of a Range made in a
\* dpjit function.  Every extent given counts.
RangeAlloc(dims) ==
  [ndim |-> Len(dims),
   dim |-> [d \in 1 .. 3 |-> IF d <= Len(dims) THEN dims[d] ELSE UndefinedDim]]

\* _ol_ndrange_init looks at nothing but the number of dimensions.
JitNdRangeError(global, local) ==
  IF Len(local) # Len(global) THEN "TypingError" ELSE "none"

\* box_range and box_ndrange: Python's constructor is called with the extents.
BoxRange(struct) == MkRange(SubSeq(struct.dim, 1, struct.ndim))

\* Faulty: "dim" + str(0) for every dimension.
ExtentsFirst(struct, ndim) == [d \in 1 .. ndim |-> struct.dim[1]]

\* set_range_from_indexer: as many extents as the type has dimensions.
Extents(struct, ndim) == [d \in 1 .. ndim |-> struct.dim[d]]

\* Faulty: SYCL's order is kept.
CreateSyclRangeKept(extents) == extents

\* _create_sycl_range: the dimension of unit stride comes first in a native
\* kernel and last in SYCL.
CreateSyclRange(extents) == Reverse(extents)

\* SYCL hands its extents to the native kernel in the opposite order.
NativeRange(syclRange) == Reverse(syclRange)

----------------------------------------------------------------------------
(* On the device *)

\* The built-in variables of work item i of a native range, in groups of the
\* extents l.
Builtins(n, l, i) ==
  [GlobalInvocationId |-> i,
   GlobalSize |-> n,
   LocalInvocationId |-> [d \in DOMAIN i |-> i[d] % l[d]],
   WorkgroupSize |-> l,
   WorkgroupId |-> [d \in DOMAIN i |-> i[d] \div l[d]],
   NumWorkgroups |-> [d \in DOMAIN i |-> n[d] \div l[d]]]

\* Faulty: the groups are as many as the items of one.
MethodsOnDeviceSizes(b) ==
  [get_global_id |-> b.GlobalInvocationId, get_global_range |-> b.GlobalSize,
   get_local_id |-> b.LocalInvocationId, get_local_range |-> b.WorkgroupSize,
   get_group_id |-> b.WorkgroupId, get_group_range |-> b.WorkgroupSize]

\* The methods that read a built-in.  Item's get_id and get_range are those of
\* the global index.
MethodsOnDevice(b) ==
  [get_global_id |-> b.GlobalInvocationId, get_global_range |-> b.GlobalSize,
   get_local_id |-> b.LocalInvocationId, get_local_range |-> b.WorkgroupSize,
   get_group_id |-> b.WorkgroupId, get_group_range |-> b.NumWorkgroups]

----------------------------------------------------------------------------
(* In the simulator *)

\* Item(extent, index) of a Range kernel
MethodsOfItem(extent, index) ==
  [get_global_id |-> index, get_global_range |-> extent]

\* NdItem(Item(global_range, global_id), Item(local_range, lidx), Group(...))
MethodsOfNdItem(global, local, gidx, lidx) ==
  [get_global_id |-> [d \in DOMAIN gidx |-> gidx[d] * local[d] + lidx[d]],
   get_global_range |-> global,
   get_local_id |-> lidx, get_local_range |-> local,
   get_group_id |-> gidx,
   get_group_range |-> [d \in DOMAIN gidx |-> global[d] \div local[d]]]

----------------------------------------------------------------------------
(* Computed from these, by the same Python code on both sides *)

\* Faulty: the extent of the wrong dimension.
LinearIdSwapped(id, range) ==
  CASE Len(id) = 1 -> id[1]
    [] Len(id) = 2 -> id[1] * range[1] + id[2]
    [] Len(id) = 3 -> id[1] * range[1] * range[2] + id[2] * range[3] + id[3]

\* Item.get_linear_id, NdItem.get_global_linear_id, NdItem.get_local_linear_id
\* and Group.get_group_linear_id
LinearId(id, range) ==
  CASE Len(id) = 1 -> id[1]
    [] Len(id) = 2 -> id[1] * range[2] + id[2]
    [] Len(id) = 3 -> id[1] * range[2] * range[3] + id[2] * range[3] + id[3]

\* get_linear_range and the like
LinearRange(range) == FoldSeq(LAMBDA x, y : x * y, 1, range)

\* Everything an item answers: the methods, what is computed from the global
\* index, and for an NdItem from the local one and the group's.
Answers(methods, kind) ==
  IF kind = "Range"
  THEN [methods |-> methods,
        global_linear_id |-> LinearId(methods.get_global_id, methods.get_global_range),
        global_linear_range |-> LinearRange(methods.get_global_range)]
  ELSE [methods |-> methods,
        global_linear_id |-> LinearId(methods.get_global_id, methods.get_global_range),
        global_linear_range |-> LinearRange(methods.get_global_range),
        local_linear_id |-> LinearId(methods.get_local_id, methods.get_local_range),
        local_linear_range |-> LinearRange(methods.get_local_range),
        group_linear_id |-> LinearId(methods.get_group_id, methods.get_group_range),
        group_linear_range |-> LinearRange(methods.get_group_range)]

ItemOnDevice(b, kind) ==
  LET m == MethodsOnDevice(b)
  IN  Answers(IF kind = "NdRange" THEN m
              ELSE [get_global_id |-> m.get_global_id,
                    get_global_range |-> m.get_global_range], kind)
=============================================================================
