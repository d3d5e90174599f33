----------------------------- MODULE KernelArgs -----------------------------
(***************************************************************************)
(* The arguments of a kernel on their way to the device: the structs that  *)
(* the data models of the host and of the device lay out                   *)
(* (core/datamodel/models.py), the flat lists of pointers and type codes   *)
(* that a launch passes (core/utils/kernel_flattened_args_builder.py and   *)
(* call_kernel_builder.py), and the parameters the kernel wrapper expects  *)
(* (kernel_api_impl/spirv/target.py).                                      *)
(*                                                                         *)
(* An argument is [ty, val].  Its type ty is [cls, ndim, itemsize, queue]: *)
(* cls is "array", "local", "numpy", or a scalar type, and queue the queue *)
(* its type names.  The value of an array is the record of its fields,     *)
(* that of a local accessor its shape.                                     *)
(***************************************************************************)
EXTENDS Integers, Sequences, FiniteSets, SequencesExt

Complex == {"complex64", "complex128"}
Codes == {"uint8", "int32", "uint32", "int64", "uint64", "float32", "float64"}

IsArray(ty) == ty.cls = "array"
IsLocal(ty) == ty.cls = "local"
IsUSMNdArray(ty) == ty.cls \in {"array", "local"}  \* LocalAccessorType is one

----------------------------------------------------------------------------
(* Data models *)

USMArrayDeviceModel == <<"nitems", "itemsize", "data", "shape", "strides">>
USMArrayHostModel ==
  <<"meminfo", "parent", "nitems", "itemsize", "data", "sycl_queue", "shape", "strides">>

FieldPosition(model, field) == CHOOSE p \in DOMAIN model : model[p] = field

\* The struct of an array in host code: its fields by position.
HostStruct(val) == [p \in DOMAIN USMArrayHostModel |-> val[USMArrayHostModel[p]]]

\* get_flattened_member_count: a tuple counts as many as it has elements.
FlattenedMemberCount(model, ndim) ==
  FoldSeq(LAMBDA f, n : n + IF f \in {"shape", "strides"} THEN ndim ELSE 1, 0, model)

----------------------------------------------------------------------------
(* Flattening *)

\* numba_type_to_dpctl_typenum
TypeNum(cls) ==
  CASE cls = "bool" -> "uint8"
    [] cls = "intp" -> "int64"
    [] cls \in Codes -> cls
    [] cls = "pointer" -> "void_ptr"
    [] cls = "local" -> "local_accessor"
    [] OTHER -> "NotImplementedError"

Arg(val, cls) == <<[val |-> val, code |-> TypeNum(cls)]>>
Args(vals, cls) == [d \in DOMAIN vals |-> [val |-> vals[d], code |-> TypeNum(cls)]]

\* Faulty: the positions are those of the device's struct.
BuildArrayArgDevice(val) ==
  LET field(f) == HostStruct(val)[FieldPosition(USMArrayDeviceModel, f)]
  IN  Arg(field("nitems"), "intp") \o Arg(field("itemsize"), "intp")
        \o Arg(field("data"), "pointer") \o Args(val.shape, "int64")
        \o Args(val.strides, "int64")

\* _build_array_arg: the fields of the device's model, each found in the host's
\* struct.
BuildArrayArg(val) ==
  LET field(f) == HostStruct(val)[FieldPosition(USMArrayHostModel, f)]
  IN  Arg(field("nitems"), "intp") \o Arg(field("itemsize"), "intp")
        \o Arg(field("data"), "pointer") \o Args(field("shape"), "int64")
        \o Args(field("strides"), "int64")

Product(shape) == FoldSeq(LAMBDA x, y : x * y, 1, shape)

\* _build_local_accessor_metadata_arg: what the queue allocates local memory by
Metadata(arg) ==
  [ndim |-> arg.ty.ndim, code |-> TypeNum(arg.ty.dtype), dims |-> arg.val]

\* _build_local_accessor_arg: the fields of an array, made from the shape.  All
\* strides are the size of an item.
BuildLocalAccessorArg(arg) ==
  Arg(Product(arg.val), "intp") \o Arg(arg.ty.itemsize, "intp")
    \o Arg(Metadata(arg), "local") \o Args(arg.val, "int64")
    \o Args([d \in DOMAIN arg.val |-> arg.ty.itemsize], "int64")

BuildComplexArg(arg) ==
  LET part == IF arg.ty.cls = "complex64" THEN "float32" ELSE "float64"
  IN  Arg(<<arg.val, "real">>, part) \o Arg(<<arg.val, "imag">>, part)

\* add_argument
Flatten(arg) ==
  CASE IsLocal(arg.ty) -> BuildLocalAccessorArg(arg)
    [] IsArray(arg.ty) -> BuildArrayArg(arg.val)
    [] arg.ty.cls \in Complex -> BuildComplexArg(arg)
    [] OTHER -> Arg(arg.val, arg.ty.cls)

\* The list that _populate_kernel_args_and_args_ty_arrays writes.
FlattenAll(args) == FlattenSeq([n \in DOMAIN args |-> Flatten(args[n])])

\* _build_arg, or the code of a local accessor's elements, may raise.
FlattenError(args) ==
  \E n \in DOMAIN args :
    \/ \E k \in DOMAIN Flatten(args[n]) : Flatten(args[n])[k].code = "NotImplementedError"
    \/ IsLocal(args[n].ty) /\ TypeNum(args[n].ty.dtype) = "NotImplementedError"

\* Faulty: a complex number counts as one.
NumFlattenedShort(tys) ==
  FoldSeq(LAMBDA ty, n : n + IF IsUSMNdArray(ty)
                             THEN FlattenedMemberCount(USMArrayDeviceModel, ty.ndim)
                             ELSE 1, 0, tys)

\* _get_num_flattened_kernel_args: the size of the arrays and the number of
\* arguments that the queue is told.
NumFlattened(tys) ==
  FoldSeq(LAMBDA ty, n : n + IF IsUSMNdArray(ty)
                             THEN FlattenedMemberCount(USMArrayDeviceModel, ty.ndim)
                             ELSE IF ty.cls \in Complex THEN 2 ELSE 1, 0, tys)

----------------------------------------------------------------------------
(* The kernel's side *)

\* The parameters of the kernel wrapper, by Numba's argument packer: the
\* members of every struct, in order.  An item is an empty struct.
ParametersOf(ty) ==
  CASE ty.cls = "item" -> <<>>
    [] ty.cls \in Complex ->
         LET part == IF ty.cls = "complex64" THEN "float32" ELSE "float64"
         IN  <<part, part>>
    [] IsUSMNdArray(ty) ->
         <<"int64", "int64", IF IsLocal(ty) THEN "local_accessor" ELSE "void_ptr">>
           \o [d \in 1 .. 2 * ty.ndim |-> "int64"]
    [] OTHER -> <<TypeNum(ty.cls)>>
Parameters(tys) == FlattenSeq([n \in DOMAIN tys |-> ParametersOf(tys[n])])

\* How the kernel sees the flat arguments from position p on as one of type ty.
Repack(ty, flat, p) ==
  LET at(k) == flat[p + k].val
      tuple(first) == [d \in 1 .. ty.ndim |-> at(first + d - 1)]
  IN  CASE ty.cls \in Complex -> <<at(0), at(1)>>
        [] IsUSMNdArray(ty) ->
             [nitems |-> at(0), itemsize |-> at(1), data |-> at(2),
              shape |-> tuple(3), strides |-> tuple(3 + ty.ndim)]
        [] OTHER -> <<at(0)>>

\* What the caller passed, as the kernel should see it: a function of fields, or
\* of the parts of a scalar.  The strides of local memory are left out: those of
\* two and more dimensions are not its own, and the kernel indexes it by shape.
Meant(arg) ==
  CASE IsArray(arg.ty) ->
         [f \in {"nitems", "itemsize", "data", "shape", "strides"} |-> arg.val[f]]
    [] IsLocal(arg.ty) ->
         [nitems |-> Product(arg.val), itemsize |-> arg.ty.itemsize,
          data |-> Metadata(arg), shape |-> arg.val]
    [] arg.ty.cls \in Complex -> <<<<arg.val, "real">>, <<arg.val, "imag">>>>
    [] OTHER -> <<arg.val>>
=============================================================================
