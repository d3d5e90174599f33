------------------------------- MODULE ArrayData -------------------------------
(***************************************************************************)
(* Where the elements of an array are, and what they hold.  Python's       *)
(* arrays, with strides in elements or none, are unboxed to native ones,   *)
(* with strides in bytes (core/runtime/_dpexrt_python.c); a dpjit function *)
(* takes views of them (dpctl_iface/arrayobj.py), makes new ones and fills *)
(* them (dpnp_iface); what it returns is boxed, as the argument it came    *)
(* from or as a new object.  A program calls one function after another on *)
(* the arrays it has.                                                      *)
(*                                                                         *)
(* Numbers are counted in halves, so that 3 is the float 1.5 and 4 is 2.   *)
(* Reference counts are in MemInfo, devices and USM types in               *)
(* ComputeFollowsData.                                                     *)
(***************************************************************************)
EXTENDS Integers, Sequences, FiniteSetsExt, SequencesExt

CONSTANTS
  Arguments,   \* the arrays the program made before: [class, data, shape,
               \* strides, dtype, size]
  Creations,   \* calls of empty, zeros, ones and full: [fn, shape, dtype, order,
               \* value]
  Likes,       \* calls of empty_like ... full_like: [fn, shape, order, value]
  Subscripts,  \* sequences of indices
  Bits,        \* the width of the integers of 1, 2, 4 and 8 bytes
  CountBits,   \* the width of the number of elements to fill
  MaxBytes,    \* the greatest intp
  MaxFrame,    \* how many arrays a function has
  MaxBlocks,   \* how many allocations there are, the arguments' included
  MaxObjects   \* how many arrays the program has

Null == <<>>        \* dpctl keeps no strides of a C-contiguous array
Default == "default"
DefaultDtype == [kind |-> Default, exp |-> 0]
Absent == <<>>      \* no shape is given

Classes == {"dpnp", "usm"}
Dtypes == [kind : {"int", "uint", "float", "complex"}, exp : Nat]

Pow2[n \in Nat] == IF n = 0 THEN 1 ELSE 2 * Pow2[n - 1]

\* The values that a program can write: integers of 64 bits are within their range.
ValueTypes == {"bool", "int32", "uint32", "int64", "uint64", "float32", "float64"}
Values ==
  {v \in [ty : ValueTypes, num : Int] :
     /\ v.ty = "int64" => \E n \in -Pow2[Bits[3] - 1] .. Pow2[Bits[3] - 1] - 1 : v.num = 2 * n
     /\ v.ty = "uint64" => \E n \in 0 .. Pow2[Bits[3]] - 1 : v.num = 2 * n}

ASSUME ArrayAssumption ==
  /\ MaxFrame \in Nat \ {0} /\ MaxBlocks \in Nat /\ MaxObjects \in Nat
  /\ MaxBytes \in Nat /\ CountBits \in Nat
  /\ Bits \in [0 .. 3 -> Nat] /\ Bits[3] > 1
  /\ \A e \in 0 .. 3 : 0 < Bits[e] /\ Bits[e] <= Bits[3]

\* What the program calls with: arrays of numbers, indices from 0, and values.
ASSUME CallAssumption ==
  /\ Arguments # <<>>
  /\ Arguments \in Seq([class : Classes, data : Int, shape : Seq(Nat), strides : Seq(Int),
                        dtype : Dtypes, size : Nat])
  /\ \A n \in DOMAIN Arguments : Len(Arguments[n].strides) = Len(Arguments[n].shape)
  /\ Subscripts \subseteq Seq([at : Nat] \cup [lo : Nat, hi : Nat, step : Nat])
  /\ \A c \in Creations :
       /\ c.shape \in Seq(Nat) /\ c.dtype \in Dtypes \cup {DefaultDtype}
       /\ c.fn \in {"empty", "zeros", "ones", "full"} /\ c.value \in Values
  /\ \A c \in Likes :
       c.fn \in {"empty", "zeros", "ones", "full"} /\ c.value \in Values

VARIABLES
  objects,   \* the program's arrays
  blocks,    \* the USM allocations: their size and what they were filled with
  frame,     \* the arrays of the running function
  returned,  \* the array the last call returned, and what it was to be
  raised     \* the error that ended the last call

vars == <<objects, blocks, frame, returned, raised>>

NoFill == [as |-> "nothing", num |-> 0]
Nothing == [object |-> 0]

Float64 == [kind |-> "float", exp |-> 3]
Int64 == [kind |-> "int", exp |-> 3]
ItemSize(t) == Pow2[t.exp]

----------------------------------------------------------------------------
(* Shapes and strides *)

Product(s) ==
  LET p[k \in 0 .. Len(s)] == IF k = 0 THEN 1 ELSE p[k - 1] * s[k] IN p[Len(s)]

\* Strides in elements, of the C and of the F layout.
RowMajor(shape) ==
  [d \in DOMAIN shape |-> Product(SubSeq(shape, d + 1, Len(shape)))]
ColumnMajor(shape) ==
  [d \in DOMAIN shape |-> Product(SubSeq(shape, 1, d - 1))]

Times(strides, n) == [d \in DOMAIN strides |-> strides[d] * n]
At(data, index, strides) ==
  LET p[k \in 0 .. Len(index)] ==
        IF k = 0 THEN data ELSE p[k - 1] + index[k] * strides[k]
  IN  p[Len(index)]

Indices(shape) ==
  {i \in [DOMAIN shape -> 0 .. Max({1} \cup Range(shape)) - 1] :
     \A d \in DOMAIN shape : i[d] < shape[d]}

\* The strides of extents below 2 do not matter.
Follows(strides, shape, order) ==
  \/ Product(shape) = 0
  \/ \A d \in DOMAIN shape : shape[d] > 1 => strides[d] = order[d]

\* A usm_ndarray made of a pointer: dpctl drops the strides of a C layout.
MakeFromPtr(class, block, data, shape, strides, dtype, means) ==
  [class |-> class, block |-> block, data |-> data, shape |-> shape, dtype |-> dtype,
   strides |-> IF Follows(strides, shape, RowMajor(shape)) THEN Null ELSE strides,
   means |-> means]

\* numba.np.numpy_support.map_layout
MapLayout(o) ==
  CASE o.strides = Null -> "C"
    [] o.strides # Null /\ Follows(o.strides, o.shape, ColumnMajor(o.shape)) -> "F"
    [] OTHER -> "A"

\* The address that Python finds an element at.
PythonAddress(o, i) ==
  At(o.data, i,
     Times(IF o.strides = Null THEN RowMajor(o.shape) ELSE o.strides, ItemSize(o.dtype)))

\* The address that compiled code finds an element at: the type of an array says
\* whether its strides are looked at.
NativeAddress(a, i) ==
  At(a.data, i, CASE a.layout = "C" -> Times(RowMajor(a.shape), a.itemsize)
                  [] a.layout = "F" -> Times(ColumnMajor(a.shape), a.itemsize)
                  [] a.layout = "A" -> a.strides)

----------------------------------------------------------------------------
(* The frame of a dpjit function *)

Stay == UNCHANGED <<objects, blocks, returned, raised>>

\* The end of a call: memory that only its frame had is forgotten.
End == frame' = <<>> /\ blocks' = SubSeq(blocks, 1, Max({objects'[n].block : n \in DOMAIN objects'}))
Raise(e) == raised' = e /\ UNCHANGED <<objects, returned>> /\ End
Running == raised = "none"
Room == Running /\ Len(frame) < MaxFrame
Enter(a) == frame' = Append(frame, a)

\* The strides that the unboxing writes: those of the object shifted to bytes, or
\* products of extents, from the first dimension to the last.
UnboxedStrides(o) ==
  IF o.strides # Null THEN Times(o.strides, ItemSize(o.dtype))
  ELSE [m \in DOMAIN o.shape |->
          Product([k \in 1 .. Len(o.shape) - m |-> o.shape[Len(o.shape) - k + 1]])
            * ItemSize(o.dtype)]

\* Faulty: no check of the number of dimensions.
UnboxAnyRank(n) ==
  LET o == objects[n] IN
  /\ Room
  /\ Enter([class |-> o.class, dtype |-> o.dtype, layout |-> MapLayout(o),
            block |-> o.block, data |-> o.data, shape |-> o.shape,
            strides |-> UnboxedStrides(o), itemsize |-> ItemSize(o.dtype),
            parent |-> n, queue |-> "queue", means |-> o.means])
  /\ Stay

Unbox(n) ==
  LET o == objects[n] IN
  /\ Room /\ o.shape # <<>>
  /\ Enter([class |-> o.class, dtype |-> o.dtype, layout |-> MapLayout(o),
            block |-> o.block, data |-> o.data, shape |-> o.shape,
            strides |-> UnboxedStrides(o), itemsize |-> ItemSize(o.dtype),
            parent |-> n, queue |-> "queue", means |-> o.means])
  /\ Stay

\* The runtime takes a number of dimensions of 0 for a failure.
UnboxFails(n) ==
  /\ Room /\ objects[n].shape = <<>>
  /\ Raise("TypeError")

\* a[i], a[lo:hi], a[lo:hi:step] and tuples of them.  An index is [at] or
\* [lo, hi, step]; step is 0 where the program gives none.
IsSlice(x) == "lo" \in DOMAIN x
First(x) == IF IsSlice(x) THEN x.lo ELSE x.at
Step(x) == IF IsSlice(x) /\ x.step # 0 THEN x.step ELSE 1
Extent(x) == IF x.lo < x.hi THEN (x.hi - x.lo + Step(x) - 1) \div Step(x) ELSE 0
Fits(x, extent) == IF IsSlice(x) THEN x.hi <= extent ELSE x.at < extent

\* The dimensions that a subscript keeps.
Kept(a, ix) ==
  LET kept[d \in 0 .. Len(a.shape)] ==
        IF d = 0 THEN <<>>
        ELSE IF d > Len(ix) \/ IsSlice(ix[d]) THEN Append(kept[d - 1], d) ELSE kept[d - 1]
  IN  kept[Len(a.shape)]

\* numba's get_array_index_type: a view stays contiguous if it takes one place in
\* all but the innermost indexed dimension, and a slice without a step there.
Contiguous(x) == ~IsSlice(x) \/ x.step = 0
ViewLayout(a, ix) ==
  LET Whole(innermost, outer) ==
        Contiguous(ix[innermost]) /\ \A d \in outer : ~IsSlice(ix[d])
  IN CASE a.layout = "C" /\ Whole(Len(ix), 1 .. Len(ix) - 1) -> "C"
       [] a.layout = "F" /\ Len(ix) = Len(a.shape) /\ Whole(1, 2 .. Len(ix)) -> "F"
       [] OTHER -> "A"

\* Where a subscript begins in a dimension, and how far it goes from one element to
\* the next.
Base(ix, d) == IF d \in DOMAIN ix THEN First(ix[d]) ELSE 0
Pace(ix, d) == IF d \in DOMAIN ix THEN Step(ix[d]) ELSE 1

ViewShape(a, ix) ==
  [j \in DOMAIN Kept(a, ix) |->
     LET d == Kept(a, ix)[j] IN IF d \in DOMAIN ix THEN Extent(ix[d]) ELSE a.shape[d]]
ViewStrides(a, ix) ==
  [j \in DOMAIN Kept(a, ix) |-> a.strides[Kept(a, ix)[j]] * Pace(ix, Kept(a, ix)[j])]

\* The element of an array that is at place i of its view.
Source(a, ix, i) ==
  LET kept == Kept(a, ix)
  IN  [d \in DOMAIN a.shape |->
         IF Contains(kept, d)
         THEN Base(ix, d) + Pace(ix, d) * i[CHOOSE j \in DOMAIN kept : kept[j] = d]
         ELSE Base(ix, d)]

\* numba's basic_indexing and make_view
View(a, ix, queue) ==
  [a EXCEPT !.layout = ViewLayout(a, ix),
            !.data = At(@, [d \in DOMAIN ix |-> First(ix[d])], a.strides),
            !.shape = ViewShape(a, ix),
            !.strides = ViewStrides(a, ix),
            !.queue = queue,
            !.means = [i \in Indices(ViewShape(a, ix)) |-> a.means[Source(a, ix, i)]]]

Subscriptable(n, ix) ==
  /\ Room
  /\ Len(ix) <= Len(frame[n].shape) /\ Kept(frame[n], ix) # <<>>
  /\ \A d \in DOMAIN ix : Fits(ix[d], frame[n].shape[d])

\* The subscripts that the repository lowers pass the queue on ...
Getitem(n, ix) ==
  /\ Subscriptable(n, ix) /\ Len(ix) = 1
  /\ Enter(View(frame[n], ix, frame[n].queue))
  /\ Stay

\* ... and numba's own, for tuples, does not know of the field.
GetitemTuple(n, ix) ==
  /\ Subscriptable(n, ix) /\ Len(ix) > 1
  /\ Enter(View(frame[n], ix, "null"))
  /\ Stay

----------------------------------------------------------------------------
(* Constructors *)

\* The value of zeros and ones is an intp.
Value(c) ==
  CASE c.fn = "zeros" -> [ty |-> "int64", num |-> 0]
    [] c.fn = "ones" -> [ty |-> "int64", num |-> 2]
    [] OTHER -> c.value

ValueDtype(v) ==
  CASE v.ty = "float64" -> Float64
    [] v.ty = "uint64" -> [kind |-> "uint", exp |-> 3]
    [] OTHER -> Int64

CreatedDtype(c) ==
  CASE c.dtype # DefaultDtype -> c.dtype
    [] c.dtype = DefaultDtype /\ c.fn = "full" -> ValueDtype(c.value)
    [] OTHER -> Float64

Layouts == {"C", "F", "A"}
LayoutOf(order) == IF order = Default THEN "C" ELSE order

\* The bits of the value are passed as 64-bit integers, which LLVM refuses for a
\* value of another size.
ValuePasses(c) == c.fn = "empty" \/ Value(c).ty \in {"int64", "uint64", "float64"}

\* The first of a sequence of checks that fails.
FirstFailed(checks) ==
  LET failed == {n \in DOMAIN checks : ~checks[n][1]}
  IN IF failed = {} THEN "none" ELSE checks[Min(failed)][2]

\* Why a call does not compile: the checks of the overload, then of its lowering.
CreationError(c) ==
  FirstFailed(<< <<LayoutOf(c.order) \in Layouts, "NumbaValueError">>,
                 <<c.shape # <<>>, "TypingError">>,
                 <<LayoutOf(c.order) # "A", "NotImplementedError">>,
                 <<ValuePasses(c), "RuntimeError">> >>)

\* An order that is given is not parsed: its type is not a layout.
LikeError(c, a) ==
  FirstFailed(<< <<c.shape = Absent, "TypingError">>,
                 <<a.class = "dpnp" \/ c.fn = "full", "TypingError">>,
                 <<c.order = Default, "NumbaValueError">>,
                 <<ValuePasses(c), "RuntimeError">> >>)

\* Integers modulo the width of their type, of either sign.
Unsigned(n, w) == n % Pow2[w]
Signed(n, w) == Unsigned(n + Pow2[w - 1], w) - Pow2[w - 1]
Truncated(h) == IF h < 0 THEN -((-h) \div 2) ELSE h \div 2

\* The bits of a value as the runtime gets them: an integer's are those of int64_t.
Raw(v) == IF v.ty = "float64" THEN v.num ELSE 2 * Signed(v.num \div 2, Bits[3])

\* Faulty: the bits of an integer are taken for those of a float.
PatternAsIs(t, v) ==
  IF t.kind = "float" /\ v.ty = "float64" THEN [as |-> "float", num |-> Raw(v)]
  ELSE [as |-> "int", num |-> Signed(Truncated(Raw(v)), Bits[t.exp])]

\* DPEXRT_MemInfo_fill: the pattern it repeats, one item wide.  A float that the
\* signed integer of the item's width does not hold is converted to anything.
FillFails(t) == t.exp \notin 0 .. 3 \/ (t.kind = "float" /\ t.exp < 2)
Pattern(t, v) ==
  LET n == Truncated(Raw(v))
      kept == Signed(n, Bits[t.exp])
  IN CASE t.kind = "float" -> [as |-> "float", num |-> Raw(v)]
       [] t.kind # "float" /\ (v.ty # "float64" \/ kept = n) -> [as |-> "int", num |-> kept]
       [] OTHER -> [as |-> "anything", num |-> 0]

FillCount(size, t) == (size \div ItemSize(t)) % Pow2[CountBits]

\* A block that a call filled, or left as it was.
Filled(c, t, size) ==
  IF c.fn = "empty" THEN [size |-> size, fill |-> NoFill]
  ELSE [size |-> size, fill |-> Pattern(t, Value(c)), item |-> ItemSize(t),
        count |-> FillCount(size, t), asked |-> Value(c)]

\* _empty_nd_impl
NewStrides(layout, shape, t) ==
  CASE layout = "C" -> Times(RowMajor(shape), ItemSize(t))
    [] layout = "F" -> Times(ColumnMajor(shape), ItemSize(t))
AllocSize(shape, t) == Product(shape) * ItemSize(t)

\* Why a call that compiled fails: the size, the allocation or the fill.  What an
\* allocation of no bytes returns is up to SYCL.
RunError(c, t, shape, queue, allocated) ==
  FirstFailed(<< <<AllocSize(shape, t) <= MaxBytes, "ValueError">>,
                 <<queue # "null" /\ (AllocSize(shape, t) > 0 \/ allocated), "MemoryError">>,
                 <<c.fn = "empty" \/ ~FillFails(t), "MemoryError">> >>)

Make(c, t, layout, shape) ==
  LET strides == NewStrides(layout, shape, t) IN
  /\ Len(blocks) < MaxBlocks
  /\ blocks' = Append(blocks, Filled(c, t, AllocSize(shape, t)))
  /\ Enter([class |-> "dpnp", dtype |-> t, layout |-> layout,
            block |-> Len(blocks) + 1, data |-> 0, shape |-> shape,
            strides |-> strides, itemsize |-> ItemSize(t), parent |-> 0,
            queue |-> "queue", means |-> [i \in Indices(shape) |-> At(0, i, strides)]])
  /\ UNCHANGED <<objects, returned, raised>>

Create(c) ==
  /\ Room /\ CreationError(c) = "none"
  /\ \E allocated \in BOOLEAN :
       LET e == RunError(c, CreatedDtype(c), c.shape, "queue", allocated)
       IN IF e = "none" THEN Make(c, CreatedDtype(c), LayoutOf(c.order), c.shape)
          ELSE Raise(e)
CreateRefused(c) ==
  /\ Room /\ CreationError(c) # "none"
  /\ Raise(CreationError(c))

\* The result has the type of the elements and the extents of the array, and the
\* default layout; it is allocated on the queue of the array.
CreateLike(c, n) ==
  /\ Room /\ LikeError(c, frame[n]) = "none"
  /\ \E allocated \in BOOLEAN :
       LET a == frame[n]
           e == RunError(c, a.dtype, a.shape, a.queue, allocated)
       IN IF e = "none" THEN Make(c, a.dtype, LayoutOf(c.order), a.shape) ELSE Raise(e)
CreateLikeRefused(c, n) ==
  /\ Room /\ LikeError(c, frame[n]) # "none"
  /\ Raise(LikeError(c, frame[n]))

----------------------------------------------------------------------------
(* Boxing *)

\* Faulty: the extents are not compared.
SameStart(a) ==
  /\ a.parent # 0
  /\ LET p == objects[a.parent] IN
     p.block = a.block /\ p.data = a.data /\ UnboxedStrides(p) = a.strides

\* box_from_arystruct_parent: is the array still the object it came from?
SameAsParent(a) ==
  /\ a.parent # 0
  /\ LET p == objects[a.parent] IN
     /\ p.block = a.block /\ p.data = a.data
     /\ p.shape = a.shape
     /\ UnboxedStrides(p) = a.strides

Leave(n, r) ==
  /\ returned' = [object |-> r, means |-> frame[n].means, dtype |-> frame[n].dtype]
  /\ End

ReturnParent(n) ==
  /\ Running /\ SameAsParent(frame[n])
  /\ UNCHANGED <<objects, raised>>
  /\ Leave(n, frame[n].parent)

\* The strides are shifted back to elements.
ReturnNew(n) ==
  LET a == frame[n] IN
  /\ Running /\ ~SameAsParent(a) /\ a.queue # "null"
  /\ Len(objects) < MaxObjects
  /\ objects' = Append(objects,
       MakeFromPtr("dpnp", a.block, a.data, a.shape,
                   [d \in DOMAIN a.strides |-> a.strides[d] \div a.itemsize], a.dtype,
                   a.means))
  /\ Leave(n, Len(objects) + 1)
  /\ UNCHANGED raised

\* dpctl makes no array without a queue.
ReturnFails(n) ==
  /\ Running /\ ~SameAsParent(frame[n]) /\ frame[n].queue = "null"
  /\ Raise("ValueError")

\* The function returns something else; the program goes on after an error.
Drop == Running /\ frame # <<>> /\ UNCHANGED <<objects, returned, raised>> /\ End
GoOn == raised # "none" /\ raised' = "none" /\ UNCHANGED <<objects, blocks, frame, returned>>

Init ==
  /\ objects = [n \in DOMAIN Arguments |->
                  LET o == Arguments[n] IN
                  MakeFromPtr(o.class, n, o.data, o.shape, o.strides, o.dtype,
                    [i \in Indices(o.shape) |->
                       At(o.data, i, Times(o.strides, ItemSize(o.dtype)))])]
  /\ blocks = [n \in DOMAIN Arguments |-> [size |-> Arguments[n].size, fill |-> NoFill]]
  /\ frame = <<>> /\ returned = Nothing /\ raised = "none"

Next ==
  \/ \E n \in DOMAIN objects : Unbox(n) \/ UnboxFails(n)
  \/ \E n \in DOMAIN frame, ix \in Subscripts : Getitem(n, ix) \/ GetitemTuple(n, ix)
  \/ \E c \in Creations : Create(c) \/ CreateRefused(c)
  \/ \E n \in DOMAIN frame, c \in Likes : CreateLike(c, n) \/ CreateLikeRefused(c, n)
  \/ \E n \in DOMAIN frame : ReturnParent(n) \/ ReturnNew(n) \/ ReturnFails(n)
  \/ Drop
  \/ GoOn

Spec == Init /\ [][Next]_vars

----------------------------------------------------------------------------
(* Properties *)

Errors == {"TypeError", "TypingError", "NumbaValueError", "NotImplementedError",
           "RuntimeError", "ValueError", "MemoryError"}

\* Arrays and objects are in allocations, have as many strides as extents, and
\* their items are of the size of their type.
TypeOK ==
  /\ \A n \in DOMAIN frame :
       LET a == frame[n] IN
       /\ a.block \in DOMAIN blocks /\ a.parent \in {0} \cup DOMAIN objects
       /\ a.layout \in Layouts /\ a.queue \in {"queue", "null"}
       /\ Len(a.strides) = Len(a.shape) /\ Len(a.shape) > 0
       /\ a.itemsize = ItemSize(a.dtype)
       /\ DOMAIN a.means = Indices(a.shape)
  /\ \A n \in DOMAIN objects :
       /\ objects[n].block \in DOMAIN blocks
       /\ objects[n].strides # Null => Len(objects[n].strides) = Len(objects[n].shape)
       /\ DOMAIN objects[n].means = Indices(objects[n].shape)
  /\ returned # Nothing => returned.object \in DOMAIN objects
  /\ raised \in Errors \cup {"none"}

\* An array's elements, where means says: distinct items of its allocation.
Separate(block, means, itemsize) ==
  \A i \in DOMAIN means :
    /\ means[i] \in 0 .. blocks[block].size - itemsize
    /\ \A j \in DOMAIN means \ {i} : means[j] >= means[i] + itemsize \/ means[i] >= means[j] + itemsize

\* Through unboxing, views of views, constructors and boxing, compiled code and
\* Python find each element of an array where it is: the strides change their unit
\* and are left out in turns, the type of a view decides whether compiled code
\* looks at them, and an array that is no longer its argument is not taken for it.
ElementsExact ==
  /\ \A n \in DOMAIN frame :
       LET a == frame[n] IN
       /\ Separate(a.block, a.means, a.itemsize)
       /\ \A i \in Indices(a.shape) : NativeAddress(a, i) = a.means[i]
  /\ \A n \in DOMAIN objects : \A i \in Indices(objects[n].shape) :
       PythonAddress(objects[n], i) = objects[n].means[i]
  /\ returned # Nothing =>
       LET o == objects[returned.object]
       IN o.means = returned.means /\ o.dtype = returned.dtype

\* What an item of a type is known to hold after a fill.  The bits of another kind
\* of number mean nothing, but for zero.
Decode(t, p) ==
  CASE p.as = "int" /\ t.kind = "int" -> {2 * p.num}
    [] p.as = "int" /\ t.kind = "uint" -> {2 * Unsigned(p.num, Bits[t.exp])}
    [] p.as = "float" /\ t.kind = "float" -> {p.num}
    [] p.as = "int" /\ t.kind = "complex" /\ p.num = 0 -> {0}
    [] OTHER -> {}
Read(b, address, t) ==
  IF address % b.item = 0 /\ address \div b.item < b.count THEN Decode(t, b.fill) ELSE {}

\* The value as an element of the type: dpnp's conversion.
Asked(t, v) ==
  CASE t.kind \in {"float", "complex"} -> v.num
    [] t.kind = "int" -> 2 * Signed(Truncated(v.num), Bits[t.exp])
    [] t.kind = "uint" -> 2 * Unsigned(Truncated(v.num), Bits[t.exp])

\* What the fill can do: as many items as an unsigned int counts; no complex
\* number but zero; a float that a signed integer of the item's width holds, to
\* an integer; an integer that int64_t holds, to a float.
Fillable(b, t) ==
  LET v == b.asked IN
  /\ b.size \div ItemSize(t) < Pow2[CountBits]
  /\ t.kind = "complex" => v.num = 0
  /\ v.ty = "float64" /\ t.kind \in {"int", "uint"} =>
       Signed(Truncated(v.num), Bits[t.exp]) = Truncated(v.num)
  /\ v.ty = "uint64" /\ t.kind = "float" => v.num \div 2 < Pow2[Bits[3] - 1]

\* Every element of an array that zeros, ones or full made, seen through any view
\* of it and by Python, holds the value that the program gave.
FilledAsAsked ==
  LET Holds(block, t, address) ==
        blocks[block].fill # NoFill /\ Fillable(blocks[block], t) =>
          Asked(t, blocks[block].asked) \in Read(blocks[block], address, t)
  IN /\ \A n \in DOMAIN frame : \A i \in Indices(frame[n].shape) :
          Holds(frame[n].block, frame[n].dtype, NativeAddress(frame[n], i))
     /\ \A n \in DOMAIN objects : \A i \in Indices(objects[n].shape) :
          Holds(objects[n].block, objects[n].dtype, PythonAddress(objects[n], i))

================================================================================
