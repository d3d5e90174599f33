--------------------------- MODULE MCDeviceKernel ---------------------------
(***************************************************************************)
(* The kernels that DeviceKernel runs: those of tests/kernel_tests and of  *)
(* docs/source/user_guide/kernel_programming, cut to two, three or four    *)
(* items, and two idioms the atomic operations are there for: a counter    *)
(* incremented with compare_exchange and a reduction by the last arrival.  *)
(***************************************************************************)
EXTENDS DeviceKernel

Global(base, size, dtype) == NpCfArray("global", base, <<size>>, dtype)
Local(base, size, dtype) == NpCfArray("local", base, <<size>>, dtype)

Ref(arr, index, order, scope) ==
  [arr |-> arr, index |-> <<index>>, order |-> order, scope |-> scope, space |-> "none"]
Relaxed(arr, index) == Ref(arr, index, "RELAXED", "DEVICE")  \* the defaults

C(n) == [c |-> n, regs |-> {}]
V(r) == [c |-> 0, regs |-> {r}]
Sum(rs) == [c |-> 0, regs |-> rs]

readAt(r, arr, index) == [op |-> "read", reg |-> r, arr |-> arr, index |-> index]
writeAt(arr, index, e) == [op |-> "write", arr |-> arr, index |-> index, val |-> e]
read(r, arr, n) == [op |-> "read", reg |-> r, arr |-> arr, index |-> <<n>>]
write(arr, n, e) == [op |-> "write", arr |-> arr, index |-> <<n>>, val |-> e]
private(arr, fill) == [op |-> "private", arr |-> arr, fill |-> fill, literal |-> TRUE]
set(r, e) == [op |-> "set", reg |-> r, val |-> e]
branch(r, n, to) == [op |-> "branch", reg |-> r, eq |-> n, to |-> to]
load(r, ref) == [op |-> "load", reg |-> r, ref |-> ref]
spin(ref) == [op |-> "spin", reg |-> "old", ref |-> ref]
store(ref, e) == [op |-> "store", ref |-> ref, val |-> e, valty |-> ref.arr.dtype]
exchange(r, ref, e) ==
  [op |-> "exchange", reg |-> r, ref |-> ref, val |-> e, valty |-> ref.arr.dtype]
fetch(r, name, ref, e) ==
  [op |-> "fetch", reg |-> r, name |-> name, ref |-> ref, val |-> e,
   valty |-> ref.arr.dtype]
cas(r, ref, expected, n, e) ==
  [op |-> "cas", reg |-> r, ref |-> ref, expected |-> expected, idx |-> n, val |-> e,
   valty |-> ref.arr.dtype]
fence(order, scope) == [op |-> "fence", order |-> order, scope |-> scope]
barrier(scope) == [op |-> "barrier", scope |-> scope]

Of(n) == 1 .. n
Alone(n) == [w \in Of(n) |-> w]      \* every item in a group of its own
Together(n) == [w \in Of(n) |-> 1]   \* one group
Kernel(n, group, global, local, code, promise) ==
  [items |-> Of(n), group |-> group, sub |-> [w \in Of(n) |-> w], global |-> global,
   local |-> local, private |-> 0, code |-> code, promise |-> promise]

----------------------------------------------------------------------------
\* test_atomic_fence: a[1] += 1, fence, b.store(1); while not b.load(), fence,
\* a[0] += a[1].  Addresses 1, 2 are a, 3 is b.
A2 == Global(1, 2, "int64")
B1 == Global(3, 1, "int64")
FenceTest ==
  Kernel(2, Alone(2), <<1, 1, 0>>, 0,
    << <<spin(Relaxed(B1, 0)), fence("ACQUIRE", "DEVICE"), read("x", A2, 1),
         read("y", A2, 0), write(A2, 0, Sum({"x", "y"}))>>,
       <<read("x", A2, 1), write(A2, 1, [c |-> 1, regs |-> {"x"}]),
         fence("RELEASE", "DEVICE"), store(Relaxed(B1, 0), C(1))>> >>,
    [a \in {1} |-> 3])

\* The same with the orders on the references.
OrderTest ==
  Kernel(2, Alone(2), <<1, 1, 0>>, 0,
    << <<spin(Ref(B1, 0, "ACQUIRE", "DEVICE")), read("x", A2, 1),
         read("y", A2, 0), write(A2, 0, Sum({"x", "y"}))>>,
       <<read("x", A2, 1), write(A2, 1, [c |-> 1, regs |-> {"x"}]),
         store(Ref(B1, 0, "RELEASE", "DEVICE"), C(1))>> >>,
    [a \in {1} |-> 3])

\* test_group_barrier: a[i] += 1, barrier, item 0 sums.
A3 == Global(1, 3, "int32")
BarrierTest(scope) ==
  LET first(i) == <<read("x", A3, i), write(A3, i, [c |-> 1, regs |-> {"x"}]),
                    barrier(scope)>>
  IN  Kernel(3, Together(3), <<1, 1, 1>>, 0,
        << first(0) \o <<read("x", A3, 0), read("y", A3, 1), read("z", A3, 2),
                         write(A3, 0, Sum({"x", "y", "z"}))>>,
           first(1), first(2) >>,
        [a \in {1} |-> 6])

\* The sliding window of the matrix product: two groups of two items load a
\* block into local memory, synchronise, sum it, synchronise; the first group for
\* two blocks, the second for one.
\* Addresses 1 .. 4 are the input, 5 .. 8 the result.
In == Global(1, 4, "float32")
Out == Global(5, 4, "float32")
Slm == Local(1, 2, "float32")
WindowTest ==
  LET block(i, n) ==
        <<read("x", In, 2 * n + i), write(Slm, i, V("x")), barrier("WORK_GROUP"),
          read("x", Slm, 0), read("y", Slm, 1), set("out", Sum({"out", "x", "y"})),
          barrier("WORK_GROUP")>>
      item(g, i) == block(i, 0) \o (IF g = 0 THEN block(i, 1) ELSE <<>>)
                              \o <<write(Out, 2 * g + i, V("out"))>>
  IN  Kernel(4, <<1, 1, 2, 2>>, <<1, 2, 0, 4, 0, 0, 0, 0>>, 2,
        <<item(0, 0), item(0, 1), item(1, 0), item(1, 1)>>,
        [a \in 5 .. 8 |-> IF a < 7 THEN 7 ELSE 3])

----------------------------------------------------------------------------
\* test_fetch_phi_fn: every item makes the same operation on one element, here
\* with its own value, the last element by a negative index.
FetchTest(name, dtype, v0, vals) ==
  Kernel(3, Alone(3), <<0, v0>>, 0,
    [w \in Of(3) |->
       <<fetch("old", name, Relaxed(Global(1, 2, dtype), -1), C(vals[w]))>>],
    [a \in {1} |-> 0])

Operands == {<<5, <<3, 2, -6>>>>, <<-2, <<1, 6, -3>>>>}
FetchTests ==
  {FetchTest(name, dtype, o[1], o[2]) :
     name \in FetchOps, dtype \in {"int32", "float64", "uint32"}, o \in Operands}

\* test_exchange_fn, and a fetch with a value of another type.
ExchangeTest ==
  Kernel(3, Alone(3), <<7>>, 0,
    [w \in Of(3) |-> <<exchange("old", Relaxed(Global(1, 1, "uint32"), 0), C(w))>>],
    [a \in {} |-> 0])
MixedTest ==
  Kernel(2, Alone(2), <<0, 0>>, 0,
    [w \in Of(2) |->
       <<[fetch("old", "fetch_add", Relaxed(Global(1, 1, "int32"), 0), C(1))
           EXCEPT !.valty = "float64"]>>],
    [a \in {} |-> 0])
\* A 64-bit reference on a device without 64-bit atomics.
NarrowTest ==
  Kernel(2, Alone(2), <<0, 0>>, 0,
    [w \in Of(2) |->
       <<store(Relaxed([Global(1, 1, "int64") EXCEPT !.aspect64 = FALSE], 0), C(1))>>],
    [a \in {} |-> 0])

\* test_load_store_fn: item i copies an element.
CopyTest ==
  Kernel(2, Alone(2), <<5, 6, 0, 0>>, 0,
    [w \in Of(2) |-> <<load("x", Relaxed(Global(1, 2, "float32"), w - 1)),
                       store(Relaxed(Global(3, 2, "float32"), w - 1), V("x"))>>],
    [a \in {3, 4} |-> a + 2])

\* while not ref.compare_exchange(expected, expected[0] + 1): pass, each item
\* with its own element of expected.
CounterTest ==
  LET item(w) ==
        LET e == Global(1 + w, 1, "int32") IN
        <<read("x", e, 0),
          cas("ok", Relaxed(Global(1, 1, "int32"), 0), e, 0, [c |-> 1, regs |-> {"x"}]),
          branch("ok", 0, 1)>>
  IN  Kernel(3, Alone(3), <<0, 0, 0, 0>>, 0, <<item(1), item(2), item(3)>>,
             [a \in {1} |-> 3])

\* Every item writes its part and counts itself; the last one sums the parts.
\* Addresses 1, 2, 3 are the parts, 4 the count, 5 the result.
LastTest ==
  LET parts == Global(1, 3, "int32")
      result == Global(5, 1, "int32")
      sum == <<read("x", parts, 0), read("y", parts, 1), read("z", parts, 2),
               write(result, 0, Sum({"x", "y", "z"}))>>
      item(w) ==
        <<write(parts, w - 1, C(w)),
          fetch("old", "fetch_add", Ref(Global(4, 1, "int32"), 0, "ACQ_REL", "DEVICE"), C(1)),
          branch("old", 2, 5), branch("none", 0, 9)>> \o sum
  IN  Kernel(3, Alone(3), <<0, 0, 0, 0, 0>>, 0, <<item(1), item(2), item(3)>>,
             [a \in {5} |-> 6])

----------------------------------------------------------------------------
\* test_private_array: p[j % 2, j // 2] = j * j, and item i sums p into a[i]; row
\* p[1] is read through a view of it.
Squares ==
  LET a == Global(1, 2, "float32")
      p == NpCfArray("private", 1, <<2, 2>>, "float32")
      item(i) ==
        <<private(p, FALSE)>>
          \o [n \in 1 .. 4 |-> writeAt(p, <<(n - 1) % 2, (n - 1) \div 2>>, C((n - 1) * (n - 1)))]
          \o <<readAt("x", p, <<0, 0>>), readAt("y", p, <<0, 1>>),
               readAt("z", View(p, <<1>>), <<0>>), readAt("old", View(p, <<1>>), <<-1>>),
               write(a, i, Sum({"x", "y", "z", "old"}))>>
  IN  [Kernel(2, Alone(2), <<3, 3>>, 0, <<item(0), item(1)>>, [a1 \in {1, 2} |-> 14])
         EXCEPT !.private = 4]

\* A private array made in a loop that runs twice, with fill_zeros: p[i] += 1, and
\* the sum of p goes to a[i].
ZeroedLoop(literal) ==
  LET a == Global(1, 2, "float32")
      p == NpCfArray("private", 1, <<2>>, "float32")
      item(i) ==
        <<[private(p, TRUE) EXCEPT !.literal = literal], read("x", p, i),
          write(p, i, [c |-> 1, regs |-> {"x"}]), read("x", p, 0), read("y", p, 1),
          set("z", [c |-> 1, regs |-> {"z"}]), branch("z", 1, 1),
          write(a, i, Sum({"x", "y"}))>>
  IN  [Kernel(2, Alone(2), <<3, 3>>, 0, <<item(0), item(1)>>, [a1 \in {1, 2} |-> 1])
         EXCEPT !.private = 2]

\* test_strided_dpnp_array_in_kernel: b[i] = a[i] for a[::-2] of five elements.
StridedTest ==
  LET a == [Global(5, 3, "int64") EXCEPT !.strides = <<-2>>, !.layout = "A"]
      b == Global(6, 3, "int64")
  IN  Kernel(3, Alone(3), <<1, 2, 3, 4, 5, 0, 0, 0>>, 0,
        [w \in Of(3) |-> <<read("x", a, w - 1), write(b, w - 1, V("x"))>>],
        [n \in 6 .. 8 |-> 5 - 2 * (n - 6)])

\* An element of a 2-D array by one index.
IndexTest ==
  Kernel(2, Alone(2), <<0, 0>>, 0,
    [w \in Of(2) |->
       <<load("x", Relaxed(NpCfArray("global", 1, <<1, 2>>, "int32"), 0))>>],
    [a \in {} |-> 0])

MCKernels ==
  {FenceTest, OrderTest, BarrierTest("DEVICE"), BarrierTest("WORK_GROUP"), WindowTest,
   ExchangeTest, MixedTest, NarrowTest, CopyTest, CounterTest, LastTest,
   Squares, ZeroedLoop(TRUE), ZeroedLoop(FALSE), StridedTest, IndexTest} \cup FetchTests
MCGarbage == {0, 3}
MCRegs == {"x", "y", "z", "old", "ok", "out", "none"}
=============================================================================
