------------------------------ MODULE MCArrayData ------------------------------
(* An instance of ArrayData. *)
EXTENDS ArrayData

T(k, e) == [kind |-> k, exp |-> e]

\* A C and an F matrix, every other element of a vector that starts at the second,
\* and an array without dimensions.
MCArguments ==
  << [class |-> "dpnp", data |-> 0, shape |-> <<2, 3>>,
      strides |-> <<3, 1>>, dtype |-> T("float", 2), size |-> 24],
     [class |-> "usm", data |-> 0, shape |-> <<2, 3>>,
      strides |-> <<1, 2>>, dtype |-> T("int", 3), size |-> 48],
     [class |-> "dpnp", data |-> 2, shape |-> <<3>>,
      strides |-> <<2>>, dtype |-> T("int", 1), size |-> 16],
     [class |-> "dpnp", data |-> 0, shape |-> <<>>,
      strides |-> <<>>, dtype |-> T("int", 0), size |-> 1] >>

Slice(lo, hi, step) == [lo |-> lo, hi |-> hi, step |-> step]
MCSubscripts ==
  { <<[at |-> 1]>>, <<Slice(0, 2, 0)>>, <<Slice(1, 2, 0)>>, <<Slice(0, 3, 2)>>,
    <<Slice(1, 3, 0)>>, <<Slice(2, 2, 0)>>,
    <<Slice(0, 2, 0), Slice(1, 3, 0)>>, <<[at |-> 1], Slice(0, 2, 0)>>,
    <<Slice(0, 2, 0), [at |-> 1]>> }

V(t, n) == [ty |-> t, num |-> n]
New(fn, shape, dtype, order, value) ==
  [fn |-> fn, shape |-> shape, dtype |-> dtype, order |-> order, value |-> value]
None == V("int64", 0)

\* The values: -2.5, 2.5, 11 and -9, which an int8 of 4 bits does not hold, 70, which
\* an int64 of 7 bits does not hold, and a float32.
Given == {V("float64", -5), V("int64", 22), V("float64", -18), V("uint64", 140)}
Filling == {T("int", 0), T("uint", 1), T("int", 3), T("float", 1), T("float", 2), T("float", 3),
           T("complex", 3), T("complex", 4)}
MCCreations ==
  {New(fn, <<2, 3>>, DefaultDtype, order, None) :
     fn \in {"empty", "ones"}, order \in {Default, "F", "A", "K"}}
  \cup {New(fn, <<2>>, t, Default, None) : fn \in {"zeros", "ones"}, t \in Filling}
  \cup {New("full", <<2>>, t, Default, v) : t \in Filling \cup {DefaultDtype}, v \in Given}
  \cup {New("full", <<2>>, DefaultDtype, Default, V("float32", 3)),
        New("ones", <<>>, DefaultDtype, Default, None), New("zeros", <<9>>, T("int", 0), "C", None),
        New("ones", <<9>>, DefaultDtype, "C", None), New("zeros", <<0>>, DefaultDtype, Default, None)}

MCLikes ==
  {[fn |-> fn, shape |-> Absent, order |-> Default, value |-> V("float64", 5)] :
     fn \in {"empty", "zeros", "ones", "full"}}
  \cup {[fn |-> "zeros", shape |-> Absent, order |-> "F", value |-> None],
        [fn |-> "ones", shape |-> <<2>>, order |-> Default, value |-> None],
        [fn |-> "full", shape |-> Absent, order |-> Default, value |-> V("float32", 3)]}

MCBits == [e \in 0 .. 3 |-> 4 + e]

================================================================================
