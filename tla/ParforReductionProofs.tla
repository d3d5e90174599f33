----------------------- MODULE ParforReductionProofs -----------------------
(***************************************************************************)
(* Proofs about ParforReduction: the barriers of the main kernel separate  *)
(* the accesses to local memory for every size of the work group, number   *)
(* of groups and length of the loop; and for a work group whose size is a  *)
(* power of two, as the code's is, the loop makes each iteration exactly   *)
(* once.                                                                   *)
(***************************************************************************)
EXTENDS ParforReduction, TLAPS

\* The sizes ReductionHelper computes are numbers.
LEMMA Sizes ==
  /\ GlobalSizeMod \in Nat /\ GlobalSize \in Int /\ PartialSumSize \in Int
  BY ReductionAssumption DEF GlobalSizeMod, GlobalSize, PartialSumSize

\* Combining two contributions gives one, and so does the body of the loop.
LEMMA Contributions ==
  /\ Identity \in Contribution
  /\ \A i : Once(i) \in Contribution
  /\ \A a, b \in Contribution : Combine(a, b) \in Contribution
  /\ \A i : Body(i) \in Contribution
<1>1. Identity \in Contribution
  BY DEF Identity, Contribution
<1>2. \A i : Once(i) \in Contribution
  BY <1>1 DEF Once, Contribution
<1>3. \A a, b \in Contribution : Combine(a, b) \in Contribution
  BY DEF Combine, Contribution
<1> QED
  BY <1>1, <1>2, <1>3 DEF Body

\* A halved stride is a stride again, and smaller.
LEMMA Halving ==
  /\ WorkGroupSize \div 2 \in 0 .. WorkGroupSize \div 2
  /\ \A s \in 0 .. WorkGroupSize \div 2 :
       /\ s \div 2 \in 0 .. WorkGroupSize \div 2
       /\ s > 0 => s \div 2 < s
       /\ \A i \in Item : i < s => i + s \in Item
  BY ReductionAssumption DEF Item

\* Types are preserved by the work items and the host.
LEMMA TypeStep == TypeOK /\ [Next]_vars => TypeOK'
<1> SUFFICES ASSUME TypeOK, [Next]_vars PROVE TypeOK'
  OBVIOUS
<1> USE DEF TypeOK
<1>1. ASSUME NEW g \in Group, NEW i \in Item, RunBody(g, i) PROVE TypeOK'
  <2>1. Body(g * WorkGroupSize + i) \in Contribution
    BY Contributions
  <2> QED
    BY <1>1, <2>1, Halving DEF RunBody, Loop
<1>2. ASSUME NEW g \in Group, Barrier(g) PROVE TypeOK'
  BY <1>2 DEF Barrier
<1>3. ASSUME NEW g \in Group, NEW i \in Item, Reduce(g, i) PROVE TypeOK'
  <2>1. stride[g][i] \in 0 .. WorkGroupSize \div 2
    OBVIOUS
  <2>2. stride[g][i] \div 2 \in 0 .. WorkGroupSize \div 2
    BY <2>1, Halving
  <2>3. sums' \in [Group -> [Item -> Contribution]]
    <3>1. CASE i < stride[g][i]
      <4>1. i + stride[g][i] \in Item
        BY <2>1, <3>1, Halving
      <4>2. Combine(sums[g][i], sums[g][i + stride[g][i]]) \in Contribution
        BY <4>1, Contributions
      <4> QED
        BY <1>3, <3>1, <4>2 DEF Reduce
    <3>2. CASE ~(i < stride[g][i])
      BY <1>3, <3>2 DEF Reduce
    <3> QED
      BY <3>1, <3>2
  <2>4. /\ stride' \in [Group -> [Item -> 0 .. WorkGroupSize \div 2]]
        /\ pc' \in [Group -> [Item -> {"body", "barrier", "reduce", "write", "end"}]]
    BY <1>3, <2>2 DEF Reduce, Loop
  <2> QED
    BY <1>3, <2>3, <2>4 DEF Reduce
<1>4. ASSUME NEW g \in Group, NEW i \in Item, Write(g, i) PROVE TypeOK'
  <2>1. partial' \in [Group -> Contribution]
    <3>1. 0 \in Item
      BY ReductionAssumption DEF Item
    <3>2. sums[g][0] \in Contribution
      BY <3>1
    <3> QED
      BY <1>4, <3>2 DEF Write
  <2> QED
    BY <1>4, <2>1 DEF Write
<1>5. CASE MainDone
  BY <1>5 DEF MainDone, items
<1>6. CASE AddPartial
  <2>1. next \in Group
    BY <1>6, Sizes DEF AddPartial, Group
  <2>2. Combine(final, partial[next]) \in Contribution
    BY <2>1, Contributions
  <2> QED
    BY <1>6, <2>2, Sizes DEF AddPartial, items
<1>7. CASE AddRest
  <2>1. Combine(final, Body(GlobalSize + next - PartialSumSize)) \in Contribution
    BY Contributions
  <2> QED
    BY <1>7, <2>1, Sizes DEF AddRest, items
<1>8. CASE RemainderDone
  BY <1>8 DEF RemainderDone, items
<1>9. CASE CopyFinalSum
  BY <1>9 DEF CopyFinalSum, items
<1>10. CASE UNCHANGED vars
  BY <1>10 DEF vars
<1> QED
  BY <1>1, <1>2, <1>3, <1>4, <1>5, <1>6, <1>7, <1>8, <1>9, <1>10 DEF Next, Main, Finished

\* The types hold in every reachable state.
THEOREM TypeCorrect == Spec => []TypeOK
<1>1. Init => TypeOK
  <2> SUFFICES ASSUME Init PROVE TypeOK
    OBVIOUS
  <2>1. 0 \in 0 .. WorkGroupSize \div 2
    BY ReductionAssumption
  <2>2. 0 \in 0 .. PartialSumSize + GlobalSizeMod
    BY ReductionAssumption DEF GlobalSizeMod, GlobalSize, PartialSumSize
  <2> QED
    BY <2>1, <2>2, Contributions DEF Init, TypeOK
<1> QED
  BY <1>1, TypeStep, PTL DEF Spec

----------------------------------------------------------------------------
\* Every step of a work item, and every barrier, leaves its group in step
\* (reduction_template.py 110-130).
LEMMA RoundStep == TypeOK /\ RoundInv /\ [Next]_vars => RoundInv'
<1> SUFFICES ASSUME TypeOK, RoundInv, [Next]_vars PROVE RoundInv'
  OBVIOUS
<1>1. ASSUME NEW g \in Group, NEW i \in Item,
             RunBody(g, i) \/ Reduce(g, i) \/ Write(g, i)
      PROVE RoundInv'
  <2> SUFFICES ASSUME NEW h \in Group, NEW j \in Item, NEW k \in Item
               PROVE InStep(h, j, k)'
    BY DEF RoundInv
  <2>1. /\ InStep(h, j, k) /\ InStep(h, k, j) /\ InStep(h, j, j) /\ InStep(h, k, k)
        /\ InStep(h, i, j) /\ InStep(h, j, i) /\ InStep(h, i, k) /\ InStep(h, k, i)
        /\ InStep(h, i, i)
    BY DEF RoundInv
  <2>2. /\ stride[h][i] \in Nat /\ stride[h][j] \in Nat /\ stride[h][k] \in Nat
        /\ stride[h][i] <= WorkGroupSize \div 2
        /\ WorkGroupSize \div 2 \in Nat
    BY ReductionAssumption DEF TypeOK
  <2>3. CASE h # g
    <3>1. /\ pc'[h][j] = pc[h][j] /\ pc'[h][k] = pc[h][k]
          /\ stride'[h][j] = stride[h][j] /\ stride'[h][k] = stride[h][k]
      BY <1>1, <2>3 DEF RunBody, Reduce, Write, Loop, TypeOK
    <3> QED
      BY <2>1, <3>1 DEF InStep
  <2>4. CASE h = g
    <3>1. \A x \in Item : x # i => pc'[g][x] = pc[g][x] /\ stride'[g][x] = stride[g][x]
      BY <1>1 DEF RunBody, Reduce, Write, Loop, TypeOK
    <3>2. CASE RunBody(g, i)
      <4>1. /\ pc[g][i] = "body" /\ stride'[g][i] = WorkGroupSize \div 2
            /\ pc'[g][i] = IF WorkGroupSize \div 2 > 0 THEN "barrier" ELSE "write"
        BY <3>2 DEF RunBody, Loop, TypeOK
      <4> QED
        BY <2>1, <2>2, <2>4, <3>1, <4>1 DEF InStep
    <3>3. CASE Reduce(g, i)
      <4>1. /\ pc[g][i] = "reduce" /\ stride'[g][i] = stride[g][i] \div 2
            /\ pc'[g][i] = IF stride[g][i] \div 2 > 0 THEN "barrier" ELSE "write"
        BY <3>3 DEF Reduce, Loop, TypeOK
      <4>2. stride[g][i] \div 2 \in Nat
        BY <2>2, <2>4
      <4>3. CASE j = i /\ k = i
        BY <4>1, <4>2, <4>3, <2>4 DEF InStep
      <4>4. CASE j = i /\ k # i
        BY <2>1, <2>2, <2>4, <3>1, <4>1, <4>2, <4>4 DEF InStep, TypeOK
      <4>5. CASE j # i /\ k = i
        BY <2>1, <2>2, <2>4, <3>1, <4>1, <4>2, <4>5 DEF InStep, TypeOK
      <4>6. CASE j # i /\ k # i
        BY <2>1, <2>4, <3>1, <4>6 DEF InStep
      <4> QED
        BY <4>3, <4>4, <4>5, <4>6
    <3>4. CASE Write(g, i)
      <4>1. /\ pc[g][i] = "write" /\ pc'[g][i] = "end"
            /\ stride'[g][i] = stride[g][i]
        BY <3>4 DEF Write, TypeOK
      <4> QED
        BY <2>1, <2>2, <2>4, <3>1, <4>1 DEF InStep
    <3> QED
      BY <1>1, <3>2, <3>3, <3>4
  <2> QED
    BY <2>3, <2>4
<1>2. ASSUME NEW g \in Group, Barrier(g) PROVE RoundInv'
  <2> SUFFICES ASSUME NEW h \in Group, NEW j \in Item, NEW k \in Item
               PROVE InStep(h, j, k)'
    BY DEF RoundInv
  <2>1. InStep(h, j, k) /\ InStep(h, k, j)
    BY DEF RoundInv
  <2>2. stride' = stride
    BY <1>2 DEF Barrier
  <2>3. CASE h # g
    <3>1. pc'[h] = pc[h]
      BY <1>2, <2>3 DEF Barrier, TypeOK
    <3> QED
      BY <2>1, <2>2, <3>1 DEF InStep
  <2>4. CASE h = g
    <3>1. /\ pc[g][j] = "barrier" /\ pc[g][k] = "barrier"
          /\ pc'[g][j] = "reduce" /\ pc'[g][k] = "reduce"
      BY <1>2 DEF Barrier, TypeOK
    <3> QED
      BY <2>1, <2>2, <2>4, <3>1 DEF InStep
  <2> QED
    BY <2>3, <2>4
<1>3. ASSUME UNCHANGED <<pc, stride>> PROVE RoundInv'
  BY <1>3 DEF RoundInv, InStep
<1>4. MainDone \/ AddPartial \/ AddRest \/ RemainderDone \/ CopyFinalSum \/ UNCHANGED vars
        => UNCHANGED <<pc, stride>>
  BY DEF MainDone, AddPartial, AddRest, RemainderDone, CopyFinalSum, vars, items
<1> QED
  BY <1>1, <1>2, <1>3, <1>4 DEF Next, Main, Finished

\* The work items of a group never drift apart by more than a barrier.
THEOREM RoundInvariance == Spec => []RoundInv
<1>1. Init => RoundInv
  BY DEF Init, RoundInv, InStep
<1> QED
  BY <1>1, RoundStep, TypeCorrect, PTL DEF Spec

\* In step, what an item reads of another's is above every slot written.
THEOREM NoRace == Spec => []NoLocalRace
<1>1. TypeOK /\ RoundInv => NoLocalRace
  <2> SUFFICES ASSUME TypeOK, RoundInv,
                      NEW g \in Group, NEW i \in Item, NEW j \in Item, i # j
               PROVE Reads(g, i) \cap Writes(g, j) = {}
    BY DEF NoLocalRace
  <2>1. InStep(g, i, j) /\ InStep(g, j, i)
    BY DEF RoundInv
  <2>2. /\ stride[g][i] \in Nat /\ stride[g][j] \in Nat /\ i \in Nat /\ j \in Nat
    BY ReductionAssumption DEF TypeOK, Item
  <2>3. CASE pc[g][i] = "reduce" /\ pc[g][j] = "reduce"
    <3>1. stride[g][i] = stride[g][j]
      BY <2>1, <2>3 DEF InStep
    <3>2. j < stride[g][j] => i + stride[g][i] # j
      BY <2>2, <3>1
    <3> QED
      BY <2>3, <3>2 DEF Reads, Writes
  <2>4. CASE pc[g][i] = "reduce" /\ pc[g][j] # "reduce"
    <3>1. pc[g][j] # "body"
      BY <2>1, <2>4 DEF InStep
    <3> QED
      BY <2>4, <3>1 DEF Writes
  <2>5. CASE pc[g][i] # "reduce"
    BY <2>5 DEF Reads
  <2> QED
    BY <2>3, <2>4, <2>5
<1> QED
  BY <1>1, TypeCorrect, RoundInvariance, PTL

\* In step, items that are at a barrier are at the same one.
THEOREM Uniform == Spec => []BarriersUniform
<1>1. TypeOK /\ RoundInv => BarriersUniform
  BY DEF TypeOK, RoundInv, InStep, BarriersUniform
<1> QED
  BY <1>1, TypeCorrect, RoundInvariance, PTL

----------------------------------------------------------------------------
(* The result *)

\* P holds w and with each number its half, down to 1: w is a power of two.
Halves(P, w) ==
  /\ P \in SUBSET (1 .. w) /\ w \in P
  /\ \A s \in P : s = 1 \/ \E h \in P : s = 2 * h

PowerOfTwo(w) == \E P \in SUBSET (1 .. w) : Halves(P, w)

\* Is x one of a, a + w, a + 2w, ...?
InSteps(x, a, w) == \E m \in Nat : x = a + m * w

\* The iterations of group g in steps of w from its i-th on, each once; those
\* of the whole group; and the first n of the loop.
Part(g, i, w) ==
  [x \in {Initial} \cup (0 .. Stop - 1) |->
     IF x < (g + 1) * WorkGroupSize /\ InSteps(x, g * WorkGroupSize + i, w) THEN 1 ELSE 0]
GroupPart(g) ==
  [x \in {Initial} \cup (0 .. Stop - 1) |->
     IF g * WorkGroupSize <= x /\ x < (g + 1) * WorkGroupSize THEN 1 ELSE 0]
UpTo(n) == [x \in {Initial} \cup (0 .. Stop - 1) |-> IF 0 <= x /\ x < n THEN 1 ELSE 0]

\* How many slots of the group's local memory the item's last round has left.
Width(g, i) == IF stride[g][i] = 0 THEN 1 ELSE 2 * stride[g][i]

\* Strides are halves of the size of the work group.
StrideInv(P) ==
  \A g \in Group : \A i \in Item :
    stride[g][i] # 0 => stride[g][i] \in P /\ 2 * stride[g][i] \in P

\* A slot that is still in use holds its part of the iterations, and so does
\* each slot that an item of the round is about to read, whatever the item it
\* belongs to has done since.
SlotInv ==
  \A g \in Group : \A i \in Item :
    pc[g][i] # "body" /\ i < Width(g, i) => sums[g][i] = Part(g, i, Width(g, i))
ReadInv ==
  \A g \in Group : \A i, j \in Item :
    pc[g][i] = "reduce" /\ stride[g][i] <= j /\ j < 2 * stride[g][i]
      => sums[g][j] = Part(g, j, 2 * stride[g][i])
SumsInv == SlotInv /\ ReadInv

\* A group that has written its sum has written that of all its iterations.
PartialInv ==
  /\ \A g \in Group : pc[g][0] = "end" => partial[g] = GroupPart(g)
  /\ phase # "main" => \A g \in Group : \A i \in Item : pc[g][i] = "end"

\* How far the remainder kernel has come.
Reached == IF next <= PartialSumSize THEN next * WorkGroupSize
           ELSE GlobalSize + next - PartialSumSize

FinalInv ==
  /\ phase = "main" => next = 0
  /\ final = UpTo(Reached)
  /\ phase \in {"copy", "done"} => next = PartialSumSize + GlobalSizeMod
  /\ phase = "done" => host = final

ResultInv(P) == StrideInv(P) /\ SumsInv /\ PartialInv /\ FinalInv

\* The sizes of ReductionHelper divide the loop into whole groups and a rest.
LEMMA Division ==
  /\ PartialSumSize \in Nat /\ GlobalSizeMod \in Nat
  /\ GlobalSize = PartialSumSize * WorkGroupSize
  /\ GlobalSize + GlobalSizeMod = Stop
<1> DEFINE W == WorkGroupSize
           q == Stop \div W
<1>1. W \in Nat /\ W > 0 /\ Stop \in Nat
  BY ReductionAssumption
<1>2. q \in Nat /\ Stop % W \in Nat /\ Stop = (W * q) + (Stop % W)
  BY <1>1
<1>3. GlobalSize = W * q
  BY <1>1, <1>2 DEF GlobalSize, GlobalSizeMod
<1>4. (W * q) \div W = q
  BY <1>1, <1>2
<1>5. PartialSumSize = q
  BY <1>3, <1>4 DEF PartialSumSize
<1>6. W * q = q * W
  BY <1>1, <1>2
<1> QED
  BY <1>2, <1>3, <1>5, <1>6 DEF GlobalSizeMod

\* The iterations of a group are iterations of the loop.
LEMMA Blocks ==
  ASSUME NEW g \in Group
  PROVE  /\ g \in Nat /\ g * WorkGroupSize \in Nat
         /\ (g + 1) * WorkGroupSize = g * WorkGroupSize + WorkGroupSize
         /\ (g + 1) * WorkGroupSize <= Stop
<1> DEFINE W == WorkGroupSize
<1>1. W \in Nat /\ W > 0 /\ Stop \in Nat
  BY ReductionAssumption
<1>2. g \in Nat /\ g + 1 <= PartialSumSize /\ PartialSumSize \in Nat
  BY Division DEF Group
<1>3. \A a, b, c \in Nat : a <= b => a * c <= b * c
  OBVIOUS
<1>4. (g + 1) * W <= PartialSumSize * W
  BY <1>1, <1>2, <1>3
<1>5. PartialSumSize * W <= Stop
  BY <1>1, Division
<1>6. g * W \in Nat /\ PartialSumSize * W \in Nat /\ (g + 1) * W = g * W + W
  BY <1>1, <1>2
<1> QED
  BY <1>1, <1>2, <1>4, <1>5, <1>6

\* A number that is reached in steps of s is reached in steps of 2s, from the
\* same start or from s further on, and not from both.
LEMMA EvenOdd ==
  ASSUME NEW x \in Int, NEW a \in Int, NEW s \in Nat, s > 0
  PROVE  /\ ~ (InSteps(x, a, 2 * s) /\ InSteps(x, a + s, 2 * s))
         /\ InSteps(x, a, s) <=> InSteps(x, a, 2 * s) \/ InSteps(x, a + s, 2 * s)
<1>1. \A m \in Int : m * (2 * s) = (2 * m) * s /\ s + m * (2 * s) = (2 * m + 1) * s
  OBVIOUS
<1>2. \A m, n \in Int : m * s = n * s => m = n
  <2> SUFFICES ASSUME NEW m \in Int, NEW n \in Int, m * s = n * s, m # n PROVE FALSE
    OBVIOUS
  <2>1. (m - n) * s = 0
    OBVIOUS
  <2> QED
    BY <2>1
<1>3. ASSUME NEW m \in Nat, x = a + m * (2 * s), NEW n \in Nat, x = a + s + n * (2 * s)
      PROVE  FALSE
  <2>1. (2 * m) * s = (2 * n + 1) * s
    <3>1. m * (2 * s) \in Int /\ n * (2 * s) \in Int
      OBVIOUS
    <3>2. \A y, z \in Int : x = a + y /\ x = a + s + z => y = s + z
      OBVIOUS
    <3>3. m * (2 * s) = s + n * (2 * s)
      BY <1>3, <3>1, <3>2
    <3> QED
      BY <1>1, <3>3
  <2>2. 2 * m = 2 * n + 1
    <3>1. 2 * m \in Int /\ 2 * n + 1 \in Int
      OBVIOUS
    <3> QED
      BY <1>2, <2>1, <3>1
  <2> QED
    BY <2>2
<1>4. ASSUME NEW m \in Nat, x = a + m * s
      PROVE  \/ \E n \in Nat : x = a + n * (2 * s)
             \/ \E n \in Nat : x = a + s + n * (2 * s)
  <2>1. PICK n \in Nat : m = 2 * n \/ m = 2 * n + 1
    <3>1. m \div 2 \in Nat /\ (m = 2 * (m \div 2) \/ m = 2 * (m \div 2) + 1)
      OBVIOUS
    <3> QED
      BY <3>1
  <2>2. CASE m = 2 * n
    BY <1>1, <1>4, <2>2
  <2>3. CASE m = 2 * n + 1
    <3>1. m * s = s + n * (2 * s)
      BY <1>1, <2>3
    <3>2. s + n * (2 * s) \in Int /\ n * (2 * s) \in Int
      OBVIOUS
    <3>3. x = a + s + n * (2 * s)
      BY <1>4, <3>1, <3>2
    <3> QED
      BY <3>3
  <2> QED
    BY <2>1, <2>2, <2>3
<1>5. ASSUME NEW m \in Nat, x = a + m * (2 * s)
      PROVE  \E n \in Nat : x = a + n * s
  BY <1>1, <1>5
<1>6. ASSUME NEW m \in Nat, x = a + s + m * (2 * s)
      PROVE  \E n \in Nat : x = a + n * s
  <2>1. s + m * (2 * s) = (2 * m + 1) * s /\ m * (2 * s) \in Int /\ 2 * m + 1 \in Nat
    BY <1>1
  <2>2. x = a + (2 * m + 1) * s
    BY <1>6, <2>1
  <2> QED
    BY <2>1, <2>2
<1> QED
  BY <1>3, <1>4, <1>5, <1>6 DEF InSteps

\* A round of the tree adds two parts to the part of half the step.
LEMMA PartsCombine ==
  ASSUME NEW g \in Group, NEW i \in Nat, NEW s \in Nat, s > 0
  PROVE  Combine(Part(g, i, 2 * s), Part(g, i + s, 2 * s)) = Part(g, i, s)
<1> DEFINE a == g * WorkGroupSize + i
           D == {Initial} \cup (0 .. Stop - 1)
<1>1. g * WorkGroupSize \in Nat /\ a \in Int
  BY Blocks
<1>2. D \in SUBSET Int
  BY ReductionAssumption DEF Initial
<1>3. ASSUME NEW x \in D
      PROVE  Part(g, i, 2 * s)[x] + Part(g, i + s, 2 * s)[x] = Part(g, i, s)[x]
  <2> DEFINE B == x < (g + 1) * WorkGroupSize
  <2>1. x \in Int /\ a + s = g * WorkGroupSize + (i + s)
    BY <1>1, <1>2
  <2>2. /\ ~ (InSteps(x, a, 2 * s) /\ InSteps(x, a + s, 2 * s))
        /\ InSteps(x, a, s) <=> InSteps(x, a, 2 * s) \/ InSteps(x, a + s, 2 * s)
    BY <1>1, <2>1, EvenOdd
  <2>3. /\ Part(g, i, s)[x] = IF B /\ InSteps(x, a, s) THEN 1 ELSE 0
        /\ Part(g, i, 2 * s)[x] = IF B /\ InSteps(x, a, 2 * s) THEN 1 ELSE 0
        /\ Part(g, i + s, 2 * s)[x] = IF B /\ InSteps(x, a + s, 2 * s) THEN 1 ELSE 0
    BY <2>1 DEF Part
  <2> HIDE DEF B
  <2> QED
    BY <2>2, <2>3
<1>4. Part(g, i, s) = [x \in D |-> Part(g, i, s)[x]]
  BY DEF Part
<1>5. Combine(Part(g, i, 2 * s), Part(g, i + s, 2 * s))
        = [x \in D |-> Part(g, i, 2 * s)[x] + Part(g, i + s, 2 * s)[x]]
  BY DEF Combine, Part
<1> HIDE DEF D
<1> QED
  BY <1>3, <1>4, <1>5

\* A step of one takes all iterations of the group.
LEMMA PartAll ==
  ASSUME NEW g \in Group
  PROVE  Part(g, 0, 1) = GroupPart(g)
<1> DEFINE b == g * WorkGroupSize
<1>1. b \in Nat
  BY Blocks
<1>2. ASSUME NEW x \in {Initial} \cup (0 .. Stop - 1)
      PROVE  InSteps(x, b + 0, 1) <=> b <= x
  <2>1. x \in Int
    BY ReductionAssumption DEF Initial
  <2>2. ASSUME b <= x PROVE \E m \in Nat : x = b + 0 + m * 1
    <3>1. x - b \in Nat /\ x = b + 0 + (x - b) * 1
      BY <1>1, <2>1, <2>2
    <3> QED
      BY <3>1
  <2>3. ASSUME NEW m \in Nat, x = b + 0 + m * 1 PROVE b <= x
    BY <1>1, <2>3
  <2> QED
    BY <2>2, <2>3 DEF InSteps
<1> QED
  BY <1>2 DEF Part, GroupPart

\* A step of the size of the group takes one iteration: what the body makes.
LEMMA PartBody ==
  ASSUME NEW g \in Group, NEW i \in Item
  PROVE  Body(g * WorkGroupSize + i) = Part(g, i, WorkGroupSize)
<1> DEFINE b == g * WorkGroupSize
           W == WorkGroupSize
           D == {Initial} \cup (0 .. Stop - 1)
<1>1. /\ W \in Nat /\ W > 0 /\ b \in Nat /\ i \in Nat /\ i < W
      /\ (g + 1) * W = b + W /\ (g + 1) * W <= Stop /\ Stop \in Nat
  BY Blocks, ReductionAssumption DEF Item
<1>2. ASSUME NEW x \in D
      PROVE  x < (g + 1) * W /\ InSteps(x, b + i, W) <=> x = b + i
  <2>1. x \in Int
    BY ReductionAssumption DEF Initial
  <2>2. ASSUME x < (g + 1) * W, NEW m \in Nat, x = b + i + m * W PROVE x = b + i
    <3>1. m * W \in Nat /\ m * W < W
      BY <1>1, <2>1, <2>2
    <3>2. m = 0
      BY <1>1, <3>1
    <3> QED
      BY <1>1, <2>2, <3>2
  <2>3. ASSUME x = b + i PROVE x < (g + 1) * W /\ \E m \in Nat : x = b + i + m * W
    <3>1. x < (g + 1) * W
      BY <1>1, <2>3
    <3>2. 0 \in Nat /\ x = b + i + 0 * W
      BY <1>1, <2>3
    <3> QED
      BY <3>1, <3>2
  <2> QED
    BY <2>2, <2>3 DEF InSteps
<1>3. Part(g, i, W) = [x \in D |-> IF x = b + i THEN 1 ELSE 0]
  BY <1>2 DEF Part
<1>4. Body(b + i) = [x \in D |-> IF x = b + i THEN 1 ELSE 0]
  BY DEF Body, Combine, Identity, Once
<1> QED
  BY <1>3, <1>4

\* The remainder kernel goes on by a group, and then by an iteration.
LEMMA UpToNext ==
  /\ \A g \in Group :
       Combine(UpTo(g * WorkGroupSize), GroupPart(g)) = UpTo((g + 1) * WorkGroupSize)
  /\ \A n \in Nat : Combine(UpTo(n), Body(n)) = UpTo(n + 1)
<1> DEFINE D == {Initial} \cup (0 .. Stop - 1)
<1>0. D \in SUBSET Int
  BY ReductionAssumption DEF Initial
<1>1. ASSUME NEW g \in Group
      PROVE  Combine(UpTo(g * WorkGroupSize), GroupPart(g)) = UpTo((g + 1) * WorkGroupSize)
  <2> DEFINE b == g * WorkGroupSize
             e == (g + 1) * WorkGroupSize
  <2>1. b \in Nat /\ e \in Nat /\ b <= e
    BY Blocks, ReductionAssumption
  <2>2. /\ UpTo(b) = [x \in D |-> IF 0 <= x /\ x < b THEN 1 ELSE 0]
        /\ UpTo(e) = [x \in D |-> IF 0 <= x /\ x < e THEN 1 ELSE 0]
        /\ GroupPart(g) = [x \in D |-> IF b <= x /\ x < e THEN 1 ELSE 0]
    BY DEF UpTo, GroupPart
  <2> HIDE DEF b, e, D
  <2>3. Combine(UpTo(b), GroupPart(g)) = UpTo(e)
    BY <1>0, <2>1, <2>2 DEF Combine
  <2> QED
    BY <2>3 DEF b, e
<1>2. ASSUME NEW n \in Nat PROVE Combine(UpTo(n), Body(n)) = UpTo(n + 1)
  <2>1. Body(n) = [x \in D |-> IF x = n THEN 1 ELSE 0]
    BY DEF Body, Combine, Identity, Once
  <2>2. /\ UpTo(n) = [x \in D |-> IF 0 <= x /\ x < n THEN 1 ELSE 0]
        /\ UpTo(n + 1) = [x \in D |-> IF 0 <= x /\ x < n + 1 THEN 1 ELSE 0]
    BY DEF UpTo
  <2> HIDE DEF D
  <2> QED
    BY <1>0, <2>1, <2>2 DEF Combine
<1> QED
  BY <1>1, <1>2

\* What the invariant says of the strides: the width after the next halving.
LEMMA NextWidth ==
  ASSUME NEW P, Halves(P, WorkGroupSize), NEW s \in P
  PROVE  /\ s \in Nat /\ s > 0
         /\ s \div 2 # 0 => s \div 2 \in P /\ 2 * (s \div 2) \in P
         /\ (IF s \div 2 = 0 THEN 1 ELSE 2 * (s \div 2)) = s
<1>1. s \in Nat /\ s > 0
  BY ReductionAssumption DEF Halves
<1>2. CASE s = 1
  BY <1>2
<1>3. CASE \E h \in P : s = 2 * h
  <2>1. PICK h \in P : s = 2 * h
    BY <1>3
  <2>2. h \in Nat /\ h > 0
    BY ReductionAssumption DEF Halves
  <2>3. s \div 2 = h
    BY <2>1, <2>2
  <2> QED
    BY <1>1, <2>1, <2>2, <2>3
<1> QED
  BY <1>1, <1>2, <1>3 DEF Halves

\* Strides stay halves of the size of the work group.
LEMMA StrideStep ==
  ASSUME NEW P, Halves(P, WorkGroupSize), TypeOK, RoundInv, StrideInv(P), [Next]_vars
  PROVE  StrideInv(P)'
<1>1. ASSUME NEW g \in Group, NEW i \in Item, NEW s \in P,
             stride' = [stride EXCEPT ![g][i] = s \div 2]
      PROVE  StrideInv(P)'
  BY <1>1, NextWidth DEF StrideInv, TypeOK
<1>2. ASSUME NEW g \in Group, NEW i \in Item, RunBody(g, i) PROVE StrideInv(P)'
  BY <1>1, <1>2 DEF RunBody, Loop, Halves
<1>3. ASSUME NEW g \in Group, NEW i \in Item, Reduce(g, i) PROVE StrideInv(P)'
  <2>1. stride[g][i] > 0
    BY <1>3 DEF Reduce, RoundInv, InStep
  <2>2. stride[g][i] \in P
    BY <2>1 DEF StrideInv, TypeOK
  <2> QED
    BY <1>1, <1>3, <2>2 DEF Reduce, Loop
<1>4. ASSUME UNCHANGED stride PROVE StrideInv(P)'
  BY <1>4 DEF StrideInv
<1> QED
  BY <1>2, <1>3, <1>4
  DEF Next, Main, Finished, Barrier, Write, MainDone, AddPartial, AddRest, RemainderDone,
      CopyFinalSum, vars, items

\* Every round of the tree leaves its parts in the slots that stay in use
\* (reduction_template.py 110-125).
LEMMA SumsStep ==
  ASSUME NEW P, Halves(P, WorkGroupSize), TypeOK, RoundInv, StrideInv(P), SumsInv, [Next]_vars
  PROVE  SumsInv'
<1>1. ASSUME NEW g \in Group, NEW i \in Item, RunBody(g, i) PROVE SumsInv'
  <2>1. /\ pc[g][i] = "body"
        /\ sums' = [sums EXCEPT ![g][i] = Part(g, i, WorkGroupSize)]
        /\ stride' = [stride EXCEPT ![g][i] = WorkGroupSize \div 2]
    BY <1>1, PartBody DEF RunBody, Loop
  <2>2. /\ \A x \in Item : x # i => pc'[g][x] = pc[g][x]
        /\ pc'[g][i] \in {"barrier", "write"}
        /\ \A h \in Group : h # g => pc'[h] = pc[h]
    BY <1>1 DEF RunBody, Loop, TypeOK
  <2>3. \A x \in Item : pc[g][x] # "reduce"
    <3> SUFFICES ASSUME NEW x \in Item PROVE pc[g][x] # "reduce"
      OBVIOUS
    <3>1. InStep(g, i, x)
      BY DEF RoundInv
    <3> QED
      BY <2>1, <3>1 DEF InStep
  <2>4. Width(g, i)' = WorkGroupSize
    <3>1. WorkGroupSize \in P
      BY DEF Halves
    <3>2. stride'[g][i] = WorkGroupSize \div 2
      BY <2>1 DEF TypeOK
    <3> QED
      BY <3>1, <3>2, NextWidth DEF Width
  <2>5. ASSUME NEW h \in Group, NEW j \in Item, pc'[h][j] # "body", j < Width(h, j)'
        PROVE  sums'[h][j] = Part(h, j, Width(h, j)')
    <3>1. CASE h = g /\ j = i
      BY <2>1, <2>4, <3>1 DEF TypeOK
    <3>2. CASE ~ (h = g /\ j = i)
      <4>1. /\ sums'[h][j] = sums[h][j] /\ stride'[h][j] = stride[h][j]
            /\ pc'[h][j] = pc[h][j]
        BY <2>1, <2>2, <3>2 DEF TypeOK
      <4> QED
        BY <2>5, <4>1 DEF SumsInv, SlotInv, ReadInv, Width
    <3> QED
      BY <3>1, <3>2
  <2>6. ASSUME NEW h \in Group, NEW j \in Item, NEW k \in Item, pc'[h][j] = "reduce",
               stride'[h][j] <= k, k < 2 * stride'[h][j]
        PROVE  sums'[h][k] = Part(h, k, 2 * stride'[h][j])
    <3>1. h # g
      BY <2>2, <2>3, <2>6
    <3>2. /\ sums'[h] = sums[h] /\ stride'[h] = stride[h] /\ pc'[h] = pc[h]
      BY <2>1, <2>2, <3>1 DEF TypeOK
    <3> QED
      BY <2>6, <3>2 DEF SumsInv, SlotInv, ReadInv
  <2>7. SlotInv' /\ ReadInv'
    BY <2>5, <2>6 DEF SlotInv, ReadInv
  <2> QED
    BY <2>7 DEF SumsInv
<1>2. ASSUME NEW g \in Group, Barrier(g) PROVE SumsInv'
  <2>1. /\ \A x \in Item : pc[g][x] = "barrier" /\ pc'[g][x] = "reduce"
        /\ \A h \in Group : h # g => pc'[h] = pc[h]
        /\ stride' = stride /\ sums' = sums
    BY <1>2 DEF Barrier, TypeOK
  <2>2. ASSUME NEW h \in Group, NEW j \in Item, pc'[h][j] # "body", j < Width(h, j)'
        PROVE  sums'[h][j] = Part(h, j, Width(h, j)')
    <3>1. pc[h][j] # "body"
      BY <2>1, <2>2
    <3> QED
      BY <2>1, <2>2, <3>1 DEF SumsInv, SlotInv, ReadInv, Width
  <2>3. ASSUME NEW h \in Group, NEW j \in Item, NEW k \in Item, pc'[h][j] = "reduce",
               stride'[h][j] <= k, k < 2 * stride'[h][j]
        PROVE  sums'[h][k] = Part(h, k, 2 * stride'[h][j])
    <3>1. CASE h # g
      BY <2>1, <2>3, <3>1 DEF SumsInv, SlotInv, ReadInv
    <3>2. CASE h = g
      <4>1. InStep(g, j, k) /\ InStep(g, k, j)
        BY DEF RoundInv
      <4>2. stride[g][k] = stride[g][j] /\ stride[g][k] > 0
        BY <2>1, <4>1 DEF InStep
      <4>3. Width(g, k) = 2 * stride[g][j]
        BY <4>2 DEF Width, TypeOK
      <4>4. k < Width(g, k) /\ pc[g][k] # "body"
        BY <2>1, <2>3, <3>2, <4>3
      <4>5. sums[g][k] = Part(g, k, 2 * stride[g][j])
        BY <4>3, <4>4 DEF SumsInv, SlotInv, ReadInv
      <4> QED
        BY <2>1, <3>2, <4>5
    <3> QED
      BY <3>1, <3>2
  <2>4. SlotInv' /\ ReadInv'
    BY <2>2, <2>3 DEF SlotInv, ReadInv
  <2> QED
    BY <2>4 DEF SumsInv
<1>3. ASSUME NEW g \in Group, NEW i \in Item, Reduce(g, i) PROVE SumsInv'
  <2> DEFINE s == stride[g][i]
  <2>1. InStep(g, i, i)
    BY DEF RoundInv
  <2>2. pc[g][i] = "reduce" /\ s > 0 /\ s \in P /\ s \in Nat /\ i \in Nat
    <3>1. s \in Nat /\ i \in Nat
      BY ReductionAssumption DEF TypeOK, Item
    <3>2. pc[g][i] = "reduce" /\ s > 0
      BY <1>3, <2>1 DEF Reduce, InStep
    <3> QED
      BY <3>1, <3>2 DEF StrideInv
  <2>3. /\ stride' = [stride EXCEPT ![g][i] = s \div 2]
        /\ pc'[g][i] \in {"barrier", "write"}
        /\ \A x \in Item : x # i => pc'[g][x] = pc[g][x]
        /\ \A h \in Group : h # g => pc'[h] = pc[h]
    BY <1>3 DEF Reduce, Loop, TypeOK
  <2>4. /\ stride'[g][i] = s \div 2
        /\ Width(g, i)' = s
    <3>1. stride'[g][i] = s \div 2
      BY <2>3 DEF TypeOK
    <3> QED
      BY <2>2, <3>1, NextWidth DEF Width
  <2>5. i < s => sums'[g][i] = Part(g, i, s)
    <3> SUFFICES ASSUME i < s PROVE sums'[g][i] = Part(g, i, s)
      OBVIOUS
    <3>1. i + s \in Item
      BY <2>2, Halving DEF TypeOK
    <3>2. Width(g, i) = 2 * s
      BY <2>2 DEF Width
    <3>3. sums[g][i] = Part(g, i, 2 * s)
      BY <2>2, <3>2 DEF SumsInv, SlotInv, ReadInv
    <3>4. s <= i + s /\ i + s < 2 * s
      BY <2>2
    <3>5. sums[g][i + s] = Part(g, i + s, 2 * s)
      BY <2>2, <3>1, <3>4 DEF SumsInv, SlotInv, ReadInv
    <3>6. sums'[g][i] = Combine(sums[g][i], sums[g][i + s])
      BY <1>3 DEF Reduce, TypeOK
    <3> QED
      BY <2>2, <3>3, <3>5, <3>6, PartsCombine
  <2>6. \A h \in Group : \A j \in Item :
          ~ (h = g /\ j = i) => sums'[h][j] = sums[h][j] /\ stride'[h][j] = stride[h][j]
                                 /\ pc'[h][j] = pc[h][j]
    BY <1>3, <2>3 DEF Reduce, TypeOK
  <2>7. ~ (i < s) => sums'[g][i] = sums[g][i]
    BY <1>3 DEF Reduce
  <2>8. ASSUME NEW h \in Group, NEW j \in Item, pc'[h][j] # "body", j < Width(h, j)'
        PROVE  sums'[h][j] = Part(h, j, Width(h, j)')
    <3>1. CASE h = g /\ j = i
      BY <2>4, <2>5, <2>8, <3>1
    <3>2. CASE ~ (h = g /\ j = i)
      BY <2>6, <2>8, <3>2 DEF SumsInv, SlotInv, ReadInv, Width
    <3> QED
      BY <3>1, <3>2
  <2>9. ASSUME NEW h \in Group, NEW j \in Item, NEW k \in Item, pc'[h][j] = "reduce",
               stride'[h][j] <= k, k < 2 * stride'[h][j]
        PROVE  sums'[h][k] = Part(h, k, 2 * stride'[h][j])
    <3>1. ~ (h = g /\ j = i)
      BY <2>3, <2>9
    <3>2. pc[h][j] = "reduce" /\ stride'[h][j] = stride[h][j]
      BY <2>6, <2>9, <3>1
    <3>3. sums[h][k] = Part(h, k, 2 * stride[h][j])
      BY <2>9, <3>2 DEF SumsInv, SlotInv, ReadInv
    <3>4. sums'[h][k] = sums[h][k]
      <4>1. CASE h = g /\ k = i
        <5>1. InStep(g, i, j)
          BY DEF RoundInv
        <5>2. stride[g][j] = s
          BY <2>2, <3>2, <4>1, <5>1 DEF InStep
        <5>3. ~ (i < s)
          BY <2>2, <2>9, <3>2, <4>1, <5>2
        <5> QED
          BY <2>7, <4>1, <5>3
      <4>2. CASE ~ (h = g /\ k = i)
        BY <2>6, <4>2
      <4> QED
        BY <4>1, <4>2
    <3> QED
      BY <3>2, <3>3, <3>4
  <2>10. SlotInv' /\ ReadInv'
    BY <2>8, <2>9 DEF SlotInv, ReadInv
  <2> QED
    BY <2>10 DEF SumsInv
<1>4. ASSUME NEW g \in Group, NEW i \in Item, Write(g, i) PROVE SumsInv'
  <2>1. /\ sums' = sums /\ stride' = stride
        /\ pc[g][i] = "write" /\ pc'[g][i] = "end"
        /\ \A h \in Group : \A j \in Item :
             ~ (h = g /\ j = i) => pc'[h][j] = pc[h][j]
    BY <1>4 DEF Write, TypeOK
  <2> QED
    BY <2>1 DEF SumsInv, SlotInv, ReadInv, Width
<1>5. ASSUME UNCHANGED items PROVE SumsInv'
  BY <1>5 DEF SumsInv, SlotInv, ReadInv, Width, items
<1> QED
  BY <1>1, <1>2, <1>3, <1>4, <1>5
  DEF Next, Main, Finished, MainDone, AddPartial, AddRest, RemainderDone, CopyFinalSum, vars,
      items

\* What the groups have written, and when the main kernel has ended.
LEMMA PartialStep ==
  ASSUME TypeOK, RoundInv, SumsInv, PartialInv, [Next]_vars
  PROVE  PartialInv'
<1>0. 0 \in Item
  BY ReductionAssumption DEF Item
<1>1. ASSUME NEW g \in Group, NEW i \in Item, RunBody(g, i) \/ Reduce(g, i)
      PROVE  PartialInv'
  <2>1. partial' = partial /\ phase' = phase
    BY <1>1 DEF RunBody, Reduce
  <2>2. pc[g][i] \in {"body", "reduce"}
    BY <1>1 DEF RunBody, Reduce
  <2>3. phase = "main"
    BY <2>2 DEF PartialInv
  <2>4. \A h \in Group : pc'[h][0] = "end" => pc[h][0] = "end"
    <3>1. pc'[g][i] \in {"barrier", "write"}
      BY <1>1 DEF RunBody, Reduce, Loop, TypeOK
    <3>2. \A h \in Group : ~ (h = g /\ i = 0) => pc'[h][0] = pc[h][0]
      BY <1>0, <1>1 DEF RunBody, Reduce, Loop, TypeOK
    <3> QED
      BY <3>1, <3>2
  <2> QED
    BY <2>1, <2>3, <2>4 DEF PartialInv
<1>2. ASSUME NEW g \in Group, Barrier(g) PROVE PartialInv'
  <2>1. partial' = partial /\ phase' = phase
    BY <1>2 DEF Barrier
  <2>2. pc[g][0] = "barrier"
    BY <1>0, <1>2 DEF Barrier
  <2>3. phase = "main"
    BY <1>0, <2>2 DEF PartialInv
  <2>4. \A h \in Group : pc'[h][0] = "end" => pc[h][0] = "end"
    BY <1>0, <1>2 DEF Barrier, TypeOK
  <2> QED
    BY <2>1, <2>3, <2>4 DEF PartialInv
<1>3. ASSUME NEW g \in Group, NEW i \in Item, Write(g, i) PROVE PartialInv'
  <2>1. phase' = phase /\ pc[g][i] = "write"
    BY <1>3 DEF Write
  <2>2. phase = "main"
    BY <2>1 DEF PartialInv
  <2>3. i = 0 => sums[g][0] = GroupPart(g)
    <3> SUFFICES ASSUME i = 0 PROVE sums[g][0] = GroupPart(g)
      OBVIOUS
    <3>1. InStep(g, 0, 0)
      BY <1>0 DEF RoundInv
    <3>2. Width(g, 0) = 1
      BY <2>1, <3>1 DEF InStep, Width
    <3>3. sums[g][0] = Part(g, 0, 1)
      BY <1>0, <2>1, <3>2 DEF SumsInv, SlotInv
    <3> QED
      BY <3>3, PartAll
  <2>4. ASSUME NEW h \in Group, pc'[h][0] = "end" PROVE partial'[h] = GroupPart(h)
    <3>1. CASE h = g /\ i = 0
      BY <1>3, <2>3, <3>1 DEF Write, TypeOK
    <3>2. CASE ~ (h = g /\ i = 0)
      <4>1. partial'[h] = partial[h] /\ pc'[h][0] = pc[h][0]
        BY <1>0, <1>3, <3>2 DEF Write, TypeOK
      <4> QED
        BY <2>4, <4>1 DEF PartialInv
    <3> QED
      BY <3>1, <3>2
  <2> QED
    BY <2>1, <2>2, <2>4 DEF PartialInv
<1>4. ASSUME MainDone PROVE PartialInv'
  BY <1>4 DEF MainDone, PartialInv, items
<1>5. ASSUME UNCHANGED items, phase = "main" => phase' = "main" PROVE PartialInv'
  BY <1>5 DEF PartialInv, items
<1>6. AddPartial \/ AddRest \/ RemainderDone \/ CopyFinalSum \/ UNCHANGED vars
        => UNCHANGED items /\ (phase = "main" => phase' = "main")
  BY DEF AddPartial, AddRest, RemainderDone, CopyFinalSum, vars, items
<1> QED
  BY <1>1, <1>2, <1>3, <1>4, <1>5, <1>6 DEF Next, Main, Finished

\* The remainder kernel adds the groups and then what they have left, and
\* ends when it has come to the end of the loop (reduction_helper.py 59-66).
LEMMA FinalStep ==
  ASSUME TypeOK, PartialInv, FinalInv, [Next]_vars
  PROVE  FinalInv'
<1>1. ASSUME Main PROVE FinalInv'
  <2>1. UNCHANGED <<phase, next, final, host>>
    BY <1>1 DEF Main, RunBody, Barrier, Reduce, Write
  <2> QED
    BY <2>1 DEF FinalInv, Reached
<1>2. ASSUME MainDone PROVE FinalInv'
  BY <1>2 DEF MainDone, FinalInv, Reached
<1>3. ASSUME AddPartial PROVE FinalInv'
  <2>1. /\ phase = "remainder" /\ phase' = phase /\ next' = next + 1
        /\ next \in Group
        /\ final' = Combine(final, partial[next])
    BY <1>3, Division DEF AddPartial, Group, TypeOK
  <2>2. partial[next] = GroupPart(next)
    <3>1. 0 \in Item
      BY ReductionAssumption DEF Item
    <3> QED
      BY <2>1, <3>1 DEF PartialInv
  <2>3. final = UpTo(next * WorkGroupSize)
    <3>1. next <= PartialSumSize
      BY <2>1, Division DEF Group
    <3>2. final = UpTo(Reached)
      BY DEF FinalInv
    <3> QED
      BY <3>1, <3>2 DEF Reached
  <2>4. final' = UpTo((next + 1) * WorkGroupSize)
    BY <2>1, <2>2, <2>3, UpToNext
  <2>5. Reached' = (next + 1) * WorkGroupSize
    BY <2>1, Division DEF Reached, Group
  <2> QED
    BY <2>1, <2>4, <2>5 DEF FinalInv
<1>4. ASSUME AddRest PROVE FinalInv'
  <2>1. /\ phase = "remainder" /\ phase' = phase /\ next' = next + 1
        /\ PartialSumSize <= next /\ next \in Nat
        /\ final' = Combine(final, Body(GlobalSize + next - PartialSumSize))
    BY <1>4, Division DEF AddRest, TypeOK
  <2>2. GlobalSize \in Nat /\ PartialSumSize \in Nat
    BY Division, ReductionAssumption
  <2>3. Reached = GlobalSize + next - PartialSumSize
    <3>1. CASE next = PartialSumSize
      BY <2>2, <3>1, Division DEF Reached
    <3>2. CASE next # PartialSumSize
      BY <2>1, <2>2, <3>2 DEF Reached
    <3> QED
      BY <3>1, <3>2
  <2>4. Reached \in Nat
    BY <2>1, <2>2, <2>3
  <2>5. Reached' = Reached + 1
    BY <2>1, <2>2, <2>3 DEF Reached
  <2>6. final' = UpTo(Reached + 1)
    BY <2>1, <2>3, <2>4, UpToNext DEF FinalInv
  <2> QED
    BY <2>1, <2>5, <2>6 DEF FinalInv
<1>5. ASSUME RemainderDone PROVE FinalInv'
  BY <1>5 DEF RemainderDone, FinalInv, Reached
<1>6. ASSUME CopyFinalSum PROVE FinalInv'
  BY <1>6 DEF CopyFinalSum, FinalInv, Reached
<1>7. ASSUME UNCHANGED vars PROVE FinalInv'
  BY <1>7 DEF vars, FinalInv, Reached
<1> QED
  BY <1>1, <1>2, <1>3, <1>4, <1>5, <1>6, <1>7 DEF Next, Finished

\* The invariant of the result, for a size of the work group that is a power
\* of two: of any loop, of any length and start.
THEOREM ResultInvariance ==
  ASSUME NEW P, Halves(P, WorkGroupSize)
  PROVE  Spec => []ResultInv(P)
<1>1. Init => ResultInv(P)
  <2> SUFFICES ASSUME Init PROVE ResultInv(P)
    OBVIOUS
  <2>1. StrideInv(P) /\ SumsInv
    BY DEF Init, StrideInv, SumsInv, SlotInv, ReadInv
  <2>2. PartialInv
    <3>1. 0 \in Item
      BY ReductionAssumption DEF Item
    <3> QED
      BY <3>1 DEF Init, PartialInv
  <2>3. FinalInv
    <3>1. phase = "main" /\ next = 0 /\ final = Identity
      BY DEF Init
    <3>2. Reached = 0
      BY <3>1, Division, ReductionAssumption DEF Reached
    <3>3. Identity = UpTo(0)
      BY ReductionAssumption DEF Identity, UpTo, Initial
    <3> QED
      BY <3>1, <3>2, <3>3 DEF FinalInv
  <2> QED
    BY <2>1, <2>2, <2>3 DEF ResultInv
<1>2. TypeOK /\ RoundInv /\ ResultInv(P) /\ [Next]_vars => ResultInv(P)'
  BY StrideStep, SumsStep, PartialStep, FinalStep DEF ResultInv
<1> QED
  BY <1>1, <1>2, TypeCorrect, RoundInvariance, PTL DEF Spec

\* The size of the work groups in the code is one (reduction_helper.py 50).
LEMMA EightIsPower == PowerOfTwo(8)
<1>1. {1, 2, 4, 8} \in SUBSET (1 .. 8)
  OBVIOUS
<1>2. Halves({1, 2, 4, 8}, 8)
  BY <1>1 DEF Halves
<1> QED
  BY <1>1, <1>2 DEF PowerOfTwo

\* For a work group whose size is a power of two, a loop that starts at 0 and a
\* variable that holds the identity before it, the variable ends with each
\* iteration once, whatever order the items, groups and kernels take
\* (reduction_template.py 95-130, reduction_helper.py 49-80).  The start is
\* ignored and the initial value lost, which is why these are hypotheses.
THEOREM ResultCorrect ==
  ASSUME PowerOfTwo(WorkGroupSize), Start = 0, HasInitial = FALSE
  PROVE  Spec => []ResultExact
<1>1. PICK P \in SUBSET (1 .. WorkGroupSize) : Halves(P, WorkGroupSize)
  BY DEF PowerOfTwo
<1>2. ResultInv(P) => ResultExact
  <2> SUFFICES ASSUME ResultInv(P), phase = "done" PROVE host = Meaning
    BY DEF ResultExact
  <2>1. host = UpTo(Reached) /\ next = PartialSumSize + GlobalSizeMod
    BY DEF ResultInv, FinalInv
  <2>2. Reached = Stop
    <3>1. CASE GlobalSizeMod = 0
      BY <2>1, <3>1, Division DEF Reached
    <3>2. CASE GlobalSizeMod # 0
      BY <2>1, <3>2, Division, ReductionAssumption DEF Reached
    <3> QED
      BY <3>1, <3>2
  <2>3. UpTo(Stop) = Meaning
    BY ReductionAssumption DEF UpTo, Meaning, Initial
  <2> QED
    BY <2>1, <2>2, <2>3
<1>3. Spec => []ResultInv(P)
  BY <1>1, ResultInvariance
<1> QED
  BY <1>2, <1>3, PTL
============================================================================
