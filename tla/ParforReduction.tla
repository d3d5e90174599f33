-------------------------- MODULE ParforReduction --------------------------
(***************************************************************************)
(* How a reduction loop (prange with s += ... or s *= ...) runs on the     *)
(* device: a main kernel in which each work group reduces its part of the  *)
(* index space as a tree in local memory, a remainder kernel of one work   *)
(* item, and a copy into the host variable                                 *)
(* (core/parfors/reduction_helper.py, parfor_lowerer.py and                *)
(* kernel_templates/reduction_template.py).                                *)
(*                                                                         *)
(* A value of the reduction is what has gone into it: how many times each  *)
(* iteration was combined, and how many times the value the variable had   *)
(* before the loop.  The operator adds these counts, its identity is none  *)
(* of them, so that one model stands for += and for *=.                    *)
(***************************************************************************)
EXTENDS Integers

CONSTANTS Start, Stop,    \* the loop is prange(Start, Stop)
          WorkGroupSize,  \* 8 in the code
          HasInitial      \* is the variable's value before the loop no identity?

ASSUME ReductionAssumption ==
  /\ Start \in Nat /\ Stop \in Nat /\ Start <= Stop
  /\ WorkGroupSize \in Nat \ {0}
  /\ HasInitial \in BOOLEAN

\* What ReductionHelper computes from the loop nest: tot_work is its stop.
GlobalSizeMod == Stop % WorkGroupSize
GlobalSize == Stop - GlobalSizeMod
PartialSumSize == GlobalSize \div WorkGroupSize

Group == 0 .. PartialSumSize - 1
Item == 0 .. WorkGroupSize - 1

Initial == -1
Contribution == [{Initial} \cup (0 .. Stop - 1) -> Nat]
Identity == [x \in {Initial} \cup (0 .. Stop - 1) |-> 0]
Once(i) == [Identity EXCEPT ![i] = 1]
Combine(a, b) == [x \in DOMAIN a |-> a[x] + b[x]]

\* The loop body run for index i, on a variable set to the identity before it.
Body(i) == Combine(Identity, Once(i))

VARIABLES
  phase,   \* main, remainder, copy, done
  pc,      \* each work item: body, barrier, reduce, write, end
  stride,  \* its stride0
  sums,    \* local_sums, one array for each work group
  partial, \* partial_sum
  next,    \* how many iterations the remainder kernel has made
  final,   \* final_sum[0]
  host     \* the reduction variable

vars == <<phase, pc, stride, sums, partial, next, final, host>>
items == <<pc, stride, sums, partial>>

\* Faulty: no barrier, items without work leave early, or the
\* loop goes on at stride 0.
LoopNoBarrier(g, i, s) ==
  /\ stride' = [stride EXCEPT ![g][i] = s]
  /\ pc' = [pc EXCEPT ![g][i] = IF s > 0 THEN "reduce" ELSE "write"]
LoopEarlyExit(g, i, s) ==
  /\ stride' = [stride EXCEPT ![g][i] = s]
  /\ pc' = [pc EXCEPT ![g][i] = IF s > i THEN "barrier" ELSE "write"]
LoopForever(g, i, s) ==
  /\ stride' = [stride EXCEPT ![g][i] = s]
  /\ pc' = [pc EXCEPT ![g][i] = IF s >= 0 THEN "barrier" ELSE "write"]

\* Work item i of group g goes on with stride s: the while condition.
Loop(g, i, s) ==
  /\ stride' = [stride EXCEPT ![g][i] = s]
  /\ pc' = [pc EXCEPT ![g][i] = IF s > 0 THEN "barrier" ELSE "write"]

----------------------------------------------------------------------------
(* The main kernel *)

RunBody(g, i) ==
  /\ phase = "main" /\ pc[g][i] = "body"
  /\ sums' = [sums EXCEPT ![g][i] = Body(g * WorkGroupSize + i)]
  /\ Loop(g, i, WorkGroupSize \div 2)
  /\ UNCHANGED <<phase, partial, next, final, host>>

\* kapi.group_barrier(group)
Barrier(g) ==
  /\ \A i \in Item : pc[g][i] = "barrier"
  /\ pc' = [pc EXCEPT ![g] = [i \in Item |-> "reduce"]]
  /\ UNCHANGED <<phase, stride, sums, partial, next, final, host>>

Reduce(g, i) ==
  /\ pc[g][i] = "reduce"
  /\ sums' = IF i < stride[g][i]
             THEN [sums EXCEPT ![g][i] = Combine(@, sums[g][i + stride[g][i]])]
             ELSE sums
  /\ Loop(g, i, stride[g][i] \div 2)
  /\ UNCHANGED <<phase, partial, next, final, host>>

Write(g, i) ==
  /\ pc[g][i] = "write"
  /\ partial' = IF i = 0 THEN [partial EXCEPT ![g] = sums[g][0]] ELSE partial
  /\ pc' = [pc EXCEPT ![g][i] = "end"]
  /\ UNCHANGED <<phase, stride, sums, next, final, host>>

\* The launch waits for the event of the main kernel.
MainDone ==
  /\ phase = "main"
  /\ \A g \in Group, i \in Item : pc[g][i] = "end"
  /\ phase' = "remainder"
  /\ UNCHANGED <<items, next, final, host>>

----------------------------------------------------------------------------
(* The remainder kernel and the copy *)

AddPartial ==
  /\ phase = "remainder"
  /\ next < PartialSumSize
  /\ final' = Combine(final, partial[next])
  /\ next' = next + 1
  /\ UNCHANGED <<phase, items, host>>

\* Faulty: the rest is counted from 0, or one iteration too many is made.
AddRestNoOffset ==
  /\ phase = "remainder"
  /\ PartialSumSize <= next /\ next < PartialSumSize + GlobalSizeMod
  /\ final' = Combine(final, Body(next - PartialSumSize))
  /\ next' = next + 1
  /\ UNCHANGED <<phase, items, host>>
AddRestOneMore ==
  /\ phase = "remainder"
  /\ PartialSumSize <= next /\ next <= PartialSumSize + GlobalSizeMod
  /\ final' = Combine(final, Body(0))
  /\ next' = next + 1
  /\ UNCHANGED <<phase, items, host>>

AddRest ==
  /\ phase = "remainder"
  /\ PartialSumSize <= next /\ next < PartialSumSize + GlobalSizeMod
  /\ final' = Combine(final, Body(GlobalSize + next - PartialSumSize))
  /\ next' = next + 1
  /\ UNCHANGED <<phase, items, host>>

RemainderDone ==
  /\ phase = "remainder"
  /\ next = PartialSumSize + GlobalSizeMod
  /\ phase' = "copy"
  /\ UNCHANGED <<items, next, final, host>>

\* copy_final_sum_to_host: a memcpy over the variable.
CopyFinalSum ==
  /\ phase = "copy"
  /\ host' = final
  /\ phase' = "done"
  /\ UNCHANGED <<items, next, final>>

----------------------------------------------------------------------------
\* The arrays are allocated filled with the identity; local memory is not
\* initialised, which no item notices if it does not read it before Body.
Init ==
  /\ phase = "main"
  /\ pc = [g \in Group |-> [i \in Item |-> "body"]]
  /\ stride = [g \in Group |-> [i \in Item |-> 0]]
  /\ sums = [g \in Group |-> [i \in Item |-> Identity]]
  /\ partial = [g \in Group |-> Identity]
  /\ next = 0
  /\ final = Identity
  /\ host = IF HasInitial THEN Once(Initial) ELSE Identity

Main ==
  \E g \in Group : \/ Barrier(g)
                   \/ \E i \in Item : RunBody(g, i) \/ Reduce(g, i) \/ Write(g, i)

Finished == phase = "done" /\ UNCHANGED vars

Next ==
  Main \/ MainDone \/ AddPartial \/ AddRest \/ RemainderDone \/ CopyFinalSum \/ Finished

Spec == Init /\ [][Next]_vars

\* Work items that have not ended and kernels that were submitted make progress.
FairSpec == Spec /\ WF_vars(Next)

----------------------------------------------------------------------------
(* Properties *)

TypeOK ==
  /\ phase \in {"main", "remainder", "copy", "done"}
  /\ pc \in [Group -> [Item -> {"body", "barrier", "reduce", "write", "end"}]]
  /\ stride \in [Group -> [Item -> 0 .. WorkGroupSize \div 2]]
  /\ sums \in [Group -> [Item -> Contribution]]
  /\ partial \in [Group -> Contribution]
  /\ next \in 0 .. PartialSumSize + GlobalSizeMod
  /\ final \in Contribution /\ host \in Contribution

\* The slot of local_sums that item i may read from another item next, if any.
Reads(g, i) ==
  IF pc[g][i] = "reduce" /\ i < stride[g][i] THEN {i + stride[g][i]} ELSE {}

\* The slots it may write next.
Writes(g, i) ==
  IF pc[g][i] = "body" \/ (pc[g][i] = "reduce" /\ i < stride[g][i]) THEN {i} ELSE {}

\* One barrier per round is enough: no item writes a slot of local memory that
\* another item may read before the next barrier, in whatever order they run.
NoLocalRace ==
  \A g \in Group : \A i, j \in Item : i # j => Reads(g, i) \cap Writes(g, j) = {}

\* All items of a work group meet at the same barriers: the ones at a barrier
\* are in the same round, and none of the group has left the loop.
BarriersUniform ==
  \A g \in Group : \A i, j \in Item :
    pc[g][i] = "barrier" => /\ pc[g][j] \notin {"write", "end"}
                            /\ pc[g][j] = "barrier" => stride[g][j] = stride[g][i]

\* Where two items of a group can be at the same time: nobody is past a barrier
\* that another has not reached, and the strides of a round differ by a halving.
InStep(g, i, j) ==
  /\ pc[g][i] \in {"barrier", "reduce"} => stride[g][i] > 0
  /\ pc[g][i] \in {"write", "end"} => stride[g][i] = 0
  /\ pc[g][i] = "body" /\ pc[g][j] # "body" =>
       pc[g][j] # "reduce" /\ stride[g][j] = WorkGroupSize \div 2
  /\ pc[g][i] = "reduce" =>
       stride[g][j] = (IF pc[g][j] = "reduce" THEN stride[g][i] ELSE stride[g][i] \div 2)
  /\ pc[g][i] \in {"barrier", "write", "end"} /\ pc[g][j] \in {"barrier", "write", "end"} =>
       stride[g][j] = stride[g][i]

RoundInv == \A g \in Group : \A i, j \in Item : InStep(g, i, j)

\* What the loop means: each index of range(Start, Stop) once, combined with
\* the value the variable had before.
Meaning ==
  [x \in {Initial} \cup (0 .. Stop - 1) |->
     IF x = Initial THEN (IF HasInitial THEN 1 ELSE 0)
     ELSE IF Start <= x THEN 1 ELSE 0]

\* The host variable ends as the sequential loop would leave it: no iteration
\* is lost or counted twice between work groups, tree and remainder.
ResultExact == phase = "done" => host = Meaning

\* The loop ends: no work item is left alone at a barrier.
Terminates == <>(phase = "done")
============================================================================
