--------------------------- MODULE MemInfoProofs ---------------------------
(***************************************************************************)
(* Proofs about MemInfo, for any number of MemInfo objects, array objects, *)
(* launches and launch arguments.  IInv is the inductive invariant; the    *)
(* lemmas follow its conjuncts.                                            *)
(***************************************************************************)
EXTENDS MemInfo, TLAPS, FiniteSetTheorems

(***************************************************************************)
(* Counting the references that launches hold                              *)
(***************************************************************************)
\* Launches hold finitely many references.
LEMMA TokensFinite ==
  ASSUME NEW m
  PROVE  IsFiniteSet(Tokens(m)) /\ Cardinality(Tokens(m)) \in Nat
<1>1. IsFiniteSet(Launch \X Pos)
  BY MemAssumption, FS_Product
<1>2. Tokens(m) \in SUBSET (Launch \X Pos)
  BY DEF Tokens
<1>3. IsFiniteSet(Tokens(m))
  BY <1>1, <1>2, FS_Subset
<1> QED
  BY <1>3, FS_CardinalityType

\* The same after a step.
LEMMA TokensFinitePrime ==
  ASSUME NEW m
  PROVE  IsFiniteSet(Tokens(m)') /\ Cardinality(Tokens(m)') \in Nat
<1>1. IsFiniteSet(Launch \X Pos)
  BY MemAssumption, FS_Product
<1>2. Tokens(m)' \in SUBSET (Launch \X Pos)
  BY DEF Tokens
<1>3. IsFiniteSet(Tokens(m)')
  BY <1>1, <1>2, FS_Subset
<1> QED
  BY <1>3, FS_CardinalityType

\* Acquiring position i of launch l adds one reference on its argument.
LEMMA TokensAdd ==
  ASSUME TypeOK, NEW l \in Launch, NEW i \in Pos, i \notin held[l],
         held' = [held EXCEPT ![l] = @ \cup {i}], larg' = larg,
         NEW m
  PROVE  Cardinality(Tokens(m)')
           = Cardinality(Tokens(m)) + (IF larg[l][i] = m THEN 1 ELSE 0)
<1>1. CASE larg[l][i] = m
  <2>1. Tokens(m)' = Tokens(m) \cup {<<l, i>>}
    BY <1>1 DEF Tokens, TypeOK
  <2>2. <<l, i>> \notin Tokens(m)
    BY DEF Tokens
  <2> QED
    BY <1>1, <2>1, <2>2, TokensFinite, FS_AddElement
<1>2. CASE larg[l][i] # m
  <2>1. Tokens(m)' = Tokens(m)
    BY <1>2 DEF Tokens, TypeOK
  <2> QED
    BY <1>2, <2>1, TokensFinite
<1> QED
  BY <1>1, <1>2

\* Releasing it takes that reference away.
LEMMA TokensRemove ==
  ASSUME TypeOK, NEW l \in Launch, NEW i \in held[l],
         held' = [held EXCEPT ![l] = @ \ {i}], larg' = larg,
         NEW m
  PROVE  Cardinality(Tokens(m)')
           = Cardinality(Tokens(m)) - (IF larg[l][i] = m THEN 1 ELSE 0)
<1>0. i \in Pos
  BY DEF TypeOK
<1>1. CASE larg[l][i] = m
  <2>1. Tokens(m)' = Tokens(m) \ {<<l, i>>}
    BY <1>0, <1>1 DEF Tokens, TypeOK
  <2>2. <<l, i>> \in Tokens(m)
    BY <1>0, <1>1 DEF Tokens
  <2> QED
    BY <1>1, <2>1, <2>2, TokensFinite, FS_RemoveElement
<1>2. CASE larg[l][i] # m
  <2>1. Tokens(m)' = Tokens(m)
    BY <1>2 DEF Tokens, TypeOK
  <2> QED
    BY <1>2, <2>1, TokensFinite
<1> QED
  BY <1>1, <1>2

\* A launch that holds nothing may change its arguments.
LEMMA TokensIdle ==
  ASSUME TypeOK, NEW l \in Launch, held[l] = {}, NEW f,
         held' = held, larg' = [larg EXCEPT ![l] = f],
         NEW m
  PROVE  Tokens(m)' = Tokens(m)
BY DEF Tokens, TypeOK

\* A reference that is held counts.
LEMMA TokensHeld ==
  ASSUME NEW l \in Launch, NEW i \in Pos, i \in held[l]
  PROVE  Cardinality(Tokens(larg[l][i])) >= 1
<1>1. <<l, i>> \in Tokens(larg[l][i])
  BY DEF Tokens
<1> QED
  BY <1>1, TokensFinite, FS_EmptySet

(***************************************************************************)
(* Counting the MemInfos that keep an array object                         *)
(***************************************************************************)
\* Finitely many MemInfos have the same owner.
LEMMA KeepingFinite ==
  ASSUME NEW o
  PROVE  IsFiniteSet(Keeping(o)) /\ Cardinality(Keeping(o)) \in Nat
<1>1. Keeping(o) \in SUBSET Mem
  BY DEF Keeping
<1>2. IsFiniteSet(Keeping(o))
  BY <1>1, MemAssumption, FS_Subset
<1> QED
  BY <1>2, FS_CardinalityType

(***************************************************************************)
(* The invariant is preserved by every step                                *)
(***************************************************************************)
\* A MemInfo somebody refers to is live.
LEMMA HeldIsLive ==
  ASSUME IInv, NEW m \in Mem,
         m \in Reachable \/ wrap[m] > 0 \/ Cardinality(Tokens(m)) > 0
  PROVE  status[m] = "live" /\ refct[m] >= Holders(m) /\ refct[m] >= 1
<1>1. Cardinality(Tokens(m)) \in Nat
  BY TokensFinite
<1>2. Holders(m) > 0
  BY <1>1 DEF IInv, TypeOK, Holders, ArgRef, Reachable
<1> QED
  BY <1>2 DEF IInv, CountInv, Counted

\* So are the array that is being boxed and the arguments a launch holds.
LEMMA BoxedIsLive ==
  ASSUME IInv, pc \in {"box", "store", "boxed"}
  PROVE  /\ retv \in Mem /\ local[retv] >= 1
         /\ status[retv] = "live" /\ refct[retv] >= Holders(retv) /\ refct[retv] >= 1
<1>1. retv \in Mem /\ local[retv] >= 1
  BY MemAssumption DEF IInv, ReturnInv
<1>2. retv \in Reachable
  BY <1>1 DEF IInv, TypeOK, Reachable
<1> QED
  BY <1>1, <1>2, HeldIsLive

\* What a launch has acquired and not released is live.
LEMMA TokenIsLive ==
  ASSUME IInv, NEW l \in Launch, NEW i \in held[l]
  PROVE  /\ i \in Pos /\ larg[l][i] \in Mem
         /\ status[larg[l][i]] = "live"
         /\ refct[larg[l][i]] >= Holders(larg[l][i]) /\ refct[larg[l][i]] >= 1
<1>1. i \in Pos
  BY DEF IInv, TypeOK
<1>2. larg[l][i] \in Mem
  BY <1>1 DEF IInv, LaunchInv, TypeOK
<1>3. Cardinality(Tokens(larg[l][i])) > 0
  BY <1>1, TokensHeld, TokensFinite
<1> QED
  BY <1>1, <1>2, <1>3, HeldIsLive

\* What a release by the main thread does to the types.
LEMMA ReleaseType ==
  ASSUME TypeOK, NEW m \in Mem, refct[m] >= 1, Release(m)
  PROVE  /\ refct' \in [Mem -> Nat]
         /\ status' \in [Mem -> {"unused", "live", "closing", "gone"}]
         /\ owner' \in [Mem -> Obj \cup {NoObj}]
         /\ data' \in [Mem -> {"none", "usm", "python", "freed"}]
         /\ queue' \in [Mem -> {"none", "open", "deleted", "double"}]
         /\ pyref' \in [Obj -> Int]
<1>1. refct' \in [Mem -> Nat] /\ owner' \in [Mem -> Obj \cup {NoObj}]
  BY DEF TypeOK, Release
<1>2. CASE refct[m] = 1
  <2>1. status' = [status EXCEPT ![m] = "gone"] /\ CloseData(m) /\ DropOwner(m)
    BY <1>2 DEF Release
  <2>2. data' \in [Mem -> {"none", "usm", "python", "freed"}]
    BY <2>1 DEF CloseData, TypeOK
  <2>3. queue' \in [Mem -> {"none", "open", "deleted", "double"}]
    BY <2>1 DEF CloseData, Deleted, TypeOK
  <2>4. pyref' \in [Obj -> Int]
    BY <2>1 DEF DropOwner, TypeOK
  <2> QED
    BY <1>1, <2>1, <2>2, <2>3, <2>4 DEF TypeOK
<1>3. CASE refct[m] # 1
  BY <1>1, <1>3 DEF TypeOK, Release
<1> QED
  BY <1>2, <1>3

\* Every step keeps the types.
LEMMA TypeStep ==
  ASSUME IInv, Next
  PROVE  TypeOK'

<1>1. ASSUME Call PROVE TypeOK'
  BY <1>1 DEF Call, heap, frame, launches, python, IInv, TypeOK
<1>2. ASSUME UnboxFail PROVE TypeOK'
  BY <1>2 DEF UnboxFail, heap, frame, launches, python, IInv, TypeOK
<1>3. ASSUME EnterBody PROVE TypeOK'
  BY <1>3 DEF EnterBody, heap, frame, launches, python, IInv, TypeOK
<1>4. ASSUME NEW o \in Obj, UserDrop(o) PROVE TypeOK'
  BY <1>4 DEF UserDrop, heap, frame, launches, python, IInv, TypeOK
<1>5. ASSUME NEW m \in Mem, BoxDrop(m) PROVE TypeOK'
  BY <1>5 DEF BoxDrop, heap, frame, launches, python, IInv, TypeOK, ReturnInv
<1>6. ASSUME NEW o \in Obj, NEW m \in Mem, Unbox(o, m) PROVE TypeOK'
  BY <1>6 DEF Unbox, heap, frame, launches, python, IInv, TypeOK
<1>7. ASSUME NEW o \in Obj, NEW m \in Mem, UnboxFailNew(o, m) PROVE TypeOK'
  BY <1>7 DEF UnboxFailNew, heap, frame, launches, python, IInv, TypeOK
<1>8. ASSUME Raise PROVE TypeOK'
  BY <1>8 DEF Raise, Abandon, heap, frame, launches, python, IInv, TypeOK
<1>9. ASSUME NEW m \in Mem, Incref(m) PROVE TypeOK'
  BY <1>9 DEF Incref, heap, frame, launches, python, IInv, TypeOK
<1>10. ASSUME NEW m \in Mem, Decref(m) PROVE TypeOK'
  <2>1. refct[m] >= 1
    BY <1>10, HeldIsLive DEF Decref, Reachable, IInv, TypeOK
  <2>2. Release(m)
    BY <1>10 DEF Decref
  <2> QED
    BY <1>10, <2>1, <2>2, ReleaseType DEF IInv, TypeOK, Decref, launches
<1>11. ASSUME NEW m \in Mem, Alloc(m) PROVE TypeOK'
  BY <1>11 DEF Alloc, heap, frame, launches, python, IInv, TypeOK
<1>12. ASSUME NEW m \in Mem, AllocFail(m) PROVE TypeOK'
  BY <1>12 DEF AllocFail, Abandon, heap, frame, launches, python, IInv, TypeOK
<1>13. ASSUME NEW m \in Mem, NEW src \in Mem, FillFail(m, src) PROVE TypeOK'
  BY <1>13 DEF FillFail, Abandon, Deleted, heap, frame, launches, python, IInv, TypeOK
<1>14. ASSUME NEW r \in Mem \cup {NoMem}, Return(r) PROVE TypeOK'
  BY <1>14 DEF Return, heap, frame, launches, python, IInv, TypeOK
<1>15. ASSUME NEW l \in Launch, NEW f \in [Pos -> Mem], NEW mode \in {"sync", "acquire"}, Submit(l, f, mode) PROVE TypeOK'
  BY <1>15 DEF Submit, heap, frame, launches, python, IInv, TypeOK
<1>16. ASSUME NEW l \in Launch, SyncDone(l) PROVE TypeOK'
  BY <1>16 DEF SyncDone, heap, frame, launches, python, IInv, TypeOK
<1>17. ASSUME NEW l \in Launch, NEW i \in Pos, NEW m \in Mem, Acquire(l, i, m) PROVE TypeOK'
  BY <1>17 DEF Acquire, heap, frame, launches, python, IInv, TypeOK
<1>18. ASSUME NEW l \in Launch, NEW ok \in BOOLEAN, Schedule(l, ok) PROVE TypeOK'
  BY <1>18 DEF Schedule, heap, frame, launches, python, IInv, TypeOK
<1>19. ASSUME CleanupDone PROVE TypeOK'
  BY <1>19 DEF CleanupDone, heap, frame, launches, python, IInv, TypeOK
<1>20. ASSUME BoxParent PROVE TypeOK'
  BY <1>20 DEF BoxParent, heap, frame, launches, python, IInv, TypeOK, ReturnInv
<1>21. ASSUME BoxLoad PROVE TypeOK'
  BY <1>21 DEF BoxLoad, heap, frame, launches, python, IInv, TypeOK, ReturnInv
<1>22. ASSUME BoxDone PROVE TypeOK'
  <2>1. retv \in Mem /\ local[retv] >= 1 /\ refct[retv] >= 1
    BY <1>22, BoxedIsLive DEF BoxDone
  <2>2. Release(retv)
    BY <1>22 DEF BoxDone
  <2>3. local' \in [Mem -> Nat]
    BY <1>22, <2>1 DEF BoxDone, IInv, TypeOK
  <2> QED
    BY <1>22, <2>1, <2>2, <2>3, ReleaseType DEF IInv, TypeOK, BoxDone, launches
<1>23. ASSUME NEW m \in Mem, Cleanup(m) PROVE TypeOK'
  <2>1. refct[m] >= 1
    BY <1>23, HeldIsLive DEF Cleanup, Reachable, IInv, TypeOK
  <2>2. Release(m)
    BY <1>23 DEF Cleanup
  <2> QED
    BY <1>23, <2>1, <2>2, ReleaseType DEF IInv, TypeOK, Cleanup, launches
<1>24. ASSUME NEW ok \in BOOLEAN, BoxStore(ok) PROVE TypeOK'
  BY <1>24 DEF BoxStore, heap, frame, launches, python, IInv, TypeOK, ReturnInv
<1>25. ASSUME NEW l \in Launch, KernelDone(l) PROVE TypeOK'
  BY <1>25 DEF KernelDone, heap, frame, launches, python, IInv, TypeOK
<1>26. ASSUME NEW l \in Launch, NEW i \in Pos, NEW m \in Mem, HostRelease(l, i, m) PROVE TypeOK'
  <2>1. m \in Mem /\ i \in held[l] /\ refct[m] >= 1
    BY <1>26, TokenIsLive DEF HostRelease, First
  <2>2. CASE refct[m] = 1
    <3>1. refct' \in [Mem -> Nat] /\ held' \in [Launch -> SUBSET Pos]
      BY <1>26, <2>1 DEF HostRelease, IInv, TypeOK
    <3>2. CloseData(m)
      BY <1>26, <2>2 DEF HostRelease
    <3>3. data' \in [Mem -> {"none", "usm", "python", "freed"}]
      BY <3>2 DEF CloseData, IInv, TypeOK
    <3>4. queue' \in [Mem -> {"none", "open", "deleted", "double"}]
      BY <3>2 DEF CloseData, Deleted, IInv, TypeOK
    <3>5. /\ status' \in [Mem -> {"unused", "live", "closing", "gone"}]
          /\ closing' \in [Launch -> Mem \cup {NoMem}]
      BY <1>26, <2>2 DEF HostRelease, IInv, TypeOK
    <3> QED
      BY <1>26, <3>1, <3>3, <3>4, <3>5 DEF HostRelease, IInv, TypeOK, frame, python
  <2>3. CASE refct[m] # 1
    BY <1>26, <2>1, <2>3 DEF HostRelease, IInv, TypeOK, frame, python
  <2> QED
    BY <2>2, <2>3
<1>27. ASSUME NEW l \in Launch, HostClose(l) PROVE TypeOK'
  BY <1>27 DEF HostClose, DropOwner, heap, frame, launches, python, IInv, TypeOK
<1> QED
  BY <1>1, <1>2, <1>3, <1>4, <1>5, <1>6, <1>7, <1>8, <1>9, <1>10, <1>11, <1>12, <1>13, <1>14, <1>15, <1>16, <1>17, <1>18, <1>19, <1>20, <1>21, <1>22, <1>23, <1>24, <1>25, <1>26, <1>27 DEF Next, MainEntry, MainBody, MainLaunch, MainExit, Device, HostTask

(***************************************************************************)
(* CountInv                                                                *)
(***************************************************************************)
\* Launches that hold the same positions of the same arguments.
LEMMA TokensSame ==
  ASSUME held' = held, larg' = larg, NEW x
  PROVE  Tokens(x)' = Tokens(x) /\ Cardinality(Tokens(x)) \in Nat
BY TokensFinite DEF Tokens

\* A release of one of the references on m, by the frame or the wrapper.
LEMMA ReleaseCount ==
  ASSUME IInv, NEW m \in Mem, NEW x \in Mem, Release(m), status[m] = "live",
         Holders(m)' = Holders(m) - 1, x # m => Holders(x)' = Holders(x),
         Holders(m) \in Nat, Holders(m) >= 1, UNCHANGED <<wrap, pybox>>
  PROVE  Counted(x)'
BY DEF IInv, TypeOK, CountInv, Counted, Release

\* The count goes on covering every reference.
LEMMA CountStep ==
  ASSUME IInv, Next
  PROVE  CountInv'

<1>1. ASSUME Call PROVE CountInv'
  BY <1>1, TokensSame DEF Call, heap, frame, launches, python, IInv, CountInv, Counted, Holders, ArgRef
<1>2. ASSUME UnboxFail PROVE CountInv'
  BY <1>2, TokensSame DEF UnboxFail, heap, frame, launches, python, IInv, CountInv, Counted, Holders, ArgRef
<1>3. ASSUME EnterBody PROVE CountInv'
  BY <1>3, TokensSame DEF EnterBody, heap, frame, launches, python, IInv, CountInv, Counted, Holders, ArgRef
<1>4. ASSUME NEW o \in Obj, UserDrop(o) PROVE CountInv'
  BY <1>4, TokensSame DEF UserDrop, heap, frame, launches, python, IInv, CountInv, Counted, Holders, ArgRef
<1>5. ASSUME NEW m \in Mem, BoxDrop(m) PROVE CountInv'
  <2> SUFFICES ASSUME NEW x \in Mem PROVE Counted(x)'
    BY DEF CountInv
  <2>1. Tokens(x)' = Tokens(x) /\ Cardinality(Tokens(x)) \in Nat
    BY <1>5, TokensSame DEF BoxDrop, launches
  <2> QED
    BY <1>5, <2>1 DEF BoxDrop, heap, frame, launches, python, IInv, TypeOK, CountInv, Counted, Holders, ArgRef
<1>6. ASSUME NEW o \in Obj, NEW m \in Mem, Unbox(o, m) PROVE CountInv'
  <2> SUFFICES ASSUME NEW x \in Mem PROVE Counted(x)'
    BY DEF CountInv
  <2>1. Tokens(x)' = Tokens(x) /\ Cardinality(Tokens(x)) \in Nat
    BY <1>6, TokensSame DEF Unbox, launches
  <2> QED
    BY <1>6, <2>1 DEF Unbox, heap, frame, launches, python, IInv, TypeOK, CountInv, Counted, Holders, ArgRef
<1>7. ASSUME NEW o \in Obj, NEW m \in Mem, UnboxFailNew(o, m) PROVE CountInv'
  <2> SUFFICES ASSUME NEW x \in Mem PROVE Counted(x)'
    BY DEF CountInv
  <2>1. Tokens(x)' = Tokens(x) /\ Cardinality(Tokens(x)) \in Nat
    BY <1>7, TokensSame DEF UnboxFailNew, launches
  <2> QED
    BY <1>7, <2>1 DEF UnboxFailNew, heap, frame, launches, python, IInv, TypeOK, CountInv, Counted, Holders, ArgRef
<1>8. ASSUME Raise PROVE CountInv'
  <2> SUFFICES ASSUME NEW x \in Mem PROVE Counted(x)'
    BY DEF CountInv
  <2>1. Tokens(x)' = Tokens(x) /\ Cardinality(Tokens(x)) \in Nat
    BY <1>8, TokensSame DEF Raise, Abandon, launches
  <2> QED
    BY <1>8, <2>1 DEF Raise, Abandon, heap, frame, launches, python, IInv, TypeOK, CountInv, Counted, Holders, ArgRef
<1>9. ASSUME NEW m \in Mem, Incref(m) PROVE CountInv'
  <2> SUFFICES ASSUME NEW x \in Mem PROVE Counted(x)'
    BY DEF CountInv
  <2>1. Tokens(x)' = Tokens(x) /\ Cardinality(Tokens(x)) \in Nat
    BY <1>9, TokensSame DEF Incref, launches
  <2> QED
    BY <1>9, <2>1 DEF Incref, heap, frame, launches, python, IInv, TypeOK, CountInv, Counted, Holders, ArgRef, Reachable
<1>10. ASSUME NEW m \in Mem, Decref(m) PROVE CountInv'
  <2> SUFFICES ASSUME NEW x \in Mem PROVE Counted(x)'
    BY DEF CountInv
  <2>1. Tokens(x)' = Tokens(x) /\ Cardinality(Tokens(x)) \in Nat
    BY <1>10, TokensSame DEF Decref, Release, CloseData, DropOwner, Deleted, launches
  <2>2. status[m] = "live" /\ Release(m)
    BY <1>10, HeldIsLive DEF Decref, Reachable, IInv, TypeOK
  <2>3. Cardinality(Tokens(m)) \in Nat /\ Tokens(m)' = Tokens(m)
    BY <1>10, TokensSame DEF Decref, launches
  <2>4. /\ Holders(m)' = Holders(m) - 1
        /\ Holders(m) \in Nat /\ Holders(m) >= 1
        /\ x # m => Holders(x)' = Holders(x)
    BY <1>10, <2>1, <2>2, <2>3 DEF Decref, Holders, ArgRef, IInv, TypeOK
  <2> QED
    BY <1>10, <2>2, <2>4, ReleaseCount DEF Decref
<1>11. ASSUME NEW m \in Mem, Alloc(m) PROVE CountInv'
  <2> SUFFICES ASSUME NEW x \in Mem PROVE Counted(x)'
    BY DEF CountInv
  <2>1. Tokens(x)' = Tokens(x) /\ Cardinality(Tokens(x)) \in Nat
    BY <1>11, TokensSame DEF Alloc, launches
  <2> QED
    BY <1>11, <2>1 DEF Alloc, heap, frame, launches, python, IInv, TypeOK, CountInv, Counted, Holders, ArgRef
<1>12. ASSUME NEW m \in Mem, AllocFail(m) PROVE CountInv'
  <2> SUFFICES ASSUME NEW x \in Mem PROVE Counted(x)'
    BY DEF CountInv
  <2>1. Tokens(x)' = Tokens(x) /\ Cardinality(Tokens(x)) \in Nat
    BY <1>12, TokensSame DEF AllocFail, Abandon, launches
  <2> QED
    BY <1>12, <2>1 DEF AllocFail, Abandon, heap, frame, launches, python, IInv, TypeOK, CountInv, Counted, Holders, ArgRef
<1>13. ASSUME NEW m \in Mem, NEW src \in Mem, FillFail(m, src) PROVE CountInv'
  <2> SUFFICES ASSUME NEW x \in Mem PROVE Counted(x)'
    BY DEF CountInv
  <2>1. Tokens(x)' = Tokens(x) /\ Cardinality(Tokens(x)) \in Nat
    BY <1>13, TokensSame DEF FillFail, Abandon, Deleted, launches
  <2> QED
    BY <1>13, <2>1 DEF FillFail, Abandon, Deleted, heap, frame, launches, python, IInv, TypeOK, CountInv, Counted, Holders, ArgRef, Reachable
<1>14. ASSUME NEW r \in Mem \cup {NoMem}, Return(r) PROVE CountInv'
  BY <1>14, TokensSame DEF Return, heap, frame, launches, python, IInv, CountInv, Counted, Holders, ArgRef
<1>15. ASSUME NEW l \in Launch, NEW f \in [Pos -> Mem], NEW mode \in {"sync", "acquire"}, Submit(l, f, mode) PROVE CountInv'
  <2> SUFFICES ASSUME NEW x \in Mem PROVE Counted(x)'
    BY DEF CountInv
  <2>1. held[l] = {}
    BY <1>15 DEF Submit, IInv, LaunchInv
  <2>2. Tokens(x)' = Tokens(x)
    BY <1>15, <2>1, TokensIdle DEF Submit, IInv
  <2> QED
    BY <1>15, <2>2 DEF Submit, heap, frame, launches, python, IInv, TypeOK, CountInv, Counted, Holders, ArgRef
<1>16. ASSUME NEW l \in Launch, SyncDone(l) PROVE CountInv'
  BY <1>16, TokensSame DEF SyncDone, heap, frame, launches, python, IInv, CountInv, Counted, Holders, ArgRef
<1>17. ASSUME NEW l \in Launch, NEW i \in Pos, NEW m \in Mem, Acquire(l, i, m) PROVE CountInv'
  <2> SUFFICES ASSUME NEW x \in Mem PROVE Counted(x)'
    BY DEF CountInv
  <2>1. i \in Pos /\ i \notin held[l] /\ m = larg[l][i]
    BY <1>17 DEF Acquire, First
  <2>2. Cardinality(Tokens(x)') = Cardinality(Tokens(x)) + (IF m = x THEN 1 ELSE 0)
    BY <1>17, <2>1, TokensAdd DEF Acquire, IInv
  <2>3. Cardinality(Tokens(x)) \in Nat
    BY TokensFinite
  <2>4. status[m] = "live"
    BY <1>17, <2>1, HeldIsLive DEF Acquire, IInv, LaunchInv
  <2> QED
    BY <1>17, <2>2, <2>3, <2>4 DEF Acquire, heap, frame, launches, python, IInv, TypeOK, CountInv, Counted, Holders, ArgRef
<1>18. ASSUME NEW l \in Launch, NEW ok \in BOOLEAN, Schedule(l, ok) PROVE CountInv'
  BY <1>18, TokensSame DEF Schedule, heap, frame, launches, python, IInv, CountInv, Counted, Holders, ArgRef
<1>19. ASSUME CleanupDone PROVE CountInv'
  BY <1>19, TokensSame DEF CleanupDone, heap, frame, launches, python, IInv, CountInv, Counted, Holders, ArgRef
<1>20. ASSUME BoxParent PROVE CountInv'
  BY <1>20, TokensSame DEF BoxParent, heap, frame, launches, python, IInv, CountInv, Counted, Holders, ArgRef
<1>21. ASSUME BoxLoad PROVE CountInv'
  BY <1>21, TokensSame DEF BoxLoad, heap, frame, launches, python, IInv, CountInv, Counted, Holders, ArgRef
<1>22. ASSUME BoxDone PROVE CountInv'
  <2> SUFFICES ASSUME NEW x \in Mem PROVE Counted(x)'
    BY DEF CountInv
  <2>0. PICK m \in Mem : m = retv /\ local[m] >= 1 /\ status[m] = "live"
    BY <1>22, BoxedIsLive DEF BoxDone
  <2>1. Tokens(x)' = Tokens(x) /\ Cardinality(Tokens(x)) \in Nat
    BY <1>22, TokensSame DEF BoxDone, Release, CloseData, DropOwner, Deleted, launches
  <2>2. status[m] = "live" /\ Release(m)
    BY <1>22, <2>0, HeldIsLive DEF BoxDone, Reachable, IInv, TypeOK
  <2>3. Cardinality(Tokens(m)) \in Nat /\ Tokens(m)' = Tokens(m)
    BY <1>22, TokensSame DEF BoxDone, launches
  <2>4. /\ Holders(m)' = Holders(m) - 1
        /\ Holders(m) \in Nat /\ Holders(m) >= 1
        /\ x # m => Holders(x)' = Holders(x)
    BY <1>22, <2>0, <2>1, <2>2, <2>3 DEF BoxDone, Holders, ArgRef, IInv, TypeOK
  <2> QED
    BY <1>22, <2>2, <2>4, ReleaseCount DEF BoxDone
<1>23. ASSUME NEW m \in Mem, Cleanup(m) PROVE CountInv'
  <2> SUFFICES ASSUME NEW x \in Mem PROVE Counted(x)'
    BY DEF CountInv
  <2>1. Tokens(x)' = Tokens(x) /\ Cardinality(Tokens(x)) \in Nat
    BY <1>23, TokensSame DEF Cleanup, Release, CloseData, DropOwner, Deleted, launches
  <2>2. status[m] = "live" /\ Release(m)
    BY <1>23, HeldIsLive DEF Cleanup, Reachable, IInv, TypeOK
  <2>3. Cardinality(Tokens(m)) \in Nat /\ Tokens(m)' = Tokens(m)
    BY <1>23, TokensSame DEF Cleanup, launches
  <2>4. /\ Holders(m)' = Holders(m) - 1
        /\ Holders(m) \in Nat /\ Holders(m) >= 1
        /\ x # m => Holders(x)' = Holders(x)
    BY <1>23, <2>1, <2>2, <2>3 DEF Cleanup, Holders, ArgRef, IInv, TypeOK
  <2> QED
    BY <1>23, <2>2, <2>4, ReleaseCount DEF Cleanup
<1>24. ASSUME NEW ok \in BOOLEAN, BoxStore(ok) PROVE CountInv'
  <2> SUFFICES ASSUME NEW x \in Mem PROVE Counted(x)'
    BY DEF CountInv
  <2>1. Tokens(x)' = Tokens(x) /\ Cardinality(Tokens(x)) \in Nat
    BY <1>24, TokensSame DEF BoxStore, launches
  <2>2. retv \in Mem /\ status[retv] = "live" /\ tmp >= refct[retv] /\ refct[retv] >= Holders(retv)
    BY <1>24, BoxedIsLive DEF BoxStore, IInv, ReturnInv
  <2>3. Tokens(retv)' = Tokens(retv) /\ Cardinality(Tokens(retv)) \in Nat
    BY <1>24, TokensSame DEF BoxStore, launches
  <2> QED
    BY <1>24, <2>1, <2>2, <2>3 DEF BoxStore, heap, frame, launches, python, IInv, TypeOK, CountInv, Counted, Holders, ArgRef
<1>25. ASSUME NEW l \in Launch, KernelDone(l) PROVE CountInv'
  BY <1>25, TokensSame DEF KernelDone, heap, frame, launches, python, IInv, CountInv, Counted, Holders, ArgRef
<1>26. ASSUME NEW l \in Launch, NEW i \in Pos, NEW m \in Mem, HostRelease(l, i, m) PROVE CountInv'
  <2> SUFFICES ASSUME NEW x \in Mem PROVE Counted(x)'
    BY DEF CountInv
  <2>1. i \in held[l] /\ m = larg[l][i] /\ status[m] = "live"
    BY <1>26, TokenIsLive DEF HostRelease, First
  <2>2. Cardinality(Tokens(x)') = Cardinality(Tokens(x)) - (IF m = x THEN 1 ELSE 0)
    BY <1>26, <2>1, TokensRemove DEF HostRelease, IInv
  <2>3. Cardinality(Tokens(x)) \in Nat /\ Cardinality(Tokens(x)') \in Nat
    BY TokensFinite, TokensFinitePrime
  <2>4. /\ Holders(x)' = Holders(x) - (IF m = x THEN 1 ELSE 0)
        /\ Holders(x) \in Nat /\ Holders(x)' \in Nat
    <3>1. UNCHANGED <<args, local, lost, wrap>>
      BY <1>26 DEF HostRelease, frame
    <3>2. local[x] \in Nat /\ lost[x] \in Nat /\ wrap[x] \in Nat
      BY DEF IInv, TypeOK
    <3> QED
      BY <2>2, <2>3, <3>1, <3>2 DEF Holders, ArgRef
  <2>5. Counted(x) /\ Counted(m)
    BY DEF IInv, CountInv
  <2>6. CASE refct[m] = 1
    BY <1>26, <2>1, <2>4, <2>5, <2>6 DEF HostRelease, IInv, TypeOK, Counted, frame, python
  <2>7. CASE refct[m] # 1
    BY <1>26, <2>1, <2>4, <2>5, <2>7 DEF HostRelease, IInv, TypeOK, Counted, frame, python
  <2> QED
    BY <2>6, <2>7
<1>27. ASSUME NEW l \in Launch, HostClose(l) PROVE CountInv'
  <2> SUFFICES ASSUME NEW x \in Mem PROVE Counted(x)'
    BY DEF CountInv
  <2>1. Tokens(x)' = Tokens(x) /\ Cardinality(Tokens(x)) \in Nat
    BY <1>27, TokensSame DEF HostClose, DropOwner, launches
  <2>2. closing[l] \in Mem /\ status[closing[l]] = "closing"
    BY <1>27 DEF HostClose, IInv, ClosingInv, TypeOK
  <2> QED
    BY <1>27, <2>1, <2>2 DEF HostClose, heap, frame, launches, python, IInv, TypeOK, CountInv, Counted, Holders, ArgRef
<1> QED
  BY <1>1, <1>2, <1>3, <1>4, <1>5, <1>6, <1>7, <1>8, <1>9, <1>10, <1>11, <1>12, <1>13, <1>14, <1>15, <1>16, <1>17, <1>18, <1>19, <1>20, <1>21, <1>22, <1>23, <1>24, <1>25, <1>26, <1>27 DEF Next, MainEntry, MainBody, MainLaunch, MainExit, Device, HostTask

(***************************************************************************)
(* ReturnInv, LaunchInv, ClosingInv, DataInv                               *)
(***************************************************************************)
\* The array being returned keeps its reference until it is boxed.
LEMMA ReturnStep ==
  ASSUME IInv, Next
  PROVE  ReturnInv'

<1>1. ASSUME Call PROVE ReturnInv'
  BY <1>1, MemAssumption DEF Call, heap, frame, launches, python, IInv, TypeOK, ReturnInv
<1>2. ASSUME UnboxFail PROVE ReturnInv'
  BY <1>2, MemAssumption DEF UnboxFail, heap, frame, launches, python, IInv, TypeOK, ReturnInv
<1>3. ASSUME EnterBody PROVE ReturnInv'
  BY <1>3, MemAssumption DEF EnterBody, heap, frame, launches, python, IInv, TypeOK, ReturnInv
<1>4. ASSUME NEW o \in Obj, UserDrop(o) PROVE ReturnInv'
  BY <1>4, MemAssumption DEF UserDrop, heap, frame, launches, python, IInv, TypeOK, ReturnInv
<1>5. ASSUME NEW m \in Mem, BoxDrop(m) PROVE ReturnInv'
  BY <1>5, MemAssumption DEF BoxDrop, heap, frame, launches, python, IInv, TypeOK, ReturnInv
<1>6. ASSUME NEW o \in Obj, NEW m \in Mem, Unbox(o, m) PROVE ReturnInv'
  BY <1>6, MemAssumption DEF Unbox, heap, frame, launches, python, IInv, TypeOK, ReturnInv
<1>7. ASSUME NEW o \in Obj, NEW m \in Mem, UnboxFailNew(o, m) PROVE ReturnInv'
  BY <1>7, MemAssumption DEF UnboxFailNew, heap, frame, launches, python, IInv, TypeOK, ReturnInv
<1>8. ASSUME Raise PROVE ReturnInv'
  BY <1>8, MemAssumption DEF Raise, Abandon, heap, frame, launches, python, IInv, TypeOK, ReturnInv
<1>9. ASSUME NEW m \in Mem, Incref(m) PROVE ReturnInv'
  BY <1>9, MemAssumption DEF Incref, heap, frame, launches, python, IInv, TypeOK, ReturnInv
<1>10. ASSUME NEW m \in Mem, Decref(m) PROVE ReturnInv'
  BY <1>10, MemAssumption DEF Decref, Release, heap, frame, launches, python, IInv, TypeOK, ReturnInv
<1>11. ASSUME NEW m \in Mem, Alloc(m) PROVE ReturnInv'
  BY <1>11, MemAssumption DEF Alloc, heap, frame, launches, python, IInv, TypeOK, ReturnInv
<1>12. ASSUME NEW m \in Mem, AllocFail(m) PROVE ReturnInv'
  BY <1>12, MemAssumption DEF AllocFail, Abandon, heap, frame, launches, python, IInv, TypeOK, ReturnInv
<1>13. ASSUME NEW m \in Mem, NEW src \in Mem, FillFail(m, src) PROVE ReturnInv'
  BY <1>13, MemAssumption DEF FillFail, Abandon, heap, frame, launches, python, IInv, TypeOK, ReturnInv
<1>14. ASSUME NEW r \in Mem \cup {NoMem}, Return(r) PROVE ReturnInv'
  BY <1>14, MemAssumption DEF Return, heap, frame, launches, python, IInv, TypeOK, ReturnInv
<1>15. ASSUME NEW l \in Launch, NEW f \in [Pos -> Mem], NEW mode \in {"sync", "acquire"}, Submit(l, f, mode) PROVE ReturnInv'
  BY <1>15, MemAssumption DEF Submit, heap, frame, launches, python, IInv, TypeOK, ReturnInv
<1>16. ASSUME NEW l \in Launch, SyncDone(l) PROVE ReturnInv'
  BY <1>16, MemAssumption DEF SyncDone, heap, frame, launches, python, IInv, TypeOK, ReturnInv
<1>17. ASSUME NEW l \in Launch, NEW i \in Pos, NEW m \in Mem, Acquire(l, i, m) PROVE ReturnInv'
  BY <1>17, MemAssumption DEF Acquire, heap, frame, launches, python, IInv, TypeOK, ReturnInv
<1>18. ASSUME NEW l \in Launch, NEW ok \in BOOLEAN, Schedule(l, ok) PROVE ReturnInv'
  BY <1>18, MemAssumption DEF Schedule, heap, frame, launches, python, IInv, TypeOK, ReturnInv
<1>19. ASSUME CleanupDone PROVE ReturnInv'
  BY <1>19, MemAssumption DEF CleanupDone, heap, frame, launches, python, IInv, TypeOK, ReturnInv
<1>20. ASSUME BoxParent PROVE ReturnInv'
  BY <1>20, MemAssumption DEF BoxParent, heap, frame, launches, python, IInv, TypeOK, ReturnInv
<1>21. ASSUME BoxLoad PROVE ReturnInv'
  BY <1>21, MemAssumption DEF BoxLoad, heap, frame, launches, python, IInv, TypeOK, ReturnInv
<1>22. ASSUME BoxDone PROVE ReturnInv'
  BY <1>22, MemAssumption DEF BoxDone, Release, heap, frame, launches, python, IInv, TypeOK, ReturnInv
<1>23. ASSUME NEW m \in Mem, Cleanup(m) PROVE ReturnInv'
  BY <1>23, MemAssumption DEF Cleanup, Release, heap, frame, launches, python, IInv, TypeOK, ReturnInv
<1>24. ASSUME NEW ok \in BOOLEAN, BoxStore(ok) PROVE ReturnInv'
  BY <1>24, MemAssumption DEF BoxStore, heap, frame, launches, python, IInv, TypeOK, ReturnInv
<1>25. ASSUME NEW l \in Launch, KernelDone(l) PROVE ReturnInv'
  BY <1>25, MemAssumption DEF KernelDone, heap, frame, launches, python, IInv, TypeOK, ReturnInv
<1>26. ASSUME NEW l \in Launch, NEW i \in Pos, NEW m \in Mem, HostRelease(l, i, m) PROVE ReturnInv'
  BY <1>26, MemAssumption DEF HostRelease, heap, frame, launches, python, IInv, TypeOK, ReturnInv
<1>27. ASSUME NEW l \in Launch, HostClose(l) PROVE ReturnInv'
  BY <1>27, MemAssumption DEF HostClose, heap, frame, launches, python, IInv, TypeOK, ReturnInv
<1> QED
  BY <1>1, <1>2, <1>3, <1>4, <1>5, <1>6, <1>7, <1>8, <1>9, <1>10, <1>11, <1>12, <1>13, <1>14, <1>15, <1>16, <1>17, <1>18, <1>19, <1>20, <1>21, <1>22, <1>23, <1>24, <1>25, <1>26, <1>27 DEF Next, MainEntry, MainBody, MainLaunch, MainExit, Device, HostTask

\* Launches hold what their phase says.
LEMMA LaunchStep ==
  ASSUME IInv, Next
  PROVE  LaunchInv'

<1>1. ASSUME Call PROVE LaunchInv'
  BY <1>1 DEF Call, heap, frame, launches, python, IInv, TypeOK, LaunchInv, Reachable
<1>2. ASSUME UnboxFail PROVE LaunchInv'
  BY <1>2 DEF UnboxFail, heap, frame, launches, python, IInv, TypeOK, LaunchInv, Reachable
<1>3. ASSUME EnterBody PROVE LaunchInv'
  BY <1>3 DEF EnterBody, heap, frame, launches, python, IInv, TypeOK, LaunchInv, Reachable
<1>4. ASSUME NEW o \in Obj, UserDrop(o) PROVE LaunchInv'
  BY <1>4 DEF UserDrop, heap, frame, launches, python, IInv, TypeOK, LaunchInv, Reachable
<1>5. ASSUME NEW m \in Mem, BoxDrop(m) PROVE LaunchInv'
  BY <1>5 DEF BoxDrop, heap, frame, launches, python, IInv, TypeOK, LaunchInv, Reachable
<1>6. ASSUME NEW o \in Obj, NEW m \in Mem, Unbox(o, m) PROVE LaunchInv'
  BY <1>6 DEF Unbox, heap, frame, launches, python, IInv, TypeOK, LaunchInv, Reachable
<1>7. ASSUME NEW o \in Obj, NEW m \in Mem, UnboxFailNew(o, m) PROVE LaunchInv'
  BY <1>7 DEF UnboxFailNew, heap, frame, launches, python, IInv, TypeOK, LaunchInv, Reachable
<1>8. ASSUME Raise PROVE LaunchInv'
  BY <1>8 DEF Raise, Abandon, heap, frame, launches, python, IInv, TypeOK, LaunchInv, Reachable
<1>9. ASSUME NEW m \in Mem, Incref(m) PROVE LaunchInv'
  BY <1>9 DEF Incref, heap, frame, launches, python, IInv, TypeOK, LaunchInv, Reachable
<1>10. ASSUME NEW m \in Mem, Decref(m) PROVE LaunchInv'
  BY <1>10 DEF Decref, heap, frame, launches, python, IInv, TypeOK, LaunchInv, Reachable
<1>11. ASSUME NEW m \in Mem, Alloc(m) PROVE LaunchInv'
  BY <1>11 DEF Alloc, heap, frame, launches, python, IInv, TypeOK, LaunchInv, Reachable
<1>12. ASSUME NEW m \in Mem, AllocFail(m) PROVE LaunchInv'
  BY <1>12 DEF AllocFail, Abandon, heap, frame, launches, python, IInv, TypeOK, LaunchInv, Reachable
<1>13. ASSUME NEW m \in Mem, NEW src \in Mem, FillFail(m, src) PROVE LaunchInv'
  BY <1>13 DEF FillFail, Abandon, heap, frame, launches, python, IInv, TypeOK, LaunchInv, Reachable
<1>14. ASSUME NEW r \in Mem \cup {NoMem}, Return(r) PROVE LaunchInv'
  BY <1>14 DEF Return, heap, frame, launches, python, IInv, TypeOK, LaunchInv, Reachable
<1>15. ASSUME NEW l \in Launch, NEW f \in [Pos -> Mem], NEW mode \in {"sync", "acquire"}, Submit(l, f, mode) PROVE LaunchInv'
  BY <1>15 DEF Submit, heap, frame, launches, python, IInv, TypeOK, LaunchInv, Reachable
<1>16. ASSUME NEW l \in Launch, SyncDone(l) PROVE LaunchInv'
  BY <1>16 DEF SyncDone, heap, frame, launches, python, IInv, TypeOK, LaunchInv, Reachable
<1>17. ASSUME NEW l \in Launch, NEW i \in Pos, NEW m \in Mem, Acquire(l, i, m) PROVE LaunchInv'
  BY <1>17 DEF Acquire, First, heap, frame, launches, python, IInv, TypeOK, LaunchInv, Reachable
<1>18. ASSUME NEW l \in Launch, NEW ok \in BOOLEAN, Schedule(l, ok) PROVE LaunchInv'
  BY <1>18 DEF Schedule, heap, frame, launches, python, IInv, TypeOK, LaunchInv, Reachable
<1>19. ASSUME CleanupDone PROVE LaunchInv'
  BY <1>19 DEF CleanupDone, heap, frame, launches, python, IInv, TypeOK, LaunchInv, Reachable
<1>20. ASSUME BoxParent PROVE LaunchInv'
  BY <1>20 DEF BoxParent, heap, frame, launches, python, IInv, TypeOK, LaunchInv, Reachable
<1>21. ASSUME BoxLoad PROVE LaunchInv'
  BY <1>21 DEF BoxLoad, heap, frame, launches, python, IInv, TypeOK, LaunchInv, Reachable
<1>22. ASSUME BoxDone PROVE LaunchInv'
  BY <1>22 DEF BoxDone, heap, frame, launches, python, IInv, TypeOK, LaunchInv, Reachable
<1>23. ASSUME NEW m \in Mem, Cleanup(m) PROVE LaunchInv'
  BY <1>23 DEF Cleanup, heap, frame, launches, python, IInv, TypeOK, LaunchInv, Reachable
<1>24. ASSUME NEW ok \in BOOLEAN, BoxStore(ok) PROVE LaunchInv'
  BY <1>24 DEF BoxStore, heap, frame, launches, python, IInv, TypeOK, LaunchInv, Reachable
<1>25. ASSUME NEW l \in Launch, KernelDone(l) PROVE LaunchInv'
  BY <1>25 DEF KernelDone, heap, frame, launches, python, IInv, TypeOK, LaunchInv, Reachable
<1>26. ASSUME NEW l \in Launch, NEW i \in Pos, NEW m \in Mem, HostRelease(l, i, m) PROVE LaunchInv'
  BY <1>26 DEF HostRelease, heap, frame, launches, python, IInv, TypeOK, LaunchInv, Reachable
<1>27. ASSUME NEW l \in Launch, HostClose(l) PROVE LaunchInv'
  BY <1>27 DEF HostClose, heap, frame, launches, python, IInv, TypeOK, LaunchInv, Reachable
<1> QED
  BY <1>1, <1>2, <1>3, <1>4, <1>5, <1>6, <1>7, <1>8, <1>9, <1>10, <1>11, <1>12, <1>13, <1>14, <1>15, <1>16, <1>17, <1>18, <1>19, <1>20, <1>21, <1>22, <1>23, <1>24, <1>25, <1>26, <1>27 DEF Next, MainEntry, MainBody, MainLaunch, MainExit, Device, HostTask

\* A host task is alone in the destructor it runs.
LEMMA ClosingStep ==
  ASSUME IInv, Next
  PROVE  ClosingInv'

<1>1. ASSUME Call PROVE ClosingInv'
  BY <1>1, MemAssumption DEF Call, heap, frame, launches, python, IInv, TypeOK, ClosingInv
<1>2. ASSUME UnboxFail PROVE ClosingInv'
  BY <1>2, MemAssumption DEF UnboxFail, heap, frame, launches, python, IInv, TypeOK, ClosingInv
<1>3. ASSUME EnterBody PROVE ClosingInv'
  BY <1>3, MemAssumption DEF EnterBody, heap, frame, launches, python, IInv, TypeOK, ClosingInv
<1>4. ASSUME NEW o \in Obj, UserDrop(o) PROVE ClosingInv'
  BY <1>4, MemAssumption DEF UserDrop, heap, frame, launches, python, IInv, TypeOK, ClosingInv
<1>5. ASSUME NEW m \in Mem, BoxDrop(m) PROVE ClosingInv'
  BY <1>5, MemAssumption DEF BoxDrop, heap, frame, launches, python, IInv, TypeOK, ClosingInv
<1>6. ASSUME NEW o \in Obj, NEW m \in Mem, Unbox(o, m) PROVE ClosingInv'
  BY <1>6, MemAssumption DEF Unbox, heap, frame, launches, python, IInv, TypeOK, ClosingInv
<1>7. ASSUME NEW o \in Obj, NEW m \in Mem, UnboxFailNew(o, m) PROVE ClosingInv'
  BY <1>7, MemAssumption DEF UnboxFailNew, heap, frame, launches, python, IInv, TypeOK, ClosingInv
<1>8. ASSUME Raise PROVE ClosingInv'
  BY <1>8, MemAssumption DEF Raise, Abandon, heap, frame, launches, python, IInv, TypeOK, ClosingInv
<1>9. ASSUME NEW m \in Mem, Incref(m) PROVE ClosingInv'
  BY <1>9, MemAssumption DEF Incref, heap, frame, launches, python, IInv, TypeOK, ClosingInv
<1>10. ASSUME NEW m \in Mem, Decref(m) PROVE ClosingInv'
  BY <1>10, MemAssumption, HeldIsLive, BoxedIsLive DEF Decref, Release, Reachable, heap, frame, launches, python, IInv, TypeOK, ClosingInv
<1>11. ASSUME NEW m \in Mem, Alloc(m) PROVE ClosingInv'
  BY <1>11, MemAssumption DEF Alloc, heap, frame, launches, python, IInv, TypeOK, ClosingInv
<1>12. ASSUME NEW m \in Mem, AllocFail(m) PROVE ClosingInv'
  BY <1>12, MemAssumption DEF AllocFail, Abandon, heap, frame, launches, python, IInv, TypeOK, ClosingInv
<1>13. ASSUME NEW m \in Mem, NEW src \in Mem, FillFail(m, src) PROVE ClosingInv'
  BY <1>13, MemAssumption DEF FillFail, Abandon, heap, frame, launches, python, IInv, TypeOK, ClosingInv
<1>14. ASSUME NEW r \in Mem \cup {NoMem}, Return(r) PROVE ClosingInv'
  BY <1>14, MemAssumption DEF Return, heap, frame, launches, python, IInv, TypeOK, ClosingInv
<1>15. ASSUME NEW l \in Launch, NEW f \in [Pos -> Mem], NEW mode \in {"sync", "acquire"}, Submit(l, f, mode) PROVE ClosingInv'
  BY <1>15, MemAssumption DEF Submit, heap, frame, launches, python, IInv, TypeOK, ClosingInv
<1>16. ASSUME NEW l \in Launch, SyncDone(l) PROVE ClosingInv'
  BY <1>16, MemAssumption DEF SyncDone, heap, frame, launches, python, IInv, TypeOK, ClosingInv
<1>17. ASSUME NEW l \in Launch, NEW i \in Pos, NEW m \in Mem, Acquire(l, i, m) PROVE ClosingInv'
  BY <1>17, MemAssumption DEF Acquire, heap, frame, launches, python, IInv, TypeOK, ClosingInv
<1>18. ASSUME NEW l \in Launch, NEW ok \in BOOLEAN, Schedule(l, ok) PROVE ClosingInv'
  BY <1>18, MemAssumption DEF Schedule, heap, frame, launches, python, IInv, TypeOK, ClosingInv
<1>19. ASSUME CleanupDone PROVE ClosingInv'
  BY <1>19, MemAssumption DEF CleanupDone, heap, frame, launches, python, IInv, TypeOK, ClosingInv
<1>20. ASSUME BoxParent PROVE ClosingInv'
  BY <1>20, MemAssumption DEF BoxParent, heap, frame, launches, python, IInv, TypeOK, ClosingInv
<1>21. ASSUME BoxLoad PROVE ClosingInv'
  BY <1>21, MemAssumption DEF BoxLoad, heap, frame, launches, python, IInv, TypeOK, ClosingInv
<1>22. ASSUME BoxDone PROVE ClosingInv'
  BY <1>22, MemAssumption, HeldIsLive, BoxedIsLive DEF BoxDone, Release, Reachable, heap, frame, launches, python, IInv, TypeOK, ClosingInv
<1>23. ASSUME NEW m \in Mem, Cleanup(m) PROVE ClosingInv'
  BY <1>23, MemAssumption, HeldIsLive, BoxedIsLive DEF Cleanup, Release, Reachable, heap, frame, launches, python, IInv, TypeOK, ClosingInv
<1>24. ASSUME NEW ok \in BOOLEAN, BoxStore(ok) PROVE ClosingInv'
  BY <1>24, MemAssumption DEF BoxStore, heap, frame, launches, python, IInv, TypeOK, ClosingInv
<1>25. ASSUME NEW l \in Launch, KernelDone(l) PROVE ClosingInv'
  BY <1>25, MemAssumption DEF KernelDone, heap, frame, launches, python, IInv, TypeOK, ClosingInv
<1>26. ASSUME NEW l \in Launch, NEW i \in Pos, NEW m \in Mem, HostRelease(l, i, m) PROVE ClosingInv'
  <2>1. m = larg[l][i] /\ status[m] = "live" /\ m # NoMem
    BY <1>26, TokenIsLive, MemAssumption DEF HostRelease, First
  <2>2. CASE refct[m] = 1
    <3>1. /\ closing \in [Launch -> Mem \cup {NoMem}] /\ status \in [Mem -> {"unused", "live", "closing", "gone"}]
          /\ ClosingInv
      BY DEF IInv, TypeOK
    <3>2. status' = [status EXCEPT ![m] = "closing"] /\ closing' = [closing EXCEPT ![l] = m]
      BY <1>26, <2>2 DEF HostRelease
    <3>3. \A k \in Launch : closing[k] # m
      BY <3>1, <2>1 DEF ClosingInv
    <3> QED
      BY <3>1, <3>2, <3>3, <2>1 DEF ClosingInv
  <2>3. CASE refct[m] # 1
    <3>1. UNCHANGED <<status, closing>>
      BY <1>26, <2>3 DEF HostRelease
    <3> QED
      BY <3>1 DEF IInv, ClosingInv
  <2> QED
    BY <2>2, <2>3
<1>27. ASSUME NEW l \in Launch, HostClose(l) PROVE ClosingInv'
  BY <1>27, MemAssumption DEF HostClose, heap, frame, launches, python, IInv, TypeOK, ClosingInv
<1> QED
  BY <1>1, <1>2, <1>3, <1>4, <1>5, <1>6, <1>7, <1>8, <1>9, <1>10, <1>11, <1>12, <1>13, <1>14, <1>15, <1>16, <1>17, <1>18, <1>19, <1>20, <1>21, <1>22, <1>23, <1>24, <1>25, <1>26, <1>27 DEF Next, MainEntry, MainBody, MainLaunch, MainExit, Device, HostTask

\* The data of a live MemInfo is not freed.
LEMMA DataStep ==
  ASSUME IInv, Next
  PROVE  DataInv'

<1>1. ASSUME Call PROVE DataInv'
  BY <1>1, MemAssumption DEF Call, heap, frame, launches, python, IInv, TypeOK, DataInv
<1>2. ASSUME UnboxFail PROVE DataInv'
  BY <1>2, MemAssumption DEF UnboxFail, heap, frame, launches, python, IInv, TypeOK, DataInv
<1>3. ASSUME EnterBody PROVE DataInv'
  BY <1>3, MemAssumption DEF EnterBody, heap, frame, launches, python, IInv, TypeOK, DataInv
<1>4. ASSUME NEW o \in Obj, UserDrop(o) PROVE DataInv'
  BY <1>4, MemAssumption DEF UserDrop, heap, frame, launches, python, IInv, TypeOK, DataInv
<1>5. ASSUME NEW m \in Mem, BoxDrop(m) PROVE DataInv'
  BY <1>5, MemAssumption DEF BoxDrop, heap, frame, launches, python, IInv, TypeOK, DataInv
<1>6. ASSUME NEW o \in Obj, NEW m \in Mem, Unbox(o, m) PROVE DataInv'
  BY <1>6, MemAssumption DEF Unbox, heap, frame, launches, python, IInv, TypeOK, DataInv
<1>7. ASSUME NEW o \in Obj, NEW m \in Mem, UnboxFailNew(o, m) PROVE DataInv'
  BY <1>7, MemAssumption DEF UnboxFailNew, heap, frame, launches, python, IInv, TypeOK, DataInv
<1>8. ASSUME Raise PROVE DataInv'
  BY <1>8, MemAssumption DEF Raise, Abandon, heap, frame, launches, python, IInv, TypeOK, DataInv
<1>9. ASSUME NEW m \in Mem, Incref(m) PROVE DataInv'
  BY <1>9, MemAssumption DEF Incref, heap, frame, launches, python, IInv, TypeOK, DataInv
<1>10. ASSUME NEW m \in Mem, Decref(m) PROVE DataInv'
  BY <1>10, MemAssumption, HeldIsLive, BoxedIsLive DEF Decref, Release, CloseData, Reachable, heap, frame, launches, python, IInv, TypeOK, DataInv
<1>11. ASSUME NEW m \in Mem, Alloc(m) PROVE DataInv'
  BY <1>11, MemAssumption DEF Alloc, heap, frame, launches, python, IInv, TypeOK, DataInv
<1>12. ASSUME NEW m \in Mem, AllocFail(m) PROVE DataInv'
  BY <1>12, MemAssumption DEF AllocFail, Abandon, heap, frame, launches, python, IInv, TypeOK, DataInv
<1>13. ASSUME NEW m \in Mem, NEW src \in Mem, FillFail(m, src) PROVE DataInv'
  BY <1>13, MemAssumption DEF FillFail, Abandon, heap, frame, launches, python, IInv, TypeOK, DataInv
<1>14. ASSUME NEW r \in Mem \cup {NoMem}, Return(r) PROVE DataInv'
  BY <1>14, MemAssumption DEF Return, heap, frame, launches, python, IInv, TypeOK, DataInv
<1>15. ASSUME NEW l \in Launch, NEW f \in [Pos -> Mem], NEW mode \in {"sync", "acquire"}, Submit(l, f, mode) PROVE DataInv'
  BY <1>15, MemAssumption DEF Submit, heap, frame, launches, python, IInv, TypeOK, DataInv
<1>16. ASSUME NEW l \in Launch, SyncDone(l) PROVE DataInv'
  BY <1>16, MemAssumption DEF SyncDone, heap, frame, launches, python, IInv, TypeOK, DataInv
<1>17. ASSUME NEW l \in Launch, NEW i \in Pos, NEW m \in Mem, Acquire(l, i, m) PROVE DataInv'
  BY <1>17, MemAssumption DEF Acquire, heap, frame, launches, python, IInv, TypeOK, DataInv
<1>18. ASSUME NEW l \in Launch, NEW ok \in BOOLEAN, Schedule(l, ok) PROVE DataInv'
  BY <1>18, MemAssumption DEF Schedule, heap, frame, launches, python, IInv, TypeOK, DataInv
<1>19. ASSUME CleanupDone PROVE DataInv'
  BY <1>19, MemAssumption DEF CleanupDone, heap, frame, launches, python, IInv, TypeOK, DataInv
<1>20. ASSUME BoxParent PROVE DataInv'
  BY <1>20, MemAssumption DEF BoxParent, heap, frame, launches, python, IInv, TypeOK, DataInv
<1>21. ASSUME BoxLoad PROVE DataInv'
  BY <1>21, MemAssumption DEF BoxLoad, heap, frame, launches, python, IInv, TypeOK, DataInv
<1>22. ASSUME BoxDone PROVE DataInv'
  BY <1>22, MemAssumption, HeldIsLive, BoxedIsLive DEF BoxDone, Release, CloseData, Reachable, heap, frame, launches, python, IInv, TypeOK, DataInv
<1>23. ASSUME NEW m \in Mem, Cleanup(m) PROVE DataInv'
  BY <1>23, MemAssumption, HeldIsLive, BoxedIsLive DEF Cleanup, Release, CloseData, Reachable, heap, frame, launches, python, IInv, TypeOK, DataInv
<1>24. ASSUME NEW ok \in BOOLEAN, BoxStore(ok) PROVE DataInv'
  BY <1>24, MemAssumption DEF BoxStore, heap, frame, launches, python, IInv, TypeOK, DataInv
<1>25. ASSUME NEW l \in Launch, KernelDone(l) PROVE DataInv'
  BY <1>25, MemAssumption DEF KernelDone, heap, frame, launches, python, IInv, TypeOK, DataInv
<1>26. ASSUME NEW l \in Launch, NEW i \in Pos, NEW m \in Mem, HostRelease(l, i, m) PROVE DataInv'
  BY <1>26, MemAssumption, TokenIsLive DEF HostRelease, CloseData, First, heap, frame, launches, python, IInv, TypeOK, DataInv
<1>27. ASSUME NEW l \in Launch, HostClose(l) PROVE DataInv'
  BY <1>27, MemAssumption DEF HostClose, heap, frame, launches, python, IInv, TypeOK, DataInv
<1> QED
  BY <1>1, <1>2, <1>3, <1>4, <1>5, <1>6, <1>7, <1>8, <1>9, <1>10, <1>11, <1>12, <1>13, <1>14, <1>15, <1>16, <1>17, <1>18, <1>19, <1>20, <1>21, <1>22, <1>23, <1>24, <1>25, <1>26, <1>27 DEF Next, MainEntry, MainBody, MainLaunch, MainExit, Device, HostTask

(***************************************************************************)
(* OwnerRefExact                                                           *)
(***************************************************************************)
\* Steps that neither make nor destroy a MemInfo with an owner.
LEMMA KeepingSame ==
  ASSUME TypeOK, NEW o \in Obj, owner' = owner,
         \A m \in Mem : owner[m] = o =>
           (status'[m] \in {"live", "closing"} <=> status[m] \in {"live", "closing"})
  PROVE  Keeping(o)' = Keeping(o) /\ Cardinality(Keeping(o)) \in Nat
BY KeepingFinite DEF Keeping

\* The end of a dtor: the owner loses one reference and one MemInfo.
LEMMA OwnerDrop ==
  ASSUME IInv, NEW m \in Mem, status[m] \in {"live", "closing"},
         status' = [status EXCEPT ![m] = "gone"], owner' = owner, user' = user,
         DropOwner(m)
  PROVE  OwnerRefExact'
<1> SUFFICES ASSUME NEW o \in Obj
             PROVE  pyref'[o] = user'[o] + Cardinality(Keeping(o)')
  BY DEF OwnerRefExact
<1>1. pyref[o] = user[o] + Cardinality(Keeping(o)) /\ pyref \in [Obj -> Int]
  BY DEF IInv, OwnerRefExact, TypeOK
<1>2. CASE owner[m] = o
  <2>1. Keeping(o)' = Keeping(o) \ {m} /\ m \in Keeping(o)
    BY <1>2 DEF Keeping, IInv, TypeOK
  <2>2. Cardinality(Keeping(o)') = Cardinality(Keeping(o)) - 1
    BY <2>1, KeepingFinite, FS_RemoveElement
  <2>3. pyref'[o] = pyref[o] - 1
    BY <1>1, <1>2, MemAssumption DEF DropOwner
  <2> QED
    BY <1>1, <2>2, <2>3, KeepingFinite DEF IInv, TypeOK
<1>3. CASE owner[m] # o
  <2>1. Keeping(o)' = Keeping(o)
    BY <1>3 DEF Keeping, IInv, TypeOK
  <2>2. pyref'[o] = pyref[o]
    BY <1>1, <1>3, MemAssumption DEF DropOwner, IInv, TypeOK
  <2> QED
    BY <1>1, <2>1, <2>2
<1> QED
  BY <1>2, <1>3

\* The reference count of an array object stays exact.
LEMMA OwnerStep ==
  ASSUME IInv, Next
  PROVE  OwnerRefExact'

<1>1. ASSUME Call PROVE OwnerRefExact'
  <2> SUFFICES ASSUME NEW x \in Obj PROVE pyref'[x] = user'[x] + Cardinality(Keeping(x)')
    BY DEF OwnerRefExact
  <2>1. Keeping(x)' = Keeping(x) /\ Cardinality(Keeping(x)) \in Nat
    BY <1>1, KeepingSame DEF Call, heap, IInv, TypeOK
  <2> QED
    BY <1>1, <2>1 DEF Call, heap, python, IInv, TypeOK, OwnerRefExact
<1>2. ASSUME UnboxFail PROVE OwnerRefExact'
  <2> SUFFICES ASSUME NEW x \in Obj PROVE pyref'[x] = user'[x] + Cardinality(Keeping(x)')
    BY DEF OwnerRefExact
  <2>1. Keeping(x)' = Keeping(x) /\ Cardinality(Keeping(x)) \in Nat
    BY <1>2, KeepingSame DEF UnboxFail, heap, IInv, TypeOK
  <2> QED
    BY <1>2, <2>1 DEF UnboxFail, heap, python, IInv, TypeOK, OwnerRefExact
<1>3. ASSUME EnterBody PROVE OwnerRefExact'
  <2> SUFFICES ASSUME NEW x \in Obj PROVE pyref'[x] = user'[x] + Cardinality(Keeping(x)')
    BY DEF OwnerRefExact
  <2>1. Keeping(x)' = Keeping(x) /\ Cardinality(Keeping(x)) \in Nat
    BY <1>3, KeepingSame DEF EnterBody, heap, IInv, TypeOK
  <2> QED
    BY <1>3, <2>1 DEF EnterBody, heap, python, IInv, TypeOK, OwnerRefExact
<1>4. ASSUME NEW o \in Obj, UserDrop(o) PROVE OwnerRefExact'
  <2> SUFFICES ASSUME NEW x \in Obj PROVE pyref'[x] = user'[x] + Cardinality(Keeping(x)')
    BY DEF OwnerRefExact
  <2>1. Keeping(x)' = Keeping(x) /\ Cardinality(Keeping(x)) \in Nat
    BY <1>4, KeepingSame DEF UserDrop, heap, IInv, TypeOK
  <2> QED
    BY <1>4, <2>1 DEF UserDrop, heap, python, IInv, TypeOK, OwnerRefExact
<1>5. ASSUME NEW m \in Mem, BoxDrop(m) PROVE OwnerRefExact'
  <2> SUFFICES ASSUME NEW x \in Obj PROVE pyref'[x] = user'[x] + Cardinality(Keeping(x)')
    BY DEF OwnerRefExact
  <2>1. Keeping(x)' = Keeping(x) /\ Cardinality(Keeping(x)) \in Nat
    BY <1>5, KeepingSame DEF BoxDrop, heap, IInv, TypeOK
  <2> QED
    BY <1>5, <2>1 DEF BoxDrop, heap, python, IInv, TypeOK, OwnerRefExact
<1>6. ASSUME NEW o \in Obj, NEW m \in Mem, Unbox(o, m) PROVE OwnerRefExact'
  <2> SUFFICES ASSUME NEW x \in Obj PROVE pyref'[x] = user'[x] + Cardinality(Keeping(x)')
    BY DEF OwnerRefExact
  <2>1. CASE x = o
    <3>1. Keeping(x)' = Keeping(x) \cup {m} /\ m \notin Keeping(x)
      BY <1>6, <2>1 DEF Keeping, Unbox, IInv, TypeOK
    <3>2. Cardinality(Keeping(x)') = Cardinality(Keeping(x)) + 1
      BY <3>1, KeepingFinite, FS_AddElement
    <3> QED
      BY <1>6, <2>1, <3>2, KeepingFinite DEF Unbox, IInv, TypeOK, OwnerRefExact
  <2>2. CASE x # o
    <3>1. Keeping(x)' = Keeping(x)
      BY <1>6, <2>2 DEF Keeping, Unbox, IInv, TypeOK, DataInv
    <3> QED
      BY <1>6, <2>2, <3>1 DEF Unbox, IInv, TypeOK, OwnerRefExact
  <2> QED
    BY <2>1, <2>2
<1>7. ASSUME NEW o \in Obj, NEW m \in Mem, UnboxFailNew(o, m) PROVE OwnerRefExact'
  <2> SUFFICES ASSUME NEW x \in Obj PROVE pyref'[x] = user'[x] + Cardinality(Keeping(x)')
    BY DEF OwnerRefExact
  <2>0. owner[m] = NoObj /\ x # NoObj
    BY <1>7, MemAssumption DEF UnboxFailNew, IInv, DataInv
  <2>1. Keeping(x)' = Keeping(x) /\ Cardinality(Keeping(x)) \in Nat
    BY <1>7, <2>0, KeepingSame DEF UnboxFailNew, heap, IInv, TypeOK
  <2> QED
    BY <1>7, <2>1 DEF UnboxFailNew, heap, python, IInv, TypeOK, OwnerRefExact
<1>8. ASSUME Raise PROVE OwnerRefExact'
  <2> SUFFICES ASSUME NEW x \in Obj PROVE pyref'[x] = user'[x] + Cardinality(Keeping(x)')
    BY DEF OwnerRefExact
  <2>1. Keeping(x)' = Keeping(x) /\ Cardinality(Keeping(x)) \in Nat
    BY <1>8, KeepingSame DEF Raise, Abandon, heap, IInv, TypeOK
  <2> QED
    BY <1>8, <2>1 DEF Raise, Abandon, heap, python, IInv, TypeOK, OwnerRefExact
<1>9. ASSUME NEW m \in Mem, Incref(m) PROVE OwnerRefExact'
  <2> SUFFICES ASSUME NEW x \in Obj PROVE pyref'[x] = user'[x] + Cardinality(Keeping(x)')
    BY DEF OwnerRefExact
  <2>1. Keeping(x)' = Keeping(x) /\ Cardinality(Keeping(x)) \in Nat
    BY <1>9, KeepingSame DEF Incref, heap, IInv, TypeOK
  <2> QED
    BY <1>9, <2>1 DEF Incref, heap, python, IInv, TypeOK, OwnerRefExact
<1>10. ASSUME NEW m \in Mem, Decref(m) PROVE OwnerRefExact'
  <2>1. m \in Mem /\ status[m] = "live" /\ Release(m) /\ user' = user
    BY <1>10, HeldIsLive DEF Decref, Reachable, IInv, TypeOK
  <2>2. CASE refct[m] = 1
    BY <2>1, <2>2, OwnerDrop DEF Release
  <2>3. CASE refct[m] # 1
    BY <2>1, <2>3, KeepingSame DEF Release, IInv, TypeOK, OwnerRefExact
  <2> QED
    BY <2>2, <2>3
<1>11. ASSUME NEW m \in Mem, Alloc(m) PROVE OwnerRefExact'
  <2> SUFFICES ASSUME NEW x \in Obj PROVE pyref'[x] = user'[x] + Cardinality(Keeping(x)')
    BY DEF OwnerRefExact
  <2>0. owner[m] = NoObj /\ x # NoObj
    BY <1>11, MemAssumption DEF Alloc, IInv, DataInv
  <2>1. Keeping(x)' = Keeping(x) /\ Cardinality(Keeping(x)) \in Nat
    BY <1>11, <2>0, KeepingSame DEF Alloc, heap, IInv, TypeOK
  <2> QED
    BY <1>11, <2>1 DEF Alloc, heap, python, IInv, TypeOK, OwnerRefExact
<1>12. ASSUME NEW m \in Mem, AllocFail(m) PROVE OwnerRefExact'
  <2> SUFFICES ASSUME NEW x \in Obj PROVE pyref'[x] = user'[x] + Cardinality(Keeping(x)')
    BY DEF OwnerRefExact
  <2>0. owner[m] = NoObj /\ x # NoObj
    BY <1>12, MemAssumption DEF AllocFail, IInv, DataInv
  <2>1. Keeping(x)' = Keeping(x) /\ Cardinality(Keeping(x)) \in Nat
    BY <1>12, <2>0, KeepingSame DEF AllocFail, Abandon, heap, IInv, TypeOK
  <2> QED
    BY <1>12, <2>1 DEF AllocFail, Abandon, heap, python, IInv, TypeOK, OwnerRefExact
<1>13. ASSUME NEW m \in Mem, NEW src \in Mem, FillFail(m, src) PROVE OwnerRefExact'
  <2> SUFFICES ASSUME NEW x \in Obj PROVE pyref'[x] = user'[x] + Cardinality(Keeping(x)')
    BY DEF OwnerRefExact
  <2>0. owner[m] = NoObj /\ x # NoObj
    BY <1>13, MemAssumption DEF FillFail, IInv, DataInv
  <2>1. Keeping(x)' = Keeping(x) /\ Cardinality(Keeping(x)) \in Nat
    BY <1>13, <2>0, KeepingSame DEF FillFail, Abandon, heap, IInv, TypeOK
  <2> QED
    BY <1>13, <2>1 DEF FillFail, Abandon, heap, python, IInv, TypeOK, OwnerRefExact
<1>14. ASSUME NEW r \in Mem \cup {NoMem}, Return(r) PROVE OwnerRefExact'
  <2> SUFFICES ASSUME NEW x \in Obj PROVE pyref'[x] = user'[x] + Cardinality(Keeping(x)')
    BY DEF OwnerRefExact
  <2>1. Keeping(x)' = Keeping(x) /\ Cardinality(Keeping(x)) \in Nat
    BY <1>14, KeepingSame DEF Return, heap, IInv, TypeOK
  <2> QED
    BY <1>14, <2>1 DEF Return, heap, python, IInv, TypeOK, OwnerRefExact
<1>15. ASSUME NEW l \in Launch, NEW f \in [Pos -> Mem], NEW mode \in {"sync", "acquire"}, Submit(l, f, mode) PROVE OwnerRefExact'
  <2> SUFFICES ASSUME NEW x \in Obj PROVE pyref'[x] = user'[x] + Cardinality(Keeping(x)')
    BY DEF OwnerRefExact
  <2>1. Keeping(x)' = Keeping(x) /\ Cardinality(Keeping(x)) \in Nat
    BY <1>15, KeepingSame DEF Submit, heap, IInv, TypeOK
  <2> QED
    BY <1>15, <2>1 DEF Submit, heap, python, IInv, TypeOK, OwnerRefExact
<1>16. ASSUME NEW l \in Launch, SyncDone(l) PROVE OwnerRefExact'
  <2> SUFFICES ASSUME NEW x \in Obj PROVE pyref'[x] = user'[x] + Cardinality(Keeping(x)')
    BY DEF OwnerRefExact
  <2>1. Keeping(x)' = Keeping(x) /\ Cardinality(Keeping(x)) \in Nat
    BY <1>16, KeepingSame DEF SyncDone, heap, IInv, TypeOK
  <2> QED
    BY <1>16, <2>1 DEF SyncDone, heap, python, IInv, TypeOK, OwnerRefExact
<1>17. ASSUME NEW l \in Launch, NEW i \in Pos, NEW m \in Mem, Acquire(l, i, m) PROVE OwnerRefExact'
  <2> SUFFICES ASSUME NEW x \in Obj PROVE pyref'[x] = user'[x] + Cardinality(Keeping(x)')
    BY DEF OwnerRefExact
  <2>1. Keeping(x)' = Keeping(x) /\ Cardinality(Keeping(x)) \in Nat
    BY <1>17, KeepingSame DEF Acquire, heap, IInv, TypeOK
  <2> QED
    BY <1>17, <2>1 DEF Acquire, heap, python, IInv, TypeOK, OwnerRefExact
<1>18. ASSUME NEW l \in Launch, NEW ok \in BOOLEAN, Schedule(l, ok) PROVE OwnerRefExact'
  <2> SUFFICES ASSUME NEW x \in Obj PROVE pyref'[x] = user'[x] + Cardinality(Keeping(x)')
    BY DEF OwnerRefExact
  <2>1. Keeping(x)' = Keeping(x) /\ Cardinality(Keeping(x)) \in Nat
    BY <1>18, KeepingSame DEF Schedule, heap, IInv, TypeOK
  <2> QED
    BY <1>18, <2>1 DEF Schedule, heap, python, IInv, TypeOK, OwnerRefExact
<1>19. ASSUME CleanupDone PROVE OwnerRefExact'
  <2> SUFFICES ASSUME NEW x \in Obj PROVE pyref'[x] = user'[x] + Cardinality(Keeping(x)')
    BY DEF OwnerRefExact
  <2>1. Keeping(x)' = Keeping(x) /\ Cardinality(Keeping(x)) \in Nat
    BY <1>19, KeepingSame DEF CleanupDone, heap, IInv, TypeOK
  <2> QED
    BY <1>19, <2>1 DEF CleanupDone, heap, python, IInv, TypeOK, OwnerRefExact
<1>20. ASSUME BoxParent PROVE OwnerRefExact'
  <2> SUFFICES ASSUME NEW x \in Obj PROVE pyref'[x] = user'[x] + Cardinality(Keeping(x)')
    BY DEF OwnerRefExact
  <2>1. Keeping(x)' = Keeping(x) /\ Cardinality(Keeping(x)) \in Nat
    BY <1>20, BoxedIsLive, KeepingSame DEF BoxParent, heap, IInv, TypeOK
  <2> QED
    BY <1>20, <2>1, BoxedIsLive DEF BoxParent, heap, python, IInv, TypeOK, OwnerRefExact
<1>21. ASSUME BoxLoad PROVE OwnerRefExact'
  <2> SUFFICES ASSUME NEW x \in Obj PROVE pyref'[x] = user'[x] + Cardinality(Keeping(x)')
    BY DEF OwnerRefExact
  <2>1. Keeping(x)' = Keeping(x) /\ Cardinality(Keeping(x)) \in Nat
    BY <1>21, KeepingSame DEF BoxLoad, heap, IInv, TypeOK
  <2> QED
    BY <1>21, <2>1 DEF BoxLoad, heap, python, IInv, TypeOK, OwnerRefExact
<1>22. ASSUME BoxDone PROVE OwnerRefExact'
  <2>1. retv \in Mem /\ status[retv] = "live" /\ Release(retv) /\ user' = user
    BY <1>22, BoxedIsLive DEF BoxDone, Reachable, IInv, TypeOK
  <2>2. CASE refct[retv] = 1
    BY <2>1, <2>2, OwnerDrop DEF Release
  <2>3. CASE refct[retv] # 1
    BY <2>1, <2>3, KeepingSame DEF Release, IInv, TypeOK, OwnerRefExact
  <2> QED
    BY <2>2, <2>3
<1>23. ASSUME NEW m \in Mem, Cleanup(m) PROVE OwnerRefExact'
  <2>1. m \in Mem /\ status[m] = "live" /\ Release(m) /\ user' = user
    BY <1>23, HeldIsLive DEF Cleanup, Reachable, IInv, TypeOK
  <2>2. CASE refct[m] = 1
    BY <2>1, <2>2, OwnerDrop DEF Release
  <2>3. CASE refct[m] # 1
    BY <2>1, <2>3, KeepingSame DEF Release, IInv, TypeOK, OwnerRefExact
  <2> QED
    BY <2>2, <2>3
<1>24. ASSUME NEW ok \in BOOLEAN, BoxStore(ok) PROVE OwnerRefExact'
  <2> SUFFICES ASSUME NEW x \in Obj PROVE pyref'[x] = user'[x] + Cardinality(Keeping(x)')
    BY DEF OwnerRefExact
  <2>1. Keeping(x)' = Keeping(x) /\ Cardinality(Keeping(x)) \in Nat
    BY <1>24, KeepingSame DEF BoxStore, heap, IInv, TypeOK
  <2> QED
    BY <1>24, <2>1 DEF BoxStore, heap, python, IInv, TypeOK, OwnerRefExact
<1>25. ASSUME NEW l \in Launch, KernelDone(l) PROVE OwnerRefExact'
  <2> SUFFICES ASSUME NEW x \in Obj PROVE pyref'[x] = user'[x] + Cardinality(Keeping(x)')
    BY DEF OwnerRefExact
  <2>1. Keeping(x)' = Keeping(x) /\ Cardinality(Keeping(x)) \in Nat
    BY <1>25, KeepingSame DEF KernelDone, heap, IInv, TypeOK
  <2> QED
    BY <1>25, <2>1 DEF KernelDone, heap, python, IInv, TypeOK, OwnerRefExact
<1>26. ASSUME NEW l \in Launch, NEW i \in Pos, NEW m \in Mem, HostRelease(l, i, m) PROVE OwnerRefExact'
  <2> SUFFICES ASSUME NEW x \in Obj PROVE pyref'[x] = user'[x] + Cardinality(Keeping(x)')
    BY DEF OwnerRefExact
  <2>1. status[m] = "live" /\ status' \in {status, [status EXCEPT ![m] = "closing"]}
    BY <1>26, TokenIsLive DEF HostRelease, First
  <2>2. Keeping(x)' = Keeping(x) /\ Cardinality(Keeping(x)) \in Nat
    BY <1>26, <2>1, KeepingSame DEF HostRelease, IInv, TypeOK
  <2> QED
    BY <1>26, <2>2 DEF HostRelease, python, IInv, OwnerRefExact
<1>27. ASSUME NEW l \in Launch, HostClose(l) PROVE OwnerRefExact'
  <2>1. closing[l] \in Mem /\ status[closing[l]] = "closing"
    BY <1>27 DEF HostClose, IInv, ClosingInv, TypeOK
  <2> QED
    BY <1>27, <2>1, OwnerDrop DEF HostClose
<1> QED
  BY <1>1, <1>2, <1>3, <1>4, <1>5, <1>6, <1>7, <1>8, <1>9, <1>10, <1>11, <1>12, <1>13, <1>14, <1>15, <1>16, <1>17, <1>18, <1>19, <1>20, <1>21, <1>22, <1>23, <1>24, <1>25, <1>26, <1>27 DEF Next, MainEntry, MainBody, MainLaunch, MainExit, Device, HostTask

(***************************************************************************)
(* The theorems                                                            *)
(***************************************************************************)
\* The invariant holds initially.
LEMMA InitInv ==
  ASSUME Init
  PROVE  IInv
<1>1. TypeOK /\ ReturnInv /\ LaunchInv /\ ClosingInv /\ DataInv
  BY MemAssumption DEF Init, TypeOK, ReturnInv, LaunchInv, ClosingInv, DataInv
<1>2. ASSUME NEW m \in Mem PROVE Counted(m)
  <2>1. Tokens(m) = {}
    BY DEF Init, Tokens
  <2>2. Cardinality(Tokens(m)) = 0
    BY <2>1, FS_EmptySet
  <2> QED
    BY <2>2 DEF Init, Counted, Holders, ArgRef
<1>3. ASSUME NEW o \in Obj PROVE pyref[o] = user[o] + Cardinality(Keeping(o))
  <2>1. Keeping(o) = {}
    BY DEF Init, Keeping
  <2> QED
    BY <2>1, FS_EmptySet DEF Init
<1> QED
  BY <1>1, <1>2, <1>3 DEF IInv, CountInv, OwnerRefExact

\* A step that changes no variable preserves it.
LEMMA StutterInv ==
  ASSUME IInv, UNCHANGED vars
  PROVE  IInv'
<1>1. CountInv'
  BY TokensSame DEF vars, heap, frame, launches, python, IInv, CountInv, Counted, Holders, ArgRef
<1>2. ASSUME NEW o \in Obj PROVE Keeping(o)' = Keeping(o)
  BY DEF vars, heap, Keeping
<1>3. OwnerRefExact'
  BY <1>2 DEF vars, heap, python, IInv, OwnerRefExact
<1> QED
  BY <1>1, <1>3 DEF vars, heap, frame, launches, python, IInv, TypeOK, ReturnInv,
     LaunchInv, Reachable, ClosingInv, DataInv

\* IInv is an invariant of the specification.
THEOREM Invariance == Spec => []IInv
<1>1. Init => IInv
  BY InitInv
<1>2. IInv /\ [Next]_vars => IInv'
  BY TypeStep, CountStep, ReturnStep, LaunchStep, ClosingStep, DataStep, OwnerStep,
     StutterInv DEF IInv
<1> QED
  BY <1>1, <1>2, PTL DEF Spec

\* Type correctness, in particular refct never becomes negative.
THEOREM TypeCorrect == Spec => []TypeOK
<1>1. IInv => TypeOK
  BY DEF IInv
<1> QED
  BY <1>1, Invariance, PTL

\* No reference outlives its MemInfo, in spite of the non-atomic increment.
THEOREM NoDangling == Spec => []NoDanglingReference
<1>1. IInv => NoDanglingReference
  BY DEF IInv, CountInv, Counted, NoDanglingReference
<1> QED
  BY <1>1, Invariance, PTL

\* The reference counts of the program's array objects are exact.
THEOREM OwnerRefs == Spec => []OwnerRefExact
<1>1. IInv => OwnerRefExact
  BY DEF IInv
<1> QED
  BY <1>1, Invariance, PTL

\* A live MemInfo has readable data: its owner is kept by the MemInfo itself.
LEMMA LiveIsReadable ==
  ASSUME IInv, NEW m \in Mem, status[m] = "live"
  PROVE  Readable(m)
<1>1. data[m] # "freed"
  BY DEF IInv, DataInv
<1>2. ASSUME owner[m] # NoObj PROVE pyref[owner[m]] > 0
  <2>1. PICK o \in Obj : o = owner[m]
    BY <1>2 DEF IInv, TypeOK
  <2>2. m \in Keeping(o)
    BY <2>1 DEF Keeping
  <2>3. Cardinality(Keeping(o)) \in Nat /\ Cardinality(Keeping(o)) # 0
    BY <2>2, KeepingFinite, FS_EmptySet
  <2>4. pyref[o] = user[o] + Cardinality(Keeping(o)) /\ user[o] \in Nat
    BY DEF IInv, OwnerRefExact, TypeOK
  <2> QED
    BY <2>1, <2>3, <2>4
<1> QED
  BY <1>1, <1>2 DEF Readable

\* A kernel on the device only sees memory that is still there.
THEOREM KernelSafety == Spec => []KernelDataReadable
<1>1. ASSUME IInv, NEW l \in Launch, kern[l] = "running", NEW i \in Pos
      PROVE  Readable(larg[l][i])
  <2>1. CASE lpc[l] \in {"sync", "acquire"}
    <3>1. l \in cur
      BY <1>1, <2>1 DEF IInv, LaunchInv
    <3>2. larg[l][i] \in Reachable
      BY <1>1, <3>1 DEF IInv, LaunchInv
    <3>3. larg[l][i] \in Mem
      BY <3>2 DEF Reachable
    <3> QED
      BY <1>1, <3>2, <3>3, HeldIsLive, LiveIsReadable
  <2>2. CASE lpc[l] \in {"scheduled", "failed"}
    <3>1. held[l] = Pos
      BY <1>1, <2>2 DEF IInv, LaunchInv
    <3>2. i \in held[l]
      BY <3>1
    <3> QED
      BY <1>1, <3>2, TokenIsLive, LiveIsReadable
  <2> QED
    BY <1>1, <2>1, <2>2 DEF IInv, LaunchInv, TypeOK
<1>2. IInv => KernelDataReadable
  BY <1>1 DEF KernelDataReadable
<1> QED
  BY <1>2, Invariance, PTL

\* Boxed arrays never lose their memory.
THEOREM BoxSafety == Spec => []BoxedDataReadable
<1>1. ASSUME IInv, NEW m \in Mem, pybox[m] > 0 PROVE Readable(m)
  <2>1. wrap[m] > 0
    BY <1>1 DEF IInv, CountInv, Counted, TypeOK
  <2> QED
    BY <1>1, <2>1, HeldIsLive, LiveIsReadable
<1>2. IInv => BoxedDataReadable
  BY <1>1 DEF BoxedDataReadable
<1> QED
  BY <1>2, Invariance, PTL
============================================================================
