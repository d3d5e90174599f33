------------------------- MODULE KernelCacheProofs -------------------------
(***************************************************************************)
(* Proofs about KernelCache: its inductive invariant, that it implements   *)
(* KernelStore, and that it keeps exact count of its handles, for every    *)
(* number of threads, contexts, devices and SPIR-V modules.                *)
(***************************************************************************)
EXTENDS KernelCache, FiniteSetTheorems, TLAPS

\* The empty cache, with nobody in a jitted function, satisfies the invariant.
LEMMA InitInv == Init => IInv
  BY DEF Init, IInv, Typed, GilInv

\* No call into the runtime breaks it (kernel_caching.cpp 55-108).
LEMMA StepInv == IInv /\ [Next]_vars => IInv'
<1> SUFFICES ASSUME IInv, [Next]_vars PROVE IInv'
  OBVIOUS
<1> USE NoKeyAssumption, CacheAssumption DEF IInv, Typed, GilInv, Goto, Plus, Minus
<1>1. ASSUME NEW t \in Thread, NEW k \in CacheKey, Enter(t, k) PROVE IInv'
  BY <1>1 DEF Enter
<1>2. ASSUME NEW t \in Thread, NEW k \in CacheKey, Again(t, k) PROVE IInv'
  BY <1>2 DEF Again
<1>3. ASSUME NEW t \in Thread, GetContext(t) PROVE IInv'
  <2>1. key[t].ctx \in Context
    BY <1>3 DEF GetContext, CacheKey
  <2> QED
    BY <1>3, <2>1 DEF GetContext
<1>4. ASSUME NEW t \in Thread, GetDevice(t) PROVE IInv'
  <2>1. key[t].dev \in Device
    BY <1>4 DEF GetDevice, CacheKey
  <2> QED
    BY <1>4, <2>1 DEF GetDevice
<1>5. ASSUME NEW t \in Thread, Insert(t) PROVE IInv'
  BY <1>5 DEF Insert
<1>6. ASSUME NEW t \in Thread, Hit(t) PROVE IInv'
  <2>1. key[t].ctx \in Context /\ key[t].dev \in Device
    BY <1>6 DEF Hit, CacheKey
  <2> QED
    BY <1>6, <2>1 DEF Hit
<1>7. ASSUME NEW t \in Thread, NEW outcome \in {"kernel", "null"}, Build(t, outcome)
      PROVE IInv'
  BY <1>7 DEF Build
<1>8. ASSUME NEW t \in Thread, Copy(t) PROVE IInv'
  BY <1>8 DEF Copy
<1>9. ASSUME NEW t \in Thread, Submit(t) PROVE IInv'
  BY <1>9 DEF Submit
<1>10. ASSUME NEW t \in Thread, Leave(t) PROVE IInv'
  BY <1>10 DEF Leave
<1>11. CASE UNCHANGED vars
  BY <1>11 DEF vars
<1> QED
  BY <1>1, <1>2, <1>3, <1>4, <1>5, <1>6, <1>7, <1>8, <1>9, <1>10, <1>11 DEF Next

\* The invariant holds in every reachable state.
THEOREM Invariance == Spec => []IInv
<1>1. Init => IInv
  BY InitInv
<1>2. IInv /\ [Next]_vars => IInv'
  BY StepInv
<1> QED
  BY <1>1, <1>2, PTL DEF Spec

----------------------------------------------------------------------------
\* The empty cache has resolved nothing and nobody has asked.
LEMMA InitRefines == Init => Store!StoreInit
  BY DEF Init, Store!StoreInit, Resolved, Asked

\* A miss and the build that follows it are one resolution of the abstract
\* store, a copy is its answer, and handle bookkeeping is invisible to it.
LEMMA StepRefines ==
  IInv /\ [Next]_vars => [Store!StoreNext]_(Store!storeVars)
<1> SUFFICES ASSUME IInv, [Next]_vars
             PROVE [Store!StoreNext]_(Store!storeVars)
  OBVIOUS
<1> USE NoKeyAssumption DEF IInv, Typed, GilInv, Goto
<1>1. ASSUME NEW t \in Thread, NEW k \in CacheKey, Enter(t, k) \/ Again(t, k)
      PROVE Store!Ask(t, k)
  <2>1. Asked[t] = NoKey
    BY <1>1 DEF Enter, Again, Asked
  <2>2. /\ key' = [key EXCEPT ![t] = k]
        /\ pc' = [pc EXCEPT ![t] = "context"]
        /\ pc[t] \in {"python", "submitted"}
    BY <1>1 DEF Enter, Again
  <2>4. Asked' = [Asked EXCEPT ![t] = k]
    <3> HIDE DEF GilInv
    <3> QED
      BY <2>2 DEF Asked
  <2>3. UNCHANGED <<Resolved, kernel>>
    BY <1>1 DEF Enter, Again, Resolved
  <2> QED
    BY <2>1, <2>3, <2>4 DEF Store!Ask
<1>2. ASSUME NEW t \in Thread,
             GetContext(t) \/ GetDevice(t) \/ Hit(t) \/ Insert(t) \/ Leave(t)
      PROVE UNCHANGED Store!storeVars
  <2>1. UNCHANGED <<Asked, kernel>>
    BY <1>2 DEF GetContext, GetDevice, Hit, Insert, Leave, Asked
  <2>2. UNCHANGED Resolved
    BY <1>2 DEF GetContext, GetDevice, Hit, Insert, Leave, Resolved
  <2> QED
    BY <2>1, <2>2 DEF Store!storeVars
<1>3. ASSUME NEW t \in Thread, NEW outcome \in {"kernel", "null"}, Build(t, outcome)
      PROVE key[t] \in CacheKey /\ Store!Resolve(key[t], outcome)
  <2>1. key[t] \in CacheKey /\ Asked[t] = key[t]
    BY <1>3 DEF Build, Asked
  <2>2. Resolved[key[t]] = "none"
    BY <1>3, <2>1 DEF Build, Resolved
  <2>3. Resolved' = [Resolved EXCEPT ![key[t]] = outcome]
    BY <1>3, <2>1 DEF Build, Resolved
  <2>4. UNCHANGED <<Asked, kernel>>
    BY <1>3 DEF Build, Asked
  <2> QED
    BY <2>1, <2>2, <2>3, <2>4 DEF Store!Resolve
<1>4. ASSUME NEW t \in Thread, Copy(t)
      PROVE key[t] \in CacheKey /\ Store!Answer(t, key[t])
  <2>1. key[t] \in CacheKey /\ Asked[t] = key[t]
    BY <1>4 DEF Copy, Asked
  <2>2. Resolved[key[t]] = cache[key[t]] /\ cache[key[t]] \in {"null", "kernel"}
    <3>1. cache[key[t]] \in {"null", "kernel"}
      BY <1>4 DEF Copy
    <3> QED
      BY <2>1, <3>1 DEF Resolved
  <2>3. kernel' = [kernel EXCEPT ![t] = Resolved[key[t]]]
    BY <1>4, <2>2 DEF Copy
  <2>4. UNCHANGED <<Asked, Resolved>>
    BY <1>4 DEF Copy, Asked, Resolved
  <2> QED
    BY <2>1, <2>2, <2>3, <2>4 DEF Store!Answer
<1>5. ASSUME NEW t \in Thread, Submit(t) PROVE Store!GiveBack(t)
  <2>1. key[t] \in CacheKey /\ kernel[t] = cache[key[t]] /\ kernel[t] # "none"
    BY <1>5 DEF Submit
  <2>2. Asked' = [Asked EXCEPT ![t] = NoKey]
    BY <1>5 DEF Submit, Asked
  <2>3. kernel' = [kernel EXCEPT ![t] = "none"] /\ UNCHANGED Resolved
    BY <1>5 DEF Submit, Resolved
  <2> QED
    BY <2>1, <2>2, <2>3 DEF Store!GiveBack
<1>6. CASE UNCHANGED vars
  BY <1>6 DEF vars, Store!storeVars, Asked, Resolved
<1> QED
  BY <1>1, <1>2, <1>3, <1>4, <1>5, <1>6 DEF Next, Store!StoreNext

\* Every behaviour of the cache is one of the abstract store: a key is built
\* once and each launch submits that build's outcome.
THEOREM Refinement == Spec => BuildsOnce
<1>1. Init => Store!StoreInit
  BY InitRefines
<1>2. IInv /\ [Next]_vars => [Store!StoreNext]_(Store!storeVars)
  BY StepRefines
<1> QED
  BY <1>1, <1>2, Invariance, PTL DEF Spec, BuildsOnce, Store!StoreSpec

----------------------------------------------------------------------------
(* Handles *)

\* The keys of the cache, and the launches under way, that own a handle on a
\* context, on a device, or on the kernel of a key.
CtxKeys(c) == {k \in Cached : k.ctx = c}
CtxHolders(c) == {t \in At({"device", "lookup"}) : key[t].ctx = c}
DevKeys(d) == {k \in Cached : k.dev = d}
DevHolders(d) == {t \in At({"lookup"}) : key[t].dev = d}
Copies(k) == {t \in Thread : key[t] = k /\ kernel[t] = "kernel"}

\* The parts of HandlesExact: handles on contexts, on devices, on kernels.
CtxExact ==
  \A c \in Context : ctxRefs[c] = Cardinality(CtxKeys(c)) + Cardinality(CtxHolders(c))
DevExact ==
  \A d \in Device : devRefs[d] = Cardinality(DevKeys(d)) + Cardinality(DevHolders(d))
KernelExact ==
  \A k \in CacheKey :
    kRefs[k] = (IF cache[k] = "kernel" THEN 1 ELSE 0) + Cardinality(Copies(k))

\* HandlesExact is the conjunction of its parts.
LEMMA HandlesParts == HandlesExact <=> CtxExact /\ DevExact /\ KernelExact
  BY DEF HandlesExact, CtxExact, DevExact, KernelExact, CtxKeys, CtxHolders,
         DevKeys, DevHolders, Copies

\* There are finitely many cache keys: a context, a device and a module each.
LEMMA KeysFinite == IsFiniteSet(CacheKey)
<1> DEFINE S == (Context \X Device) \X Program
           f == [p \in S |-> [ctx |-> p[1][1], dev |-> p[1][2], il |-> p[2]]]
<1>1. IsFiniteSet(Context \X Device)
  BY CacheAssumption, FS_Product
<1>2. IsFiniteSet(S)
  BY <1>1, CacheAssumption, FS_Product
<1>3. f \in [S -> CacheKey]
  BY DEF CacheKey
<1>4. \A k \in CacheKey : \E p \in S : f[p] = k
  <2> TAKE k \in CacheKey
  <2>1. <<<<k.ctx, k.dev>>, k.il>> \in S
    BY DEF CacheKey
  <2>2. f[<<<<k.ctx, k.dev>>, k.il>>] = k
    BY <2>1 DEF CacheKey
  <2> QED
    BY <2>1, <2>2
<1>5. f \in Surjection(S, CacheKey)
  BY <1>3, <1>4 DEF Surjection
<1> QED
  BY <1>2, <1>5, FS_Surjection

\* Every set of owners is finite, now and after a step.
LEMMA OwnersFinite ==
  /\ \A c : /\ IsFiniteSet(CtxKeys(c)) /\ IsFiniteSet(CtxKeys(c)')
           /\ IsFiniteSet(CtxHolders(c)) /\ IsFiniteSet(CtxHolders(c)')
  /\ \A d : /\ IsFiniteSet(DevKeys(d)) /\ IsFiniteSet(DevKeys(d)')
           /\ IsFiniteSet(DevHolders(d)) /\ IsFiniteSet(DevHolders(d)')
  /\ \A k : IsFiniteSet(Copies(k)) /\ IsFiniteSet(Copies(k)')
<1>1. \A T : T \subseteq CacheKey => IsFiniteSet(T)
  BY KeysFinite, FS_Subset
<1>2. \A T : T \subseteq Thread => IsFiniteSet(T)
  BY CacheAssumption, FS_Subset
<1>3. \A c : /\ CtxKeys(c) \subseteq CacheKey /\ CtxKeys(c)' \subseteq CacheKey
            /\ CtxHolders(c) \subseteq Thread /\ CtxHolders(c)' \subseteq Thread
  BY DEF CtxKeys, CtxHolders, Cached, At
<1>4. \A d : /\ DevKeys(d) \subseteq CacheKey /\ DevKeys(d)' \subseteq CacheKey
            /\ DevHolders(d) \subseteq Thread /\ DevHolders(d)' \subseteq Thread
  BY DEF DevKeys, DevHolders, Cached, At
<1>5. \A k : Copies(k) \subseteq Thread /\ Copies(k)' \subseteq Thread
  BY DEF Copies
<1> QED
  BY <1>1, <1>2, <1>3, <1>4, <1>5

\* One more owner is one more handle.
LEMMA OneMore ==
  ASSUME NEW S, IsFiniteSet(S), NEW x, x \notin S, NEW T, T = S \cup {x}
  PROVE  Cardinality(S) \in Nat /\ Cardinality(T) = Cardinality(S) + 1
  BY FS_CardinalityType, FS_AddElement

\* One owner less is one handle less.
LEMMA OneLess ==
  ASSUME NEW S, IsFiniteSet(S), NEW x \in S, NEW T, T = S \ {x}
  PROVE  Cardinality(S) \in Nat /\ Cardinality(T) = Cardinality(S) - 1
  BY FS_CardinalityType, FS_RemoveElement

\* insert adds the key of the launch to the cache, and nothing else.
LEMMA Inserted ==
  ASSUME IInv, NEW t \in Thread, Insert(t)
  PROVE  key[t] \in CacheKey /\ key[t] \notin Cached /\ Cached' = Cached \cup {key[t]}
<1> USE DEF IInv, Typed
<1>1. key[t] \in CacheKey /\ cache[key[t]] = "absent"
  BY DEF Insert
<1>2. cache' = [cache EXCEPT ![key[t]] = "empty"]
  BY DEF Insert
<1>3. \A k \in CacheKey : cache'[k] # "absent" <=> cache[k] # "absent" \/ k = key[t]
  BY <1>1, <1>2
<1> QED
  BY <1>1, <1>3 DEF Cached

\* Without a key or a launch there is no handle.
LEMMA InitHandles == Init => HandlesExact
<1> SUFFICES ASSUME Init PROVE HandlesExact
  OBVIOUS
<1>1. \A c : CtxKeys(c) = {} /\ CtxHolders(c) = {}
  BY DEF Init, CtxKeys, CtxHolders, Cached, At
<1>2. \A d : DevKeys(d) = {} /\ DevHolders(d) = {}
  BY DEF Init, DevKeys, DevHolders, Cached, At
<1>3. \A k : Copies(k) = {}
  BY DEF Init, Copies
<1>4. Cardinality({}) = 0
  BY FS_EmptySet
<1> QED
  BY <1>1, <1>2, <1>3, <1>4, HandlesParts DEF Init, CtxExact, DevExact, KernelExact

\* Handles on contexts: a launch makes one, and its key keeps it or it is deleted.
LEMMA StepCtx == IInv /\ CtxExact /\ [Next]_vars => CtxExact'
<1> SUFFICES ASSUME IInv, CtxExact, [Next]_vars, NEW c \in Context
             PROVE (ctxRefs[c] = Cardinality(CtxKeys(c)) + Cardinality(CtxHolders(c)))'
  BY DEF CtxExact
<1> USE NoKeyAssumption DEF IInv, Typed, GilInv, Goto, Plus, Minus, Cached, At, CacheKey
<1>0. /\ ctxRefs[c] = Cardinality(CtxKeys(c)) + Cardinality(CtxHolders(c))
      /\ Cardinality(CtxKeys(c)) \in Nat /\ Cardinality(CtxHolders(c)) \in Nat
      /\ IsFiniteSet(CtxKeys(c)) /\ IsFiniteSet(CtxHolders(c))
  BY OwnersFinite, FS_CardinalityType DEF CtxExact
<1>1. ASSUME NEW t \in Thread, GetContext(t)
      PROVE (ctxRefs[c] = Cardinality(CtxKeys(c)) + Cardinality(CtxHolders(c)))'
  <2>1. CtxKeys(c)' = CtxKeys(c)
    BY <1>1 DEF GetContext, CtxKeys
  <2>2. CASE key[t].ctx = c
    <3>1. t \notin CtxHolders(c) /\ CtxHolders(c)' = CtxHolders(c) \cup {t}
      BY <1>1, <2>2 DEF GetContext, CtxHolders
    <3>2. Cardinality(CtxHolders(c)') = Cardinality(CtxHolders(c)) + 1
      BY <1>0, <3>1, OneMore
    <3>3. ctxRefs'[c] = ctxRefs[c] + 1
      BY <1>1, <2>2 DEF GetContext
    <3> QED
      BY <1>0, <2>1, <3>2, <3>3
  <2>3. CASE key[t].ctx # c
    <3>1. CtxHolders(c)' = CtxHolders(c)
      BY <1>1, <2>3 DEF GetContext, CtxHolders
    <3>2. ctxRefs'[c] = ctxRefs[c]
      BY <1>1, <2>3 DEF GetContext
    <3> QED
      BY <1>0, <2>1, <3>1, <3>2
  <2> QED
    BY <2>2, <2>3
<1>2. ASSUME NEW t \in Thread, Insert(t)
      PROVE (ctxRefs[c] = Cardinality(CtxKeys(c)) + Cardinality(CtxHolders(c)))'
  <2>1. ctxRefs' = ctxRefs /\ key[t] \in CacheKey
    BY <1>2 DEF Insert
  <2>2. CASE key[t].ctx = c
    <3>1. t \in CtxHolders(c) /\ CtxHolders(c)' = CtxHolders(c) \ {t}
      BY <1>2, <2>2 DEF Insert, CtxHolders
    <3>2. Cardinality(CtxHolders(c)') = Cardinality(CtxHolders(c)) - 1
      BY <1>0, <3>1, OneLess
    <3>3. key[t] \notin CtxKeys(c) /\ CtxKeys(c)' = CtxKeys(c) \cup {key[t]}
      BY <1>2, <2>2, Inserted DEF CtxKeys
    <3>4. Cardinality(CtxKeys(c)') = Cardinality(CtxKeys(c)) + 1
      BY <1>0, <3>3, OneMore
    <3> QED
      BY <1>0, <2>1, <3>2, <3>4
  <2>3. CASE key[t].ctx # c
    <3>1. CtxHolders(c)' = CtxHolders(c)
      BY <1>2, <2>3 DEF Insert, CtxHolders
    <3>2. CtxKeys(c)' = CtxKeys(c)
      BY <1>2, <2>1, <2>3 DEF Insert, CtxKeys
    <3> QED
      BY <1>0, <2>1, <3>1, <3>2
  <2> QED
    BY <2>2, <2>3
<1>3. ASSUME NEW t \in Thread, Hit(t)
      PROVE (ctxRefs[c] = Cardinality(CtxKeys(c)) + Cardinality(CtxHolders(c)))'
  <2>1. CtxKeys(c)' = CtxKeys(c)
    BY <1>3 DEF Hit, CtxKeys
  <2>2. CASE key[t].ctx = c
    <3>1. t \in CtxHolders(c) /\ CtxHolders(c)' = CtxHolders(c) \ {t}
      BY <1>3, <2>2 DEF Hit, CtxHolders
    <3>2. Cardinality(CtxHolders(c)') = Cardinality(CtxHolders(c)) - 1
      BY <1>0, <3>1, OneLess
    <3>3. ctxRefs'[c] = ctxRefs[c] - 1
      BY <1>3, <2>2 DEF Hit
    <3> QED
      BY <1>0, <2>1, <3>2, <3>3
  <2>3. CASE key[t].ctx # c
    <3>1. CtxHolders(c)' = CtxHolders(c)
      BY <1>3, <2>3 DEF Hit, CtxHolders
    <3>2. ctxRefs'[c] = ctxRefs[c]
      BY <1>3, <2>3 DEF Hit
    <3> QED
      BY <1>0, <2>1, <3>1, <3>2
  <2> QED
    BY <2>2, <2>3
<1>4. ASSUME CtxHolders(c)' = CtxHolders(c), CtxKeys(c)' = CtxKeys(c), ctxRefs' = ctxRefs
      PROVE (ctxRefs[c] = Cardinality(CtxKeys(c)) + Cardinality(CtxHolders(c)))'
  BY <1>0, <1>4
<1>5. ASSUME NEW t \in Thread, GetDevice(t) \/ Copy(t) \/ Submit(t) \/ Leave(t)
      PROVE (ctxRefs[c] = Cardinality(CtxKeys(c)) + Cardinality(CtxHolders(c)))'
  <2>1. CtxHolders(c)' = CtxHolders(c)
    BY <1>5 DEF GetDevice, Copy, Submit, Leave, CtxHolders
  <2>2. CtxKeys(c)' = CtxKeys(c) /\ ctxRefs' = ctxRefs
    BY <1>5 DEF GetDevice, Copy, Submit, Leave, CtxKeys
  <2> QED
    BY <1>4, <2>1, <2>2
<1>6. ASSUME NEW t \in Thread, NEW outcome \in {"kernel", "null"}, Build(t, outcome)
      PROVE (ctxRefs[c] = Cardinality(CtxKeys(c)) + Cardinality(CtxHolders(c)))'
  <2>1. CtxHolders(c)' = CtxHolders(c) /\ ctxRefs' = ctxRefs
    BY <1>6 DEF Build, CtxHolders
  <2>2. CtxKeys(c)' = CtxKeys(c)
    BY <1>6 DEF Build, CtxKeys
  <2> QED
    BY <1>4, <2>1, <2>2
<1>7. ASSUME NEW t \in Thread, NEW k \in CacheKey, Enter(t, k) \/ Again(t, k)
      PROVE (ctxRefs[c] = Cardinality(CtxKeys(c)) + Cardinality(CtxHolders(c)))'
  <2>1. CtxHolders(c)' = CtxHolders(c)
    BY <1>7 DEF Enter, Again, CtxHolders
  <2>2. CtxKeys(c)' = CtxKeys(c) /\ ctxRefs' = ctxRefs
    BY <1>7 DEF Enter, Again, CtxKeys
  <2> QED
    BY <1>4, <2>1, <2>2
<1>8. CASE UNCHANGED vars
  BY <1>4, <1>8 DEF vars, CtxHolders, CtxKeys
<1> QED
  BY <1>1, <1>2, <1>3, <1>5, <1>6, <1>7, <1>8 DEF Next
\* Handles on devices likewise: the second is made when the context's exists.
LEMMA StepDev == IInv /\ DevExact /\ [Next]_vars => DevExact'
<1> SUFFICES ASSUME IInv, DevExact, [Next]_vars, NEW d \in Device
             PROVE (devRefs[d] = Cardinality(DevKeys(d)) + Cardinality(DevHolders(d)))'
  BY DEF DevExact
<1> USE NoKeyAssumption DEF IInv, Typed, GilInv, Goto, Plus, Minus, Cached, At, CacheKey
<1>0. /\ devRefs[d] = Cardinality(DevKeys(d)) + Cardinality(DevHolders(d))
      /\ Cardinality(DevKeys(d)) \in Nat /\ Cardinality(DevHolders(d)) \in Nat
      /\ IsFiniteSet(DevKeys(d)) /\ IsFiniteSet(DevHolders(d))
  BY OwnersFinite, FS_CardinalityType DEF DevExact
<1>1. ASSUME NEW t \in Thread, GetDevice(t)
      PROVE (devRefs[d] = Cardinality(DevKeys(d)) + Cardinality(DevHolders(d)))'
  <2>1. DevKeys(d)' = DevKeys(d)
    BY <1>1 DEF GetDevice, DevKeys
  <2>2. CASE key[t].dev = d
    <3>1. t \notin DevHolders(d) /\ DevHolders(d)' = DevHolders(d) \cup {t}
      BY <1>1, <2>2 DEF GetDevice, DevHolders
    <3>2. Cardinality(DevHolders(d)') = Cardinality(DevHolders(d)) + 1
      BY <1>0, <3>1, OneMore
    <3>3. devRefs'[d] = devRefs[d] + 1
      BY <1>1, <2>2 DEF GetDevice
    <3> QED
      BY <1>0, <2>1, <3>2, <3>3
  <2>3. CASE key[t].dev # d
    <3>1. DevHolders(d)' = DevHolders(d)
      BY <1>1, <2>3 DEF GetDevice, DevHolders
    <3>2. devRefs'[d] = devRefs[d]
      BY <1>1, <2>3 DEF GetDevice
    <3> QED
      BY <1>0, <2>1, <3>1, <3>2
  <2> QED
    BY <2>2, <2>3
<1>2. ASSUME NEW t \in Thread, Insert(t)
      PROVE (devRefs[d] = Cardinality(DevKeys(d)) + Cardinality(DevHolders(d)))'
  <2>1. devRefs' = devRefs /\ key[t] \in CacheKey
    BY <1>2 DEF Insert
  <2>2. CASE key[t].dev = d
    <3>1. t \in DevHolders(d) /\ DevHolders(d)' = DevHolders(d) \ {t}
      BY <1>2, <2>2 DEF Insert, DevHolders
    <3>2. Cardinality(DevHolders(d)') = Cardinality(DevHolders(d)) - 1
      BY <1>0, <3>1, OneLess
    <3>3. key[t] \notin DevKeys(d) /\ DevKeys(d)' = DevKeys(d) \cup {key[t]}
      BY <1>2, <2>2, Inserted DEF DevKeys
    <3>4. Cardinality(DevKeys(d)') = Cardinality(DevKeys(d)) + 1
      BY <1>0, <3>3, OneMore
    <3> QED
      BY <1>0, <2>1, <3>2, <3>4
  <2>3. CASE key[t].dev # d
    <3>1. DevHolders(d)' = DevHolders(d)
      BY <1>2, <2>3 DEF Insert, DevHolders
    <3>2. DevKeys(d)' = DevKeys(d)
      BY <1>2, <2>1, <2>3 DEF Insert, DevKeys
    <3> QED
      BY <1>0, <2>1, <3>1, <3>2
  <2> QED
    BY <2>2, <2>3
<1>3. ASSUME NEW t \in Thread, Hit(t)
      PROVE (devRefs[d] = Cardinality(DevKeys(d)) + Cardinality(DevHolders(d)))'
  <2>1. DevKeys(d)' = DevKeys(d)
    BY <1>3 DEF Hit, DevKeys
  <2>2. CASE key[t].dev = d
    <3>1. t \in DevHolders(d) /\ DevHolders(d)' = DevHolders(d) \ {t}
      BY <1>3, <2>2 DEF Hit, DevHolders
    <3>2. Cardinality(DevHolders(d)') = Cardinality(DevHolders(d)) - 1
      BY <1>0, <3>1, OneLess
    <3>3. devRefs'[d] = devRefs[d] - 1
      BY <1>3, <2>2 DEF Hit
    <3> QED
      BY <1>0, <2>1, <3>2, <3>3
  <2>3. CASE key[t].dev # d
    <3>1. DevHolders(d)' = DevHolders(d)
      BY <1>3, <2>3 DEF Hit, DevHolders
    <3>2. devRefs'[d] = devRefs[d]
      BY <1>3, <2>3 DEF Hit
    <3> QED
      BY <1>0, <2>1, <3>1, <3>2
  <2> QED
    BY <2>2, <2>3
<1>4. ASSUME DevHolders(d)' = DevHolders(d), DevKeys(d)' = DevKeys(d), devRefs' = devRefs
      PROVE (devRefs[d] = Cardinality(DevKeys(d)) + Cardinality(DevHolders(d)))'
  BY <1>0, <1>4
<1>5. ASSUME NEW t \in Thread, GetContext(t) \/ Copy(t) \/ Submit(t) \/ Leave(t)
      PROVE (devRefs[d] = Cardinality(DevKeys(d)) + Cardinality(DevHolders(d)))'
  <2>1. DevHolders(d)' = DevHolders(d)
    BY <1>5 DEF GetContext, Copy, Submit, Leave, DevHolders
  <2>2. DevKeys(d)' = DevKeys(d) /\ devRefs' = devRefs
    BY <1>5 DEF GetContext, Copy, Submit, Leave, DevKeys
  <2> QED
    BY <1>4, <2>1, <2>2
<1>6. ASSUME NEW t \in Thread, NEW outcome \in {"kernel", "null"}, Build(t, outcome)
      PROVE (devRefs[d] = Cardinality(DevKeys(d)) + Cardinality(DevHolders(d)))'
  <2>1. DevHolders(d)' = DevHolders(d) /\ devRefs' = devRefs
    BY <1>6 DEF Build, DevHolders
  <2>2. DevKeys(d)' = DevKeys(d)
    BY <1>6 DEF Build, DevKeys
  <2> QED
    BY <1>4, <2>1, <2>2
<1>7. ASSUME NEW t \in Thread, NEW k \in CacheKey, Enter(t, k) \/ Again(t, k)
      PROVE (devRefs[d] = Cardinality(DevKeys(d)) + Cardinality(DevHolders(d)))'
  <2>1. DevHolders(d)' = DevHolders(d)
    BY <1>7 DEF Enter, Again, DevHolders
  <2>2. DevKeys(d)' = DevKeys(d) /\ devRefs' = devRefs
    BY <1>7 DEF Enter, Again, DevKeys
  <2> QED
    BY <1>4, <2>1, <2>2
<1>8. CASE UNCHANGED vars
  BY <1>4, <1>8 DEF vars, DevHolders, DevKeys
<1> QED
  BY <1>1, <1>2, <1>3, <1>5, <1>6, <1>7, <1>8 DEF Next

\* Handles on kernels: the cache keeps what was built, and a launch deletes the
\* copy it made.
LEMMA StepKernel == IInv /\ KernelExact /\ [Next]_vars => KernelExact'
<1> DEFINE Exact(k) == kRefs[k] = (IF cache[k] = "kernel" THEN 1 ELSE 0) + Cardinality(Copies(k))
<1> SUFFICES ASSUME IInv, KernelExact, [Next]_vars, NEW k \in CacheKey PROVE Exact(k)'
  BY DEF KernelExact
<1> USE NoKeyAssumption DEF IInv, Typed, GilInv, Goto, Plus, Minus
<1>0. /\ Exact(k)
      /\ Cardinality(Copies(k)) \in Nat /\ IsFiniteSet(Copies(k))
  BY OwnersFinite, FS_CardinalityType DEF KernelExact
<1>1. ASSUME NEW t \in Thread, NEW outcome \in {"kernel", "null"}, Build(t, outcome)
      PROVE Exact(k)'
  <2>1. Copies(k)' = Copies(k)
    BY <1>1 DEF Build, Copies
  <2>2. key[t] \in CacheKey /\ cache[key[t]] = "empty" /\ kRefs[k] \in Int
    BY <1>1 DEF Build
  <2>3. CASE k = key[t]
    BY <1>0, <1>1, <2>1, <2>2, <2>3 DEF Build
  <2>4. CASE k # key[t]
    BY <1>0, <1>1, <2>1, <2>2, <2>4 DEF Build
  <2> QED
    BY <2>3, <2>4
<1>2. ASSUME NEW t \in Thread, Copy(t) PROVE Exact(k)'
  <2>1. /\ key[t] \in CacheKey /\ kernel[t] = "none" /\ cache' = cache /\ key' = key
        /\ kRefs[k] \in Int
    BY <1>2 DEF Copy
  <2>2. CASE k = key[t] /\ cache[k] = "kernel"
    <3>1. t \notin Copies(k) /\ Copies(k)' = Copies(k) \cup {t}
      BY <1>2, <2>1, <2>2 DEF Copy, Copies
    <3>2. Cardinality(Copies(k)') = Cardinality(Copies(k)) + 1
      BY <1>0, <3>1, OneMore
    <3>3. kRefs'[k] = kRefs[k] + 1
      BY <1>2, <2>2 DEF Copy
    <3> QED
      BY <1>0, <2>1, <3>2, <3>3
  <2>3. CASE ~(k = key[t] /\ cache[k] = "kernel")
    <3>1. Copies(k)' = Copies(k)
      BY <1>2, <2>1, <2>3 DEF Copy, Copies
    <3>2. kRefs'[k] = kRefs[k]
      BY <1>2, <2>1, <2>3 DEF Copy
    <3> QED
      BY <1>0, <2>1, <3>1, <3>2
  <2> QED
    BY <2>2, <2>3
<1>3. ASSUME NEW t \in Thread, Submit(t) PROVE Exact(k)'
  <2>1. key[t] \in CacheKey /\ cache' = cache /\ key' = key /\ kRefs[k] \in Int
    BY <1>3 DEF Submit
  <2>2. CASE k = key[t] /\ kernel[t] = "kernel"
    <3>1. t \in Copies(k) /\ Copies(k)' = Copies(k) \ {t}
      BY <1>3, <2>1, <2>2 DEF Submit, Copies
    <3>2. Cardinality(Copies(k)') = Cardinality(Copies(k)) - 1
      BY <1>0, <3>1, OneLess
    <3>3. kRefs'[k] = kRefs[k] - 1
      BY <1>3, <2>2 DEF Submit
    <3> QED
      BY <1>0, <2>1, <3>2, <3>3
  <2>3. CASE ~(k = key[t] /\ kernel[t] = "kernel")
    <3>1. Copies(k)' = Copies(k)
      BY <1>3, <2>1, <2>3 DEF Submit, Copies
    <3>2. kRefs'[k] = kRefs[k]
      BY <1>3, <2>1, <2>3 DEF Submit
    <3> QED
      BY <1>0, <2>1, <3>1, <3>2
  <2> QED
    BY <2>2, <2>3
<1>4. ASSUME Copies(k)' = Copies(k), kRefs' = kRefs, cache'[k] = "kernel" <=> cache[k] = "kernel"
      PROVE Exact(k)'
  BY <1>0, <1>4
<1>5. ASSUME NEW t \in Thread, GetContext(t) \/ GetDevice(t) \/ Hit(t) \/ Insert(t)
      PROVE Exact(k)'
  <2>1. Copies(k)' = Copies(k) /\ kRefs' = kRefs
    BY <1>5 DEF GetContext, GetDevice, Hit, Insert, Copies
  <2>2. cache'[k] = "kernel" <=> cache[k] = "kernel"
    BY <1>5 DEF GetContext, GetDevice, Hit, Insert
  <2> QED
    BY <1>4, <2>1, <2>2
<1>6. ASSUME NEW t \in Thread,
             Leave(t) \/ \E j \in CacheKey : Enter(t, j) \/ Again(t, j)
      PROVE Exact(k)'
  <2>1. kernel[t] = "none" /\ \E j : key' = [key EXCEPT ![t] = j]
    BY <1>6 DEF Leave, Enter, Again
  <2>2. kernel' = kernel /\ kRefs' = kRefs /\ cache' = cache
    BY <1>6 DEF Leave, Enter, Again
  <2>3. Copies(k)' = Copies(k)
    BY <2>1, <2>2 DEF Copies
  <2> QED
    BY <1>4, <2>2, <2>3
<1>7. CASE UNCHANGED vars
  BY <1>4, <1>7 DEF vars, Copies
<1> QED
  BY <1>1, <1>2, <1>3, <1>5, <1>6, <1>7 DEF Next

\* No handle on a context, a device or a kernel is leaked or deleted twice,
\* however many threads launch whatever kernels (kernel_caching.cpp 55-108, and
\* the cleanups of core/utils/call_kernel_builder.py).
THEOREM HandlesCorrect == Spec => []HandlesExact
<1>1. Init => HandlesExact
  BY InitHandles
<1>2. IInv /\ HandlesExact /\ [Next]_vars => HandlesExact'
  <2>1. HandlesExact' <=> (CtxExact /\ DevExact /\ KernelExact)'
    BY DEF HandlesExact, CtxExact, DevExact, KernelExact, CtxKeys, CtxHolders,
           DevKeys, DevHolders, Copies
  <2> QED
    BY <2>1, HandlesParts, StepCtx, StepDev, StepKernel
<1> QED
  BY <1>1, <1>2, Invariance, PTL DEF Spec

\* What each step of a launch finds in its variables, and that no launch deletes
\* a handle that is not there (kernel_caching.cpp 55-108): a launch deletes its
\* own, and the counts of the map's and the launches' handles are exact.
THEOREM TypeCorrect == Spec => []TypeOK
<1>1. IInv /\ HandlesExact => TypeOK
  <2> SUFFICES ASSUME IInv, CtxExact, DevExact, KernelExact PROVE TypeOK
    BY HandlesParts
  <2>1. ASSUME NEW c \in Context PROVE ctxRefs[c] >= 0
    <3>1. Cardinality(CtxKeys(c)) \in Nat /\ Cardinality(CtxHolders(c)) \in Nat
      BY OwnersFinite, FS_CardinalityType
    <3> QED
      BY <3>1 DEF CtxExact
  <2>2. ASSUME NEW d \in Device PROVE devRefs[d] >= 0
    <3>1. Cardinality(DevKeys(d)) \in Nat /\ Cardinality(DevHolders(d)) \in Nat
      BY OwnersFinite, FS_CardinalityType
    <3> QED
      BY <3>1 DEF DevExact
  <2>3. ASSUME NEW k \in CacheKey PROVE kRefs[k] >= 0
    <3>1. Cardinality(Copies(k)) \in Nat
      BY OwnersFinite, FS_CardinalityType
    <3> QED
      BY <3>1 DEF KernelExact
  <2> QED
    BY <2>1, <2>2, <2>3 DEF TypeOK, IInv
<1> QED
  BY <1>1, Invariance, HandlesCorrect, PTL
============================================================================
