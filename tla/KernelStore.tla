---------------------------- MODULE KernelStore ----------------------------
(***************************************************************************)
(* What the kernel cache promises to the code that launches kernels: a     *)
(* kernel is resolved at most once for each key (context, device, hash of  *)
(* the SPIR-V), and whoever asks for a key gets that resolution, whether   *)
(* the build succeeded or not (kernel_caching.h: "Compiles only first      *)
(* time, all others will use cache for the same input").                   *)
(***************************************************************************)
CONSTANTS Key, Thread, NoKey

VARIABLES
  result,  \* each key: none, kernel (it was built), null (the build failed)
  asked,   \* the key a thread has asked for and is still using
  answer   \* what it was given

storeVars == <<result, asked, answer>>

StoreInit ==
  /\ result = [k \in Key |-> "none"]
  /\ asked = [t \in Thread |-> NoKey]
  /\ answer = [t \in Thread |-> "none"]

Ask(t, k) ==
  /\ asked[t] = NoKey
  /\ asked' = [asked EXCEPT ![t] = k]
  /\ UNCHANGED <<result, answer>>

Resolve(k, r) ==
  /\ result[k] = "none"
  /\ \E t \in Thread : asked[t] = k
  /\ result' = [result EXCEPT ![k] = r]
  /\ UNCHANGED <<asked, answer>>

Answer(t, k) ==
  /\ asked[t] = k
  /\ result[k] # "none"
  /\ answer' = [answer EXCEPT ![t] = result[k]]
  /\ UNCHANGED <<result, asked>>

GiveBack(t) ==
  /\ answer[t] # "none"
  /\ asked' = [asked EXCEPT ![t] = NoKey]
  /\ answer' = [answer EXCEPT ![t] = "none"]
  /\ UNCHANGED result

StoreNext ==
  \/ \E t \in Thread, k \in Key : Ask(t, k) \/ Answer(t, k)
  \/ \E k \in Key, r \in {"kernel", "null"} : Resolve(k, r)
  \/ \E t \in Thread : GiveBack(t)

StoreSpec == StoreInit /\ [][StoreNext]_storeVars
============================================================================
