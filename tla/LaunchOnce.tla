----------------------------- MODULE LaunchOnce -----------------------------
(***************************************************************************)
(* What the launch of a kernel promises (docs/source/overview.rst, the     *)
(* docstrings of core/kernel_launcher.py and kernel_api/launcher.py): the  *)
(* kernel is refused before any of it runs, or it runs once for every      *)
(* index of its index space, in any order; a synchronous call returns when *)
(* it has run for all.                                                     *)
(***************************************************************************)
EXTENDS Naturals

VARIABLES
  space,   \* the index space asked for
  sync,    \* does the call wait for the kernel?
  status,  \* open, refused or returned
  ran,     \* the indices the kernel has run for
  runs     \* how often it has run

vars == <<space, sync, status, ran, runs>>

Init == status = "open" /\ ran = {} /\ runs = 0

Refuse ==
  /\ status = "open" /\ ran = {}
  /\ status' = "refused"
  /\ UNCHANGED <<space, sync, ran, runs>>

Run(i) ==
  /\ status # "refused"
  /\ i \in space \ ran
  /\ ran' = ran \cup {i}
  /\ runs' = runs + 1
  /\ UNCHANGED <<space, sync, status>>

Return ==
  /\ status = "open"
  /\ sync => ran = space
  /\ status' = "returned"
  /\ UNCHANGED <<space, sync, ran, runs>>

Next == Refuse \/ Return \/ \E i \in space : Run(i)

\* Every launch is refused, or returns and has run for every index.
Fairness == WF_vars(Next)

Spec == Init /\ [][Next]_vars /\ Fairness
=============================================================================
