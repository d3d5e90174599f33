--------------------------- MODULE MCKernelCache ---------------------------
(* Small instances of KernelCache for TLC. *)
EXTENDS KernelCache

CONSTANTS t1, t2, c1, c2, d1, d2, p1

TwoThreads == {t1, t2}
TwoContexts == {c1, c2}
TwoDevices == {d1, d2}
OneProgram == {p1}
============================================================================
