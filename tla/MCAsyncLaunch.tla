--------------------------- MODULE MCAsyncLaunch ---------------------------
(* Small instances of AsyncLaunch for TLC. *)
EXTENDS AsyncLaunch

CONSTANTS t1, t2, l1, l2

OneThread == {t1}
TwoThreads == {t1, t2}
TwoLaunches == {l1, l2}
OnlyDevice == {"device"}
OnlyHost == {"host"}
Nothing == {}
============================================================================
