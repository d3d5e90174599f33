----------------------------- MODULE MCMemInfo -----------------------------
(* Small instances of MemInfo for TLC. *)
EXTENDS MemInfo

CONSTANTS m1, m2, o1, l1

OneMem == {m1}
TwoMems == {m1, m2}
OneObj == {o1}
NoObjs == {}
OneLaunch == {l1}
NoLaunch == {}
OnePos == {1}
TwoPos == {1, 2}
============================================================================
