------------------------- MODULE MCParforReduction -------------------------
(* Small instances of ParforReduction for TLC. *)
EXTENDS ParforReduction
============================================================================
