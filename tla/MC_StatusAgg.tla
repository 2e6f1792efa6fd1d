---------------------------- MODULE MC_StatusAgg ----------------------------
(* Status over three members, so that probes can succeed, fail and time  *)
(* out side by side.                                                      *)
EXTENDS StatusAgg

CONSTANTS n1, n2, n3

MCNodes == {n1, n2, n3}
=============================================================================
