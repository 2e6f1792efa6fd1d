--------------------------- MODULE MC_NodeWebLocal ---------------------------
(* NodeWebLocal with a pid space of two and a cool-down of one tick; the  *)
(* members and the caller goroutines are set by each cfg.                  *)
EXTENDS NodeWebLocal

MCPids == 1..2
MCLimitInterval == 1
=============================================================================
