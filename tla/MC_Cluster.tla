----------------------------- MODULE MC_Cluster -----------------------------
(* Cluster with two members, one Bootstrap/Shutdown goroutine per member, *)
(* a pid space of two and a cool-down of one tick; or, for the web       *)
(* backend with its caller and reviver, a single member.                   *)
EXTENDS Cluster, TLC

CONSTANTS n1, n2, w1, w2

MCNodes == {n1, n2}
MCWorker == (n1 :> w1) @@ (n2 :> w2)
MCOneNode == {n1}
MCOneWorker == n1 :> w1
MCPids == 1..2
MCLimitInterval == 1
=============================================================================
