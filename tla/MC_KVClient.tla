------------------------------ MODULE MC_KVClient ------------------------------
(* Two members, so that an unnamed call can pick the inactive one while    *)
(* the other is active, and two watchers, so that one can time out while  *)
(* the other takes the event.                                              *)
EXTENDS KVClient

CONSTANTS n1, n2

MCNodes == {n1, n2}
MCWatchers == 1..2
=============================================================================
