---------------------------- MODULE NodeLifecycle ----------------------------
(***************************************************************************)
(* What a Node promises its caller (spec section 4.1), with every          *)
(* operation one atomic step: Start and Restart bring an inactive member   *)
(* up (its data directory then exists), Terminate takes an active one      *)
(* down, Clean removes the data of an inactive one; Restart and Terminate  *)
(* refuse inside the cool-down after the last Terminate / Restart, and     *)
(* a Clean that removes the data counts as a Terminate for the cool-down.  *)
(* "Timestamps are updated only on success": a failed call changes         *)
(* nothing and is a stuttering step.  The etcd processes are not part of   *)
(* this view.                                                              *)
(*                                                                         *)
(* Time is the age of the two stamps, saturated at LimitInterval; a tick   *)
(* may age any of them, since the detailed model reads a stamp that is     *)
(* about to be reset as already reset.                                     *)
(***************************************************************************)
EXTENDS Naturals

CONSTANTS Nodes, LimitInterval

VARIABLES
    on,       \* is the member active?
    data,     \* does its data directory exist?
    sinceT,   \* age of its last Terminate (or Clean)
    sinceR    \* age of its last Restart

avars == <<on, data, sinceT, sinceR>>

Cool(n) == sinceT[n] >= LimitInterval /\ sinceR[n] >= LimitInterval

Older(x) == IF x < LimitInterval THEN x + 1 ELSE x

AStart(n) ==
    /\ ~on[n]
    /\ on' = [on EXCEPT ![n] = TRUE]
    /\ data' = [data EXCEPT ![n] = TRUE]
    /\ UNCHANGED <<sinceT, sinceR>>

ARestart(n) ==
    /\ ~on[n] /\ Cool(n)
    /\ on' = [on EXCEPT ![n] = TRUE]
    /\ data' = [data EXCEPT ![n] = TRUE]
    /\ sinceR' = [sinceR EXCEPT ![n] = 0]
    /\ UNCHANGED sinceT

ATerminate(n) ==
    /\ on[n] /\ Cool(n)
    /\ on' = [on EXCEPT ![n] = FALSE]
    /\ sinceT' = [sinceT EXCEPT ![n] = 0]
    /\ UNCHANGED <<data, sinceR>>

AClean(n) ==
    /\ ~on[n]
    /\ sinceT' = [sinceT EXCEPT ![n] = 0]
    /\ data' = [data EXCEPT ![n] = FALSE]
    /\ UNCHANGED <<on, sinceR>>

ATick ==
    \E S, U \in SUBSET Nodes :
        /\ sinceT' = [n \in Nodes |-> IF n \in S THEN Older(sinceT[n]) ELSE sinceT[n]]
        /\ sinceR' = [n \in Nodes |-> IF n \in U THEN Older(sinceR[n]) ELSE sinceR[n]]
        /\ UNCHANGED <<on, data>>

AInit ==
    /\ on = [n \in Nodes |-> FALSE]
    /\ data = [n \in Nodes |-> FALSE]
    /\ sinceT = [n \in Nodes |-> LimitInterval]
    /\ sinceR = [n \in Nodes |-> LimitInterval]

ANext ==
    \/ \E n \in Nodes : AStart(n) \/ ARestart(n) \/ ATerminate(n) \/ AClean(n)
    \/ ATick

LifecycleSpec == AInit /\ [][ANext]_avars
=============================================================================
