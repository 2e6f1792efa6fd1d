------------------------------ MODULE StatusAgg ------------------------------
(***************************************************************************)
(* defaultCluster.Status and getStatus (src/proc/proc_cluster.go 513-658). *)
(* Status starts one getStatus goroutine per member that Endpoints()       *)
(* names (every member, active or not) and counts one value per probe off  *)
(* the unbuffered channels sc and errc.  A probe dials, then runs three    *)
(* sub-queries one after the other, each in a goroutine of its own that    *)
(* reports on the unbuffered channels done / errChan, while the probe      *)
(* selects on those and on a 5 s timer.                                    *)
(*                                                                         *)
(* The remote answers are nondeterministic: a sub-query succeeds, fails,   *)
(* or (the key count only: http.Get has no timeout) never returns.  The    *)
(* contents of a ServerStatus are abstracted to whether it is a probe's    *)
(* result ("stat") or Status's "unreachable" placeholder.                  *)
(***************************************************************************)
EXTENDS Naturals, FiniteSets

CONSTANT Nodes           \* the members of the cluster

Queries == 1..3          \* MemberList, Hash, /metrics
GrpcQueries == {1, 2}    \* bounded by their 3 s context

VARIABLES
    stage,    \* stage[n]: where getStatus for member n is
    q,        \* q[n]: the sub-query the probe of n waits on
    sub,      \* sub[n][k]: the goroutine of sub-query k of probe n
    reply,    \* reply[n]: the value probe n sends on sc ("ok") or errc
    result,   \* nameToStatus, by member
    err,      \* Status's err: the last error received
    cn,       \* Status's count of values received
    phase     \* Status itself: collecting, or returned

vars == <<stage, q, sub, reply, result, err, cn, phase>>

SubStates == {"none", "running", "done", "failed", "exited"}

StatusTypeOK ==
    /\ stage \in [Nodes -> {"Dial", "Query", "Reply", "Returned"}]
    /\ q \in [Nodes -> Queries]
    /\ sub \in [Nodes -> [Queries -> SubStates]]
    /\ reply \in [Nodes -> {"none", "ok", "err"}]
    /\ result \in [Nodes -> {"none", "stat", "placeholder"}]
    /\ err \in {"nil", "err"}
    /\ cn \in 0..Cardinality(Nodes)
    /\ phase \in {"Collect", "Returned"}

\* The names of the map Endpoints() returns: every member, active or not
\* (the IsActive test only filters the list of gRPC endpoints).  IsActive
\* takes each member's pmu; waiting for it only delays Status, so this
\* model, which checks what Status returns and not whether it returns,
\* leaves the lock out.
Endpoints == Nodes

-----------------------------------------------------------------------------
(* getStatus                                                               *)

\* The probe ends and will send v on sc ("ok") or errc.
Finish(n, v) ==
    /\ stage' = [stage EXCEPT ![n] = "Reply"]
    /\ reply' = [reply EXCEPT ![n] = v]

\* The probe starts the goroutine of sub-query k and selects.
Ask(n, k) ==
    /\ stage' = [stage EXCEPT ![n] = "Query"]
    /\ q' = [q EXCEPT ![n] = k]

\* grpc.Dial (not blocking): an error is sent on errc at once.
ProbeDial(n) ==
    /\ stage[n] = "Dial"
    /\ \/ Finish(n, "err") /\ UNCHANGED <<q, sub>>
       \/ Ask(n, 1) /\ sub' = [sub EXCEPT ![n][1] = "running"] /\ UNCHANGED reply
    /\ UNCHANGED <<result, err, cn, phase>>

\* The call of sub-query k returns; its goroutine then blocks on the
\* unbuffered send of done (success) or errChan (error).
SubReturn(n, k) ==
    /\ sub[n][k] = "running"
    /\ \E r \in {"done", "failed"} : sub' = [sub EXCEPT ![n][k] = r]
    /\ UNCHANGED <<stage, q, reply, result, err, cn, phase>>

\* The select receives from the running sub-query: an error ends the probe,
\* a success starts the next sub-query or, after the last, sends the stat.
ProbeRecv(n) ==
    LET k == q[n] IN
    /\ stage[n] = "Query" /\ sub[n][k] \in {"done", "failed"}
    /\ IF sub[n][k] = "failed"
         THEN /\ Finish(n, "err")
              /\ sub' = [sub EXCEPT ![n][k] = "exited"]
              /\ UNCHANGED q
         ELSE IF k = 3
           THEN /\ Finish(n, "ok")
                /\ sub' = [sub EXCEPT ![n][k] = "exited"]
                /\ UNCHANGED q
           ELSE /\ Ask(n, k + 1)
                /\ sub' = [sub EXCEPT ![n][k] = "exited", ![n][k + 1] = "running"]
                /\ UNCHANGED reply
    /\ UNCHANGED <<result, err, cn, phase>>

\* time.After(5 s) fires first: "timed out" goes to errc and getStatus
\* returns; nobody will ever receive from the sub-query's goroutine.
ProbeTimeout(n) ==
    /\ stage[n] = "Query"
    /\ Finish(n, "err")
    /\ UNCHANGED <<q, sub, result, err, cn, phase>>

-----------------------------------------------------------------------------
(* Status                                                                  *)

\* Mutant of Deliver: the sender is counted but never released.
DeliverKeepsSender(n) ==
    /\ phase = "Collect" /\ stage[n] = "Reply"
    /\ IF reply[n] = "ok"
         THEN result' = [result EXCEPT ![n] = "stat"] /\ UNCHANGED err
         ELSE err' = "err" /\ UNCHANGED result
    /\ cn' = cn + 1
    /\ UNCHANGED <<stage, q, sub, reply, phase>>

\* One iteration of the counting loop: receive from sc or errc.
Deliver(n) ==
    /\ phase = "Collect" /\ stage[n] = "Reply"
    /\ stage' = [stage EXCEPT ![n] = "Returned"]
    /\ IF reply[n] = "ok"
         THEN result' = [result EXCEPT ![n] = "stat"] /\ UNCHANGED err
         ELSE err' = "err" /\ UNCHANGED result
    /\ cn' = cn + 1
    /\ UNCHANGED <<q, sub, reply, phase>>

\* Mutant of StatusReturn: no placeholders are filled in.
StatusReturnNoFill ==
    /\ phase = "Collect" /\ cn = Cardinality(Nodes)
    /\ phase' = "Returned"
    /\ UNCHANGED <<stage, q, sub, reply, result, err, cn>>

\* cn reached the number of probes: a placeholder for every member without
\* a stat, and Status returns the map with the last error.
StatusReturn ==
    /\ phase = "Collect" /\ cn = Cardinality(Nodes)
    /\ result' = [n \in Nodes |-> IF result[n] = "none" THEN "placeholder"
                                                       ELSE result[n]]
    /\ phase' = "Returned"
    /\ UNCHANGED <<stage, q, sub, reply, err, cn>>

\* Status has started a probe for every name Endpoints() returns.
StatusInit ==
    /\ stage = [n \in Endpoints |-> "Dial"]
    /\ q = [n \in Nodes |-> 1]
    /\ sub = [n \in Nodes |-> [k \in Queries |-> "none"]]
    /\ reply = [n \in Nodes |-> "none"]
    /\ result = [n \in Nodes |-> "none"]
    /\ err = "nil"
    /\ cn = 0
    /\ phase = "Collect"

\* Status has returned and no goroutine can move any more.
Quiescent ==
    /\ phase = "Returned"
    /\ \A n \in Nodes, k \in Queries : sub[n][k] # "running"
    /\ UNCHANGED vars

StatusNext ==
    \/ \E n \in Nodes : ProbeDial(n) \/ ProbeRecv(n) \/ ProbeTimeout(n) \/ Deliver(n)
    \/ \E n \in Nodes, k \in Queries : SubReturn(n, k)
    \/ StatusReturn
    \/ Quiescent

\* Goroutines run; the timer fires; a gRPC call returns once its context
\* expires.  http.Get has no timeout, so the key-count query may never
\* return.
StatusFairness ==
    /\ \A n \in Nodes : WF_vars(ProbeDial(n)) /\ WF_vars(ProbeRecv(n))
                        /\ WF_vars(ProbeTimeout(n)) /\ WF_vars(Deliver(n))
    /\ \A n \in Nodes, k \in GrpcQueries : WF_vars(SubReturn(n, k))
    /\ WF_vars(StatusReturn)

StatusSpec == StatusInit /\ [][StatusNext]_vars /\ StatusFairness

-----------------------------------------------------------------------------
(* Properties                                                              *)

\* The returned map has one entry per member: the probe's stat exactly for
\* the members whose probe succeeded, the placeholder for the others; and
\* the error is nil exactly when every probe succeeded (proc_cluster.go
\* 637-657).
CompleteSnapshot ==
    phase = "Returned" =>
        /\ \A n \in Nodes : result[n] = IF reply[n] = "ok" THEN "stat"
                                                         ELSE "placeholder"
        /\ (err = "nil") <=> (\A n \in Nodes : reply[n] = "ok")

\* A sub-query goroutine that nobody will receive from any more.
Leaked(n, k) ==
    /\ sub[n][k] \in {"running", "done", "failed"}
    /\ ~(stage[n] = "Query" /\ q[n] = k)

\* Every goroutine Status starts eventually ends: no wait is unbounded.
NoGoroutineLeak == <>[](\A n \in Nodes, k \in Queries : ~Leaked(n, k))
=============================================================================
