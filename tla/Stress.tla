-------------------------------- MODULE Stress --------------------------------
(***************************************************************************)
(* defaultCluster.Stress and stress (src/proc/proc_cluster.go 785-859).    *)
(* Stress starts the stress goroutine and selects on its errc, its donec   *)
(* and a 5 s timer.  stress dials, starts stressN put goroutines and       *)
(* counts values off the unbuffered channels done / errChan: the first     *)
(* error is forwarded on errc at once, stressN dones end in a division by  *)
(* stressN and a send on donec.                                            *)
(*                                                                         *)
(* Each put goroutine assigns the result of kvc.Put to the variable err of *)
(* stress (`_, err = kvc.Put(...)`, not `:=`), which all of them share,    *)
(* and then tests err.  The write and the read are two steps, so the       *)
(* puts interleave on err the way the unsynchronised accesses can.         *)
(***************************************************************************)
EXTENDS Naturals

CONSTANTS
    StressNs,   \* the values of stressN a caller may pass
    MaxN        \* the largest of them: put goroutines are 1..MaxN

ASSUME StressNs \subseteq 0..MaxN

Puts == 1..MaxN

VARIABLES
    n,         \* stressN of this call
    sg,        \* where the stress goroutine is
    err,       \* the err of stress that the put goroutines share
    put,       \* put[i]: where put goroutine i is
    outcome,   \* outcome[i]: what kvc.Put returned to goroutine i
    cnt,       \* stress's count of dones
    caller,    \* where Stress is
    sret       \* what Stress returned

vars == <<n, sg, err, put, outcome, cnt, caller, sret>>

-----------------------------------------------------------------------------
(* stress                                                                  *)

\* clientv3.New: an error goes to errc; else the stressN puts start.
StressDial ==
    /\ sg = "Dial"
    /\ \/ sg' = "SendErr" /\ UNCHANGED <<err, put>>
       \/ /\ sg' = "Collect" /\ err' = "nil"
          /\ put' = [i \in Puts |-> IF i <= n THEN "call" ELSE "idle"]
    /\ UNCHANGED <<n, outcome, cnt, caller, sret>>

\* `_, err = kvc.Put(ctx, key, val)`: the shared err is overwritten.
PutCall(i) ==
    /\ put[i] = "call"
    /\ \E r \in {"nil", "err"} :
          /\ outcome' = [outcome EXCEPT ![i] = r]
          /\ err' = r
    /\ put' = [put EXCEPT ![i] = "check"]
    /\ UNCHANGED <<n, sg, cnt, caller, sret>>

\* `if err != nil`: the goroutine tests the shared err, whoever wrote it.
PutCheck(i) ==
    /\ put[i] = "check"
    /\ put' = [put EXCEPT ![i] = IF err = "nil" THEN "sendDone" ELSE "readErr"]
    /\ UNCHANGED <<n, sg, err, outcome, cnt, caller, sret>>

\* `errChan <- err` reads the shared err a second time: another put may
\* have set it to nil since the test, and then a nil error is sent.
PutSend(i) ==
    /\ put[i] = "readErr"
    /\ put' = [put EXCEPT ![i] = IF err = "nil" THEN "sendNilErr" ELSE "sendErr"]
    /\ UNCHANGED <<n, sg, err, outcome, cnt, caller, sret>>

\* One iteration of the select of stress: an error is forwarded on errc
\* (the other puts are never received from again), a done is counted.
StressRecv(i) ==
    /\ sg = "Collect" /\ cnt # n
    /\ put[i] \in {"sendDone", "sendErr", "sendNilErr"}
    /\ put' = [put EXCEPT ![i] = "exited"]
    /\ IF put[i] = "sendDone"
         THEN cnt' = cnt + 1 /\ UNCHANGED sg
         ELSE /\ sg' = IF put[i] = "sendErr" THEN "SendErr" ELSE "SendNilErr"
              /\ UNCHANGED cnt
    /\ UNCHANGED <<n, err, outcome, caller, sret>>

\* cnt = stressN: pt := tt / time.Duration(stressN), then donec <- {}.
\* Dividing by a zero Duration panics, which ends the program.
StressFinish ==
    /\ sg = "Collect" /\ cnt = n
    /\ sg' = IF n = 0 THEN "Panicked" ELSE "SendDone"
    /\ UNCHANGED <<n, err, put, outcome, cnt, caller, sret>>

-----------------------------------------------------------------------------
(* Stress                                                                  *)

\* The select of Stress receives from errc or donec; `return err` returns
\* whatever error value came on errc, nil included.
StressReturn ==
    /\ caller = "Wait" /\ sg \in {"SendErr", "SendNilErr", "SendDone"}
    /\ caller' = "Returned"
    /\ sret' = IF sg = "SendErr" THEN "err" ELSE "nil"
    /\ sg' = "Exited"
    /\ UNCHANGED <<n, err, put, outcome, cnt>>

\* time.After(5 s) fires first: Stress returns; a later send of stress on
\* errc or donec has no receiver.
StressTimeout ==
    /\ caller = "Wait"
    /\ caller' = "Returned" /\ sret' = "timeout"
    /\ UNCHANGED <<n, sg, err, put, outcome, cnt>>

StressInit ==
    /\ n \in StressNs
    /\ sg = "Dial"
    /\ err = "nil"
    /\ put = [i \in Puts |-> "idle"]
    /\ outcome = [i \in Puts |-> "none"]
    /\ cnt = 0
    /\ caller = "Wait"
    /\ sret = "none"

\* The call is over: nothing can move any more.
Stuck ==
    /\ caller = "Returned"
    /\ \A i \in Puts : put[i] \notin {"call", "check", "readErr"}
    /\ sg \notin {"Dial", "Collect"}
    /\ UNCHANGED vars

StressNext ==
    \/ StressDial \/ StressFinish \/ StressReturn \/ StressTimeout
    \/ \E i \in Puts : PutCall(i) \/ PutCheck(i) \/ PutSend(i) \/ StressRecv(i)
    \/ Stuck

StressSpec == StressInit /\ [][StressNext]_vars

-----------------------------------------------------------------------------
(* Properties                                                              *)

\* Stress returns nil only when every one of the stressN puts succeeded
\* (proc_cluster.go 818-827, 849-858; spec section 8, Stress scenario).
NilMeansAllPut ==
    sret = "nil" => \A i \in 1..n : outcome[i] = "nil"
=============================================================================
