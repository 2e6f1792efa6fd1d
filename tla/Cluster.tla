------------------------------- MODULE Cluster -------------------------------
(***************************************************************************)
(* defaultCluster of src/proc/proc_cluster.go over NodeWebLocal members:   *)
(* the by-name delegation of Start/Restart/Terminate/Clean, Bootstrap      *)
(* (one goroutine per node, fan-in over the unbuffered channels done and   *)
(* errC, then a wait for SIGINT and Shutdown), Shutdown (one goroutine per *)
(* node doing Terminate then Clean, fan-in over a WaitGroup) and the       *)
(* revive loop of the web backend (src/unnamed/part_001 167-180) that      *)
(* calls Revive every ReviveInterval.                                      *)
(*                                                                         *)
(* The Node calls are the ones of NodeWebLocal; Bootstrap and Shutdown     *)
(* workers, the reviver and the web callers are its Threads.               *)
(***************************************************************************)
EXTENDS NodeWebLocal

CONSTANTS
    Users,       \* goroutines of web handlers calling Cluster operations
    Reviver,     \* the revive-loop goroutine, or NoThread when not running
    Worker,      \* Worker[n]: the Bootstrap/Shutdown goroutine of node n
    UseBootstrap,\* does the main goroutine run Bootstrap?
    UnknownName  \* a name that no node has

ASSUME Nodes # {}
ASSUME Worker \in [Nodes -> Threads]
ASSUME Users \cup {Reviver} \cup {Worker[n] : n \in Nodes} \subseteq Threads \cup {NoThread}
ASSUME UseBootstrap \in BOOLEAN

Workers == {Worker[n] : n \in Nodes}

VARIABLES
    mainPc,     \* where the main goroutine is in Bootstrap/Shutdown
    cn,         \* Bootstrap's count of values received from done
    mainRet,    \* what Bootstrap returned
    wstage,     \* wstage[w]: what worker goroutine w does around its calls
    wg,         \* Shutdown's sync.WaitGroup counter
    revStage,   \* where the reviver is in its loop and in Revive
    revTodo     \* nodes the current range over nameToNode has yet to visit

clusterVars == <<mainPc, cn, mainRet, wstage, wg, revStage, revTodo>>
allVars == <<vars, clusterVars>>

MainLabels == {"Init", "BootWait", "AwaitSignal", "ShutWait", "Exited"}
WorkerStages == {"Idle", "Boot", "BootSend", "ShutTerm", "ShutClean", "Finished"}
ReviveStages == {"Sleep", "Check", "Next", "Await"}

ClusterTypeOK ==
    /\ TypeOK
    /\ mainPc \in MainLabels
    /\ cn \in 0..Cardinality(Nodes)
    /\ mainRet \in {"none", "ok", "err"}
    /\ wstage \in [Workers -> WorkerStages]
    /\ wg \in 0..Cardinality(Nodes)
    /\ revStage \in ReviveStages
    /\ revTodo \subseteq Nodes

-----------------------------------------------------------------------------
(* Bootstrap (proc_cluster.go 414-445)                                    *)

BootstrapBegin ==
    /\ UseBootstrap /\ mainPc = "Init"
    /\ mainPc' = "BootWait"
    /\ pc' = [t \in Threads |-> IF t \in Workers THEN "StartCheck" ELSE pc[t]]
    /\ target' = [t \in Threads |->
                     IF t \in Workers THEN CHOOSE n \in Nodes : Worker[n] = t
                                      ELSE target[t]]
    /\ wstage' = [w \in Workers |-> "Boot"]
    /\ UNCHANGED <<nodeVars, procVars, mu, lpid, ret, cn, mainRet, wg,
                   revStage, revTodo>>

\* nd.Start() returned; the worker goes on to send on errC or done.
BootReturned(w) ==
    /\ wstage[w] = "Boot" /\ pc[w] = "Done"
    /\ wstage' = [wstage EXCEPT ![w] = "BootSend"]
    /\ UNCHANGED <<vars, mainPc, cn, mainRet, wg, revStage, revTodo>>

\* Mutant of BootRecv: the loop stops one receive early.
BootRecvOffByOne(w) ==
    /\ mainPc = "BootWait" /\ wstage[w] = "BootSend"
    /\ wstage' = [wstage EXCEPT ![w] = "Finished"]
    /\ IF ret[w] = "err"
         THEN /\ mainPc' = "Exited" /\ mainRet' = "err"
              /\ UNCHANGED cn
         ELSE /\ cn' = cn + 1
              /\ mainPc' = IF cn + 1 >= Cardinality(Nodes) - 1 THEN "AwaitSignal"
                                                               ELSE "BootWait"
              /\ UNCHANGED mainRet
    /\ UNCHANGED <<vars, wg, revStage, revTodo>>

\* Mutant of BootRecv: an error is counted like a done (the return is
\* missing).
BootRecvCountsErr(w) ==
    /\ mainPc = "BootWait" /\ wstage[w] = "BootSend"
    /\ wstage' = [wstage EXCEPT ![w] = "Finished"]
    /\ cn' = cn + 1
    /\ mainPc' = IF cn + 1 = Cardinality(Nodes) THEN "AwaitSignal" ELSE "BootWait"
    /\ UNCHANGED <<vars, mainRet, wg, revStage, revTodo>>

\* One receive of the select on done and errC: an error returns from
\* Bootstrap at once, and the workers still to send block forever.
BootRecv(w) ==
    /\ mainPc = "BootWait" /\ wstage[w] = "BootSend"
    /\ wstage' = [wstage EXCEPT ![w] = "Finished"]
    /\ IF ret[w] = "err"
         THEN /\ mainPc' = "Exited" /\ mainRet' = "err"
              /\ UNCHANGED cn
         ELSE /\ cn' = cn + 1
              /\ mainPc' = IF cn + 1 = Cardinality(Nodes) THEN "AwaitSignal"
                                                          ELSE "BootWait"
              /\ UNCHANGED mainRet
    /\ UNCHANGED <<vars, wg, revStage, revTodo>>

-----------------------------------------------------------------------------
(* Shutdown (proc_cluster.go 440-466), entered on SIGINT                  *)

ShutdownBegin ==
    /\ mainPc = "AwaitSignal"
    /\ mainPc' = "ShutWait"
    /\ wg' = Cardinality(Nodes)
    /\ pc' = [t \in Threads |-> IF t \in Workers THEN "TerminateCheck" ELSE pc[t]]
    /\ wstage' = [w \in Workers |-> "ShutTerm"]
    /\ UNCHANGED <<nodeVars, procVars, mu, target, lpid, ret, cn, mainRet,
                   revStage, revTodo>>

\* Terminate's error is only logged; Clean follows either way.
ShutTermReturned(w) ==
    /\ wstage[w] = "ShutTerm" /\ pc[w] = "Done"
    /\ wstage' = [wstage EXCEPT ![w] = "ShutClean"]
    /\ Call(w, "CleanCheck", target[w])
    /\ UNCHANGED <<mainPc, cn, mainRet, wg, revStage, revTodo>>

\* Mutant of ShutCleanReturned: wg.Add(1) in place of wg.Done().
ShutCleanReturnedAdds(w) ==
    /\ wstage[w] = "ShutClean" /\ pc[w] = "Done"
    /\ wstage' = [wstage EXCEPT ![w] = "Finished"]
    /\ wg' = wg + 1
    /\ UNCHANGED <<vars, mainPc, cn, mainRet, revStage, revTodo>>

\* Clean returned (error logged); defer wg.Done().
ShutCleanReturned(w) ==
    /\ wstage[w] = "ShutClean" /\ pc[w] = "Done"
    /\ wstage' = [wstage EXCEPT ![w] = "Finished"]
    /\ wg' = wg - 1
    /\ UNCHANGED <<vars, mainPc, cn, mainRet, revStage, revTodo>>

\* wg.Wait() returns; Shutdown, and with it Bootstrap, returns nil.
ShutdownEnd ==
    /\ mainPc = "ShutWait" /\ wg = 0
    /\ mainPc' = "Exited" /\ mainRet' = "ok"
    /\ UNCHANGED <<vars, cn, wstage, wg, revStage, revTodo>>

-----------------------------------------------------------------------------
(* The revive loop (part_001 167-180) and Revive (proc_cluster.go 380-392) *)

\* time.Sleep(ReviveInterval) is over; Revive ranges over nameToNode.
ReviveBegin ==
    /\ revStage = "Sleep"
    /\ revStage' = "Check" /\ revTodo' = Nodes
    /\ UNCHANGED <<vars, mainPc, cn, mainRet, wstage, wg>>

\* nd.IsActive() under pmu for the next node of the range: an active node
\* ends Revive with nil, the end of the range starts the restarts.
\* Mutant of ReviveCheck: the second range is never rewound, so it is
\* over before it began.
ReviveCheckNoRewind ==
    /\ revStage = "Check" /\ mu = NoThread
    /\ IF revTodo = {}
         THEN revStage' = "Next" /\ UNCHANGED revTodo
         ELSE \E n \in revTodo :
                IF IsActive(n) THEN revStage' = "Sleep" /\ UNCHANGED revTodo
                             ELSE revTodo' = revTodo \ {n} /\ UNCHANGED revStage
    /\ UNCHANGED <<vars, mainPc, cn, mainRet, wstage, wg>>

ReviveCheck ==
    /\ revStage = "Check" /\ mu = NoThread
    /\ IF revTodo = {}
         THEN revStage' = "Next" /\ revTodo' = Nodes
         ELSE \E n \in revTodo :
                IF IsActive(n) THEN revStage' = "Sleep" /\ UNCHANGED revTodo
                             ELSE revTodo' = revTodo \ {n} /\ UNCHANGED revStage
    /\ UNCHANGED <<vars, mainPc, cn, mainRet, wstage, wg>>

\* nd.Restart() on the next node of the second range.
ReviveNext ==
    /\ revStage = "Next" /\ pc[Reviver] = "Done"
    /\ IF revTodo = {}
         THEN revStage' = "Sleep" /\ UNCHANGED <<revTodo, vars>>
         ELSE \E n \in revTodo :
                /\ Call(Reviver, "RestartCheck", n)
                /\ revTodo' = revTodo \ {n}
                /\ revStage' = "Await"
    /\ UNCHANGED <<mainPc, cn, mainRet, wstage, wg>>

\* The first Restart error is returned (and logged by the loop).
ReviveAwait ==
    /\ revStage = "Await" /\ pc[Reviver] = "Done"
    /\ revStage' = IF ret[Reviver] = "err" THEN "Sleep" ELSE "Next"
    /\ UNCHANGED <<vars, mainPc, cn, mainRet, wstage, wg, revTodo>>

ReviveStep == ReviveBegin \/ ReviveCheck \/ ReviveNext \/ ReviveAwait

\* The loop holds globalCache.mu from before Revive until it returns, so a
\* web handler cannot pass withCache meanwhile.
ReviverHoldsCache == Reviver # NoThread /\ revStage # "Sleep"

-----------------------------------------------------------------------------
(* Cluster.Start/Restart/Terminate/Clean(name) (proc_cluster.go 360-412): *)
(* look the name up under c.mu, fail for an unknown one, else delegate.   *)
(* The handler first passes withCache, which takes globalCache.mu.        *)

\* A request arrives: its handler goroutine enters withCache.
ClusterRequest(t) ==
    /\ pc[t] = "Done"
    /\ pc' = [pc EXCEPT ![t] = "Request"]
    /\ UNCHANGED <<nodeVars, procVars, mu, target, lpid, ret, clusterVars>>

\* It passes withCache and looks the name up.  The lookup of a known name
\* blocks on c.mu like the first critical section of the call, which
\* takes that guard; an unknown name returns "does not exist".
ClusterCall(t) ==
    /\ pc[t] = "Request" /\ ~ReviverHoldsCache
    /\ \E l \in FirstLabels, name \in Nodes \cup {UnknownName} :
         IF name \in Nodes
           THEN Call(t, l, name)
           ELSE /\ mu = NoThread
                /\ pc' = [pc EXCEPT ![t] = "Done"]
                /\ ret' = [ret EXCEPT ![t] = "err"]
                /\ UNCHANGED <<nodeVars, procVars, mu, target, lpid>>
    /\ UNCHANGED clusterVars

-----------------------------------------------------------------------------

ClusterInit ==
    /\ Init
    /\ mainPc = "Init"
    /\ cn = 0
    /\ mainRet = "none"
    /\ wstage = [w \in Workers |-> "Idle"]
    /\ wg = 0
    /\ revStage = "Sleep"
    /\ revTodo = {}

WorkerStep(w) ==
    BootReturned(w) \/ BootRecv(w) \/ ShutTermReturned(w) \/ ShutCleanReturned(w)

\* After Bootstrap returns the command exits; what is left is the etcd
\* processes the environment still runs down.
Exited == mainPc = "Exited" /\ Users = {} /\ Reviver = NoThread

ClusterNext ==
    \/ \E t \in Threads : NodeStep(t) /\ UNCHANGED clusterVars
    \/ \E t \in Users : ClusterRequest(t) \/ ClusterCall(t)
    \/ Env /\ UNCHANGED clusterVars
    \/ BootstrapBegin \/ ShutdownBegin \/ ShutdownEnd
    \/ \E w \in Workers : WorkerStep(w)
    \/ Reviver # NoThread /\ ReviveStep
    \/ Exited /\ UNCHANGED allVars

\* Every goroutine keeps running, etcd exits on SIGTERM or when it cannot
\* bind its member's ports, time passes.  A handler waiting for
\* globalCache.mu gets it although the revive loop takes it again and
\* again (Go's mutex hands it to a waiter starving for 1 ms).  New web
\* requests and the SIGINT that starts Shutdown are not fair.
ClusterFairness ==
    /\ \A t \in Threads : WF_allVars(NodeStep(t) /\ UNCHANGED clusterVars)
    /\ \A t \in Users : SF_allVars(ClusterCall(t))
    /\ \A w \in Workers : WF_allVars(WorkerStep(w))
    /\ WF_allVars(BootstrapBegin) /\ WF_allVars(ShutdownEnd)
    /\ Reviver # NoThread => WF_allVars(ReviveStep)
    /\ \A p \in Pids : WF_allVars(ProcExit(p) /\ UNCHANGED clusterVars)
    /\ \A p \in Pids : WF_allVars(ProcReap(p) /\ UNCHANGED clusterVars)
    /\ WF_allVars(Tick /\ UNCHANGED clusterVars)

ClusterSpec == ClusterInit /\ [][ClusterNext]_allVars /\ ClusterFairness

-----------------------------------------------------------------------------
(* Properties                                                              *)

\* Bootstrap waits for a done from every node before it waits for the
\* signal: by then every member is active and has its etcd running
\* (proc_cluster.go 430-438).
BootstrapStartsAll ==
    mainPc = "AwaitSignal" =>
        \A n \in Nodes : active[n] /\ RunningProcs(n) # {}

\* A Start of Bootstrap that fails makes Bootstrap return that error, with
\* no signal: the first error short-circuits the wait on done, even when
\* another member's Start never finishes (it blocks on a pmu that a
\* failed Flags() left locked) (proc_cluster.go 421-437; spec 4.2,
\* "waits for all successes or the first failure").
BootstrapFailsFast ==
    \A w \in Workers :
        wstage[w] = "BootSend" /\ ret[w] = "err"
            ~> mainPc = "Exited" /\ mainRet = "err"

\* Once Shutdown has begun, every etcd process eventually exits and is
\* reaped: no member outlives the command (proc_cluster.go 453-464).
ShutdownStopsAll ==
    mainPc \in {"ShutWait", "Exited"} /\ mainRet # "err"
        ~> \A p \in Pids : pstate[p] = "free"

\* Once the web callers stop calling, a cluster none of whose members is
\* active comes back: the revive loop finds every member inactive and
\* restarts them, and a Restart refused inside the cool-down, or by a
\* call still in flight, is tried again on the next round (part_001
\* 167-180, proc_cluster.go 380-392; Cluster.Revive, "restarts all Nodes
\* in case no Node is up").
ClusterRevives ==
    <>[][\A t \in Users : ~ClusterRequest(t)]_allVars =>
        ((\A n \in Nodes : ~active[n]) ~> (\E n \in Nodes : active[n]))

\* Clean removes a member's data directory only when no etcd of that
\* member is alive any more (node_web_local.go 271-281, after Terminate).
CleanOnlyDeadData ==
    [][\A t \in Threads :
          CleanRemove(t) /\ ~dataDir'[target[t]] => LiveProcs(target[t]) = {}]_allVars
=============================================================================
