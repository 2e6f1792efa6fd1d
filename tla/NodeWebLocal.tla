---------------------------- MODULE NodeWebLocal ----------------------------
(***************************************************************************)
(* The lifecycle of a locally spawned etcd process, NodeWebLocal in        *)
(* src/proc/node_web_local.go.  Start, Restart, Terminate and Clean each   *)
(* take the cluster mutex (pmu) several times; between two critical        *)
(* sections the calling goroutine runs unlocked, so every critical section *)
(* is one action and a call is a short sequence of actions of one thread.  *)
(* The OS processes the calls launch and signal are modelled too: a        *)
(* process runs, is sent SIGTERM, exits, and is reaped by the goroutine    *)
(* that waits on it, after which its pid can be handed out again.          *)
(*                                                                         *)
(* Time is kept as the age of the two timestamps the cool-down compares,   *)
(* saturated at LimitInterval: the code only ever asks whether             *)
(* time.Now().Sub(last) < limitInterval.                                   *)
(***************************************************************************)
EXTENDS Naturals, FiniteSets

CONSTANTS
    Nodes,          \* the etcd members (model values)
    Threads,        \* goroutines that call Node operations
    Pids,           \* the OS pid space (small, so that pids are reused)
    LimitInterval,  \* limitInterval, in clock ticks
    NoThread,       \* the mutex is not held
    FlagsMayFail,   \* may Flags.String() return an error?
    LaunchMayFail,  \* may cmd.Start() fail with pids to spare (EAGAIN, ENOMEM)?
    FastShutdown    \* does a SIGTERM'd etcd exit before the clock ticks?

ASSUME LimitInterval \in Nat \ {0}
ASSUME Pids \subseteq Nat \ {0}
ASSUME FlagsMayFail \in BOOLEAN /\ LaunchMayFail \in BOOLEAN /\ FastShutdown \in BOOLEAN

NoPid == 0                       \* NodeWebLocal.PID before the first start
ProcStates == {"free", "running", "terminating", "zombie"}
Alive == {"running", "terminating", "zombie"}   \* kill(2) finds the pid
Labels == {"Done", "StartCheck", "StartLaunch", "StartCommit",
           "RestartCheck", "RestartLaunch", "RestartCommit",
           "TerminateCheck", "TerminateKill", "TerminateCommit",
           "CleanCheck", "CleanRemove",
           "Request"}   \* a web request not yet past withCache (Cluster)

VARIABLES
    active,        \* NodeWebLocal.active
    pid,           \* NodeWebLocal.PID
    sinceT,        \* age of NodeWebLocal.lastTerminated, capped
    sinceR,        \* age of NodeWebLocal.lastRestarted, capped
    clusterState,  \* Flags.InitialClusterState
    dataDir,       \* does Flags.DataDir exist on disk?
    pstate,        \* pstate[p]: the OS process that holds pid p
    powner,        \* powner[p]: the node whose command started process p
                   \* (NoThread while no process holds p)
    mu,            \* holder of the cluster mutex shared by all nodes
    pc,            \* pc[t]: next step of the call thread t is executing
    target,        \* target[t]: the node t's call operates on
    lpid,          \* lpid[t]: pid of the cmd t has started (local cmd)
    ret            \* ret[t]: did the last call of t return nil?

nodeVars == <<active, pid, sinceT, sinceR, clusterState, dataDir>>
procVars == <<pstate, powner>>
threadVars == <<mu, pc, target, lpid, ret>>
vars == <<nodeVars, procVars, threadVars>>

TypeOK ==
    /\ active \in [Nodes -> BOOLEAN]
    /\ pid \in [Nodes -> Pids \cup {NoPid}]
    /\ sinceT \in [Nodes -> 0..LimitInterval]
    /\ sinceR \in [Nodes -> 0..LimitInterval]
    /\ clusterState \in [Nodes -> {"new", "existing"}]
    /\ dataDir \in [Nodes -> BOOLEAN]
    /\ pstate \in [Pids -> ProcStates]
    /\ powner \in [Pids -> Nodes \cup {NoThread}]
    /\ mu \in Threads \cup {NoThread}
    /\ pc \in [Threads -> Labels]
    /\ target \in [Threads -> Nodes]
    /\ lpid \in [Threads -> Pids \cup {NoPid}]
    /\ ret \in [Threads -> {"ok", "err"}]

-----------------------------------------------------------------------------
(* Helpers                                                                 *)

LiveProcs(n) == {p \in Pids : powner[p] = n /\ pstate[p] \in Alive}
RunningProcs(n) == {p \in Pids : powner[p] = n /\ pstate[p] = "running"}
FreePids == {p \in Pids : pstate[p] = "free"}

\* A call of t ends and returns err; the caller sees pc[t] = "Done".  Every
\* caller in the code only asks err != nil, so ret keeps just that; the
\* error kinds name the early returns.  The local cmd goes out of scope.
Return(t, err) ==
    /\ pc' = [pc EXCEPT ![t] = "Done"]
    /\ ret' = [ret EXCEPT ![t] = IF err = "ok" THEN "ok" ELSE "err"]
    /\ lpid' = [lpid EXCEPT ![t] = NoPid]

Goto(t, l) == pc' = [pc EXCEPT ![t] = l] /\ UNCHANGED <<ret, lpid>>

\* t begins the Node operation whose first step is label l, on node n.
Call(t, l, n) ==
    /\ pc' = [pc EXCEPT ![t] = l]
    /\ target' = [target EXCEPT ![t] = n]
    /\ UNCHANGED <<nodeVars, procVars, mu, lpid, ret>>

\* exec.Command(...).Start() of "sh -c etcd <flags>" for node n: fork fails
\* when no pid is free (or, with LaunchMayFail, for want of other
\* resources) and the error is returned; otherwise the new etcd runs and
\* opens its data dir, and t goes on at label next.
Launch(t, n, next) ==
    \/ /\ (FreePids = {} \/ LaunchMayFail)
       /\ Return(t, "StartErr")
       /\ UNCHANGED <<procVars, dataDir>>
    \/ \E p \in FreePids :
          /\ pstate' = [pstate EXCEPT ![p] = "running"]
          /\ powner' = [powner EXCEPT ![p] = n]
          /\ dataDir' = [dataDir EXCEPT ![n] = TRUE]
          /\ lpid' = [lpid EXCEPT ![t] = p]
          /\ pc' = [pc EXCEPT ![t] = next]
          /\ UNCHANGED ret

CooledDown(n) == sinceT[n] >= LimitInterval /\ sinceR[n] >= LimitInterval

\* nd.IsActive(): active read under pmu; callers take it with mu = NoThread.
IsActive(n) == active[n]

-----------------------------------------------------------------------------
(* Start (node_web_local.go 100-153)                                      *)

StartCheck(t) ==
    LET n == target[t] IN
    /\ pc[t] = "StartCheck" /\ mu = NoThread
    /\ IF active[n] THEN Return(t, "AlreadyActive")
                    ELSE Goto(t, "StartLaunch")
    /\ UNCHANGED <<nodeVars, procVars, mu, target>>

\* pmu is taken around Flags.String(); its error return leaves pmu locked.
StartLaunch(t) ==
    LET n == target[t] IN
    /\ pc[t] = "StartLaunch" /\ mu = NoThread
    /\ \/ /\ FlagsMayFail
          /\ mu' = t
          /\ Return(t, "FlagsErr")
          /\ UNCHANGED <<nodeVars, procVars>>
       \/ /\ Launch(t, n, "StartCommit")
          /\ UNCHANGED <<active, pid, sinceT, sinceR, clusterState, mu>>
    /\ UNCHANGED target

StartCommit(t) ==
    LET n == target[t] IN
    /\ pc[t] = "StartCommit" /\ mu = NoThread
    /\ pid' = [pid EXCEPT ![n] = lpid[t]]
    /\ active' = [active EXCEPT ![n] = TRUE]
    /\ Return(t, "ok")
    /\ UNCHANGED <<sinceT, sinceR, clusterState, dataDir, procVars,
                   mu, target>>

-----------------------------------------------------------------------------
(* Restart (node_web_local.go 155-220)                                    *)

RestartCheck(t) ==
    LET n == target[t] IN
    /\ pc[t] = "RestartCheck" /\ mu = NoThread
    /\ CASE active[n]         -> Return(t, "AlreadyActive")
         [] ~CooledDown(n)    -> Return(t, "TooSoon")
         [] OTHER             -> Goto(t, "RestartLaunch")
    /\ UNCHANGED <<nodeVars, procVars, mu, target>>

RestartLaunch(t) ==
    LET n == target[t] IN
    /\ pc[t] = "RestartLaunch" /\ mu = NoThread
    /\ clusterState' = [clusterState EXCEPT ![n] = "existing"]
    /\ \/ /\ FlagsMayFail
          /\ mu' = t
          /\ Return(t, "FlagsErr")
          /\ UNCHANGED <<dataDir, procVars>>
       \/ /\ Launch(t, n, "RestartCommit")
          /\ UNCHANGED mu
    /\ UNCHANGED <<active, pid, sinceT, sinceR, target>>

RestartCommit(t) ==
    LET n == target[t] IN
    /\ pc[t] = "RestartCommit" /\ mu = NoThread
    /\ pid' = [pid EXCEPT ![n] = lpid[t]]
    /\ sinceR' = [sinceR EXCEPT ![n] = 0]
    /\ active' = [active EXCEPT ![n] = TRUE]
    /\ Return(t, "ok")
    /\ UNCHANGED <<sinceT, clusterState, dataDir, procVars, mu, target>>

-----------------------------------------------------------------------------
(* Terminate (node_web_local.go 222-263)                                  *)

TerminateCheck(t) ==
    LET n == target[t] IN
    /\ pc[t] = "TerminateCheck" /\ mu = NoThread
    /\ CASE ~active[n]        -> Return(t, "NotActive")
         [] ~CooledDown(n)    -> Return(t, "TooSoon")
         [] OTHER             -> Goto(t, "TerminateKill")
    /\ UNCHANGED <<nodeVars, procVars, mu, target>>

\* Mutant of TerminateKill: the signal is never delivered.
TerminateKillNoSignal(t) ==
    LET p == pid[target[t]] IN
    /\ pc[t] = "TerminateKill"
    /\ IF p \in Pids /\ pstate[p] \in Alive
         THEN Goto(t, "TerminateCommit")
         ELSE Return(t, "KillErr")
    /\ UNCHANGED <<nodeVars, procVars, mu, target>>

\* syscall.Kill(nd.PID, SIGTERM), nd.PID read without the lock.  kill(2)
\* reaches whatever process holds that pid now; ESRCH once it was reaped.
TerminateKill(t) ==
    LET p == pid[target[t]] IN
    /\ pc[t] = "TerminateKill"
    /\ IF p \in Pids /\ pstate[p] \in Alive
         THEN /\ pstate' = [pstate EXCEPT ![p] =
                               IF @ = "running" THEN "terminating" ELSE @]
              /\ Goto(t, "TerminateCommit")
         ELSE /\ Return(t, "KillErr")
              /\ UNCHANGED pstate
    /\ UNCHANGED <<nodeVars, powner, mu, target>>

TerminateCommit(t) ==
    LET n == target[t] IN
    /\ pc[t] = "TerminateCommit" /\ mu = NoThread
    /\ sinceT' = [sinceT EXCEPT ![n] = 0]
    /\ active' = [active EXCEPT ![n] = FALSE]
    /\ Return(t, "ok")
    /\ UNCHANGED <<pid, sinceR, clusterState, dataDir, procVars,
                   mu, target>>

-----------------------------------------------------------------------------
(* Clean (node_web_local.go 265-284): stamps lastTerminated before it     *)
(* even looks at active, then os.RemoveAll(DataDir).                       *)

CleanCheck(t) ==
    LET n == target[t] IN
    /\ pc[t] = "CleanCheck" /\ mu = NoThread
    /\ sinceT' = [sinceT EXCEPT ![n] = 0]
    /\ IF active[n] THEN Return(t, "StillActive")
                    ELSE Goto(t, "CleanRemove")
    /\ UNCHANGED <<active, pid, sinceR, clusterState, dataDir, procVars,
                   mu, target>>

\* os.RemoveAll: it fails ("directory not empty") when an etcd of the
\* member is still alive and writing into the directory; the error is
\* returned and the directory stays.
CleanRemove(t) ==
    /\ pc[t] = "CleanRemove"
    /\ \/ /\ dataDir' = [dataDir EXCEPT ![target[t]] = FALSE]
          /\ Return(t, "ok")
       \/ /\ LiveProcs(target[t]) # {}
          /\ Return(t, "err")
          /\ UNCHANGED dataDir
    /\ UNCHANGED <<active, pid, sinceT, sinceR, clusterState, procVars,
                   mu, target>>

\* One step of whatever Node call thread t is in the middle of.
NodeStep(t) ==
    \/ StartCheck(t) \/ StartLaunch(t) \/ StartCommit(t)
    \/ RestartCheck(t) \/ RestartLaunch(t) \/ RestartCommit(t)
    \/ TerminateCheck(t) \/ TerminateKill(t) \/ TerminateCommit(t)
    \/ CleanCheck(t) \/ CleanRemove(t)

FirstLabels == {"StartCheck", "RestartCheck", "TerminateCheck", "CleanCheck"}

-----------------------------------------------------------------------------
(* The environment: the etcd processes and the clock                     *)

\* Another etcd of the same member still holds its ports and data dir.
PortConflict(p) ==
    \E q \in Pids \ {p} :
        powner[q] = powner[p] /\ pstate[q] \in {"running", "terminating"}

\* An etcd exits: on SIGTERM, or when it cannot bind its member's ports.
ProcExit(p) ==
    /\ \/ pstate[p] = "terminating"
       \/ pstate[p] = "running" /\ PortConflict(p)
    /\ pstate' = [pstate EXCEPT ![p] = "zombie"]
    /\ UNCHANGED <<nodeVars, powner, threadVars>>

\* cmd.Wait() returns in the goroutine Start/Restart left behind; the pid
\* is free for the OS to hand out again.
ProcReap(p) ==
    /\ pstate[p] = "zombie"
    /\ pstate' = [pstate EXCEPT ![p] = "free"]
    /\ powner' = [powner EXCEPT ![p] = NoThread]
    /\ UNCHANGED <<nodeVars, threadVars>>

Age(x) == IF x < LimitInterval THEN x + 1 ELSE x

Tick ==
    /\ \E n \in Nodes : sinceT[n] < LimitInterval \/ sinceR[n] < LimitInterval
    /\ FastShutdown => \A p \in Pids : pstate[p] # "terminating"
    /\ sinceT' = [n \in Nodes |-> Age(sinceT[n])]
    /\ sinceR' = [n \in Nodes |-> Age(sinceR[n])]
    /\ UNCHANGED <<active, pid, clusterState, dataDir, procVars, threadVars>>

Env == Tick \/ \E p \in Pids : ProcExit(p) \/ ProcReap(p)

-----------------------------------------------------------------------------
(* Callers: goroutines of the web handlers, any operation on any node     *)

UserCall(t) ==
    /\ pc[t] = "Done"
    /\ \E l \in FirstLabels, n \in Nodes : Call(t, l, n)

Init ==
    /\ active = [n \in Nodes |-> FALSE]
    /\ pid = [n \in Nodes |-> NoPid]
    /\ sinceT = [n \in Nodes |-> LimitInterval]    \* zero time.Time
    /\ sinceR = [n \in Nodes |-> LimitInterval]
    /\ clusterState = [n \in Nodes |-> "new"]
    /\ dataDir = [n \in Nodes |-> FALSE]
    /\ pstate = [p \in Pids |-> "free"]
    /\ powner = [p \in Pids |-> NoThread]
    /\ mu = NoThread
    /\ pc = [t \in Threads |-> "Done"]
    /\ target = [t \in Threads |-> CHOOSE n \in Nodes : TRUE]
    /\ lpid = [t \in Threads |-> NoPid]
    /\ ret = [t \in Threads |-> "ok"]

Next ==
    \/ \E t \in Threads : UserCall(t) \/ NodeStep(t)
    \/ Env

\* Goroutines keep running; a signalled etcd exits and is reaped; time
\* passes.  Callers are not fair: a user may stop issuing calls.
Fairness ==
    /\ \A t \in Threads : WF_vars(NodeStep(t))
    /\ \A p \in Pids : WF_vars(pstate[p] # "running" /\ ProcExit(p))
    /\ \A p \in Pids : WF_vars(ProcReap(p))
    /\ WF_vars(Tick)

Spec == Init /\ [][Next]_vars /\ Fairness

-----------------------------------------------------------------------------
(* Refinement: the abstract view of NodeLifecycle.  An operation takes     *)
(* effect where it launches the etcd (Start, Restart), signals it          *)
(* (Terminate) or stamps the cool-down (Clean); its later commit under     *)
(* pmu is read as already done.                                            *)

Pending(n, l) == \E t \in Threads : pc[t] = l /\ target[t] = n

AbsOn == [n \in Nodes |->
            IF Pending(n, "StartCommit") \/ Pending(n, "RestartCommit") THEN TRUE
            ELSE IF Pending(n, "TerminateCommit") THEN FALSE
            ELSE active[n]]
AbsData == [n \in Nodes |-> dataDir[n] /\ ~Pending(n, "CleanRemove")]
AbsSinceT == [n \in Nodes |-> IF Pending(n, "TerminateCommit") THEN 0 ELSE sinceT[n]]
AbsSinceR == [n \in Nodes |-> IF Pending(n, "RestartCommit") THEN 0 ELSE sinceR[n]]

NL == INSTANCE NodeLifecycle
        WITH on <- AbsOn, data <- AbsData, sinceT <- AbsSinceT, sinceR <- AbsSinceR

-----------------------------------------------------------------------------
(* Properties                                                              *)

\* Start/Restart check active and set it in two separate critical sections
\* of pmu; the node must still never get two etcd processes that both run
\* un-signalled (node_web_local.go 106-142, 162-209).
AtMostOneRunning == \A n \in Nodes : Cardinality(RunningProcs(n)) <= 1

\* Every behaviour of the three-step operations (check under pmu, launch or
\* signal unlocked, commit under pmu) is one the atomic Node of spec 4.1
\* allows, where "timestamps are updated only on success": in particular a
\* Clean refused with StillActive, or whose RemoveAll fails, must leave the
\* cool-down stamp alone (node_web_local.go 100-284; Clean stamps
\* lastTerminated at 272, before it checks active).
ImplementsLifecycle == NL!LifecycleSpec

\* Terminate of node n sends SIGTERM only to an etcd that n's own command
\* started (node_web_local.go 249-250 reads nd.PID, never cleared).
NoStrayKill ==
    [][\A t \in Threads :
          LET p == pid[target[t]] IN
          TerminateKill(t) /\ p \in Pids /\ pstate[p] = "running"
             => powner[p] = target[t]]_vars
=============================================================================
