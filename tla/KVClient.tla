------------------------------- MODULE KVClient -------------------------------
(***************************************************************************)
(* The client operations of defaultCluster (src/proc/proc_cluster.go       *)
(* 481-502, 659-935): Put, Get, Delete, WatchPut and Leader, called one at *)
(* a time by a web handler while other users start and stop members.       *)
(*                                                                         *)
(* Each call reads Endpoints() (the name -> endpoint map of every member,  *)
(* and the endpoints of the active ones), resolves its target, dials with  *)
(* clientv3.New (5 s dial timeout) and makes one RPC under a 3 s context.  *)
(* An RPC can only succeed at a member that is active; it may fail at any. *)
(* WatchPut opens one watch per watcher, triggers it with a put, and waits *)
(* on a WaitGroup for goroutines that each take the event or a 3 s timer;  *)
(* its deferred calls close every watch on return.  Payloads, keys and     *)
(* the log lines written with c.Write are left out.                        *)
(***************************************************************************)
EXTENDS Naturals, FiniteSets

CONSTANTS
    Nodes,        \* the members: the keys of nameToNode
    Watchers,     \* the watchersN watcher indices of WatchPut
    Unnamed,      \* the empty name ""
    UnknownName,  \* a name no member has
    NoNode        \* no single target member

Names == Nodes \cup {Unnamed, UnknownName}
Ops == {"put", "get", "delete", "watch", "leader"}

VARIABLES
    active,   \* active[n]: IsActive() of member n, as other users leave it
    kc,       \* where the calling handler goroutine is
    kop,      \* the operation it is in
    req,      \* the name it was called with
    tgt,      \* the member it resolved, or NoNode
    eps,      \* the members whose endpoints it dials
    kret,     \* what its last call returned
    sub,      \* sub[i]: the watch of watcher i (ctx and Watcher client)
    wst,      \* wst[i]: the goroutine of watcher i
    wg        \* the WaitGroup counter of WatchPut

kvars == <<active, kc, kop, req, tgt, eps, kret, sub, wst, wg>>
callVars == <<kop, req, tgt, eps>>
watchVars == <<sub, wst, wg>>

ActiveSet == {n \in Nodes : active[n]}

-----------------------------------------------------------------------------
(* Target resolution                                                       *)

\* `if name == "" { for n := range nameToEndpoint { name = n; break } }`:
\* the first key of a Go map, which is any member, active or not.
Resolve(name) == IF name = Unnamed THEN Nodes ELSE {name}

\* The call begins: Endpoints() is read and the target looked up.  A name
\* the map does not hold ends the call with "does not exist".
Begin(o, name, next) ==
    /\ kc = "Idle"
    /\ kop' = o /\ req' = name
    /\ IF name = UnknownName
         THEN /\ kc' = "Idle" /\ kret' = "err"
              /\ tgt' = NoNode /\ eps' = {}
         ELSE \E n \in Resolve(name) :
                /\ tgt' = n /\ eps' = {n}
                /\ kc' = next /\ kret' = "none"
    /\ UNCHANGED <<active, watchVars>>

Put(name) == Begin("put", name, "Dial")
Get(name) == Begin("get", name, "Dial")
Delete(name) == Begin("delete", name, "Dial")

\* WatchPut does not fail on an unknown name: it keeps the endpoints of
\* every active member.
WatchPut(name) ==
    /\ kc = "Idle"
    /\ kop' = "watch" /\ req' = name
    /\ IF name = UnknownName
         THEN tgt' = NoNode /\ eps' = ActiveSet
         ELSE \E n \in Resolve(name) : tgt' = n /\ eps' = {n}
    /\ kc' = "Dial" /\ kret' = "none"
    /\ UNCHANGED <<active, watchVars>>

\* Leader dials the endpoints of the active members.
Leader ==
    /\ kc = "Idle"
    /\ kop' = "leader" /\ req' = NoNode
    /\ tgt' = NoNode /\ eps' = ActiveSet
    /\ kc' = "Dial" /\ kret' = "none"
    /\ UNCHANGED <<active, watchVars>>

-----------------------------------------------------------------------------
(* The call                                                                *)

\* Some dialled member answers.
Reachable == \E n \in eps : active[n]

\* The call returns r; WatchPut's deferred cancel() and Close() run.
Finish(r) ==
    /\ kc' = "Idle" /\ kret' = r
    /\ sub' = [i \in Watchers |-> IF sub[i] = "open" THEN "closed" ELSE sub[i]]

\* clientv3.New: no endpoints, or none reachable in 5 s, is an error.
Dial ==
    /\ kc = "Dial"
    /\ \/ Finish("err")
       \/ /\ Reachable
          /\ kc' = IF kop = "watch" THEN "Watch" ELSE "Rpc"
          /\ UNCHANGED <<kret, sub>>
    /\ UNCHANGED <<active, callVars, wst, wg>>

\* kvc.Put / Get / Delete under a 3 s context, or MemberLeader and the
\* lookup of the leader's name in nameToNode.  MemberLeader runs under
\* context.Background(), with no deadline: nothing makes it return, and
\* KVSpec gives it no fairness.
Rpc ==
    /\ kc = "Rpc"
    /\ \/ Finish("err")
       \/ Reachable /\ Finish("ok")
    /\ UNCHANGED <<active, callVars, wst, wg>>

\* One Watch per watcher on a client of the pool, each with a cancel that
\* is deferred.
WatchOpen ==
    /\ kc = "Watch"
    /\ sub' = [i \in Watchers |-> "open"]
    /\ kc' = "Trigger"
    /\ UNCHANGED <<active, callVars, kret, wst, wg>>

\* Mutant of Trigger: the error return skips the deferred clean-up.
TriggerNoDefer ==
    /\ kc = "Trigger"
    /\ \/ kc' = "Idle" /\ kret' = "err" /\ UNCHANGED <<sub, wst, wg>>
       \/ /\ Reachable
          /\ wst' = [i \in Watchers |-> "waiting"]
          /\ wg' = Cardinality(Watchers)
          /\ kc' = "Wait"
          /\ UNCHANGED <<kret, sub>>
    /\ UNCHANGED <<active, callVars>>

\* The triggering put under a 3 s context: its error is returned;
\* otherwise wg.Add(watchersN) and one goroutine per watcher.
Trigger ==
    /\ kc = "Trigger"
    /\ \/ Finish("err") /\ UNCHANGED <<wst, wg>>
       \/ /\ Reachable
          /\ wst' = [i \in Watchers |-> "waiting"]
          /\ wg' = Cardinality(Watchers)
          /\ kc' = "Wait"
          /\ UNCHANGED <<kret, sub>>
    /\ UNCHANGED <<active, callVars>>

-----------------------------------------------------------------------------
(* The watcher goroutines                                                  *)

\* `case wresp, ok := <-rch`: the event (or the closing of the channel)
\* arrives; defer wg.Done().
WatcherRecv(i) ==
    /\ wst[i] = "waiting" /\ sub[i] = "open"
    /\ wst' = [wst EXCEPT ![i] = "ended"]
    /\ wg' = wg - 1
    /\ UNCHANGED <<active, kc, callVars, kret, sub>>

\* Mutant of WatcherTimeout: the select has no timer case.
WatcherNoTimer(i) == wst[i] = "waiting" /\ FALSE

\* `case <-time.After(3 * time.Second)`: "watch timed out"; wg.Done().
WatcherTimeout(i) ==
    /\ wst[i] = "waiting"
    /\ wst' = [wst EXCEPT ![i] = "ended"]
    /\ wg' = wg - 1
    /\ UNCHANGED <<active, kc, callVars, kret, sub>>

\* wg.Wait() is over: WatchPut returns nil; its defers close every watch.
WatchDone ==
    /\ kc = "Wait" /\ wg = 0
    /\ Finish("ok")
    /\ UNCHANGED <<active, callVars, wst, wg>>

-----------------------------------------------------------------------------
(* Other users start and stop members (the Cluster model).                *)

Flip(n) ==
    /\ active' = [active EXCEPT ![n] = ~@]
    /\ UNCHANGED <<kc, callVars, kret, watchVars>>

KVInit ==
    /\ active \in [Nodes -> BOOLEAN]
    /\ kc = "Idle" /\ kop = "put" /\ req = Unnamed
    /\ tgt = NoNode /\ eps = {}
    /\ kret = "none"
    /\ sub = [i \in Watchers |-> "none"]
    /\ wst = [i \in Watchers |-> "idle"]
    /\ wg = 0

\* The rest of each operation once its target is known: Put, Get and
\* Delete dial and make their one RPC, Leader dials the active endpoints
\* and asks for the leader, WatchPut dials, watches and triggers.
PutCall == kop = "put" /\ (Dial \/ Rpc)
GetCall == kop = "get" /\ (Dial \/ Rpc)
DeleteCall == kop = "delete" /\ (Dial \/ Rpc)
LeaderCall == kop = "leader" /\ (Dial \/ Rpc)
WatchCall == kop = "watch" /\ (Dial \/ WatchOpen \/ Trigger \/ WatchDone)

\* A step of the handler's call once it has begun.
CallStep == PutCall \/ GetCall \/ DeleteCall \/ LeaderCall \/ WatchCall

\* The steps a deadline bounds: every one but MemberLeader's (492).
BoundedStep == CallStep /\ ~(kop = "leader" /\ kc = "Rpc")

KVNext ==
    \/ \E name \in Names : Put(name) \/ Get(name) \/ Delete(name) \/ WatchPut(name)
    \/ Leader
    \/ CallStep
    \/ \E i \in Watchers : WatcherRecv(i) \/ WatcherTimeout(i)
    \/ \E n \in Nodes : Flip(n)

\* The handler's goroutine runs; every RPC, the dial and the watcher's
\* timer are bounded in time.  Calls, members going up and down and watch
\* events are not fair.
KVSpec ==
    /\ KVInit /\ [][KVNext]_kvars
    /\ WF_kvars(BoundedStep)
    /\ \A i \in Watchers : WF_kvars(WatcherTimeout(i))

-----------------------------------------------------------------------------
(* Properties                                                              *)

\* An unnamed Put, Get, Delete or WatchPut goes to an active member whenever
\* there is one: spec 4.4, "resolves a target endpoint (named or
\* arbitrary-active)", and 4.2, the sorted active endpoints are "relied on
\* by endpoint selection" (proc_cluster.go 661-666, 699-704, 748-753,
\* 862-867).
UnnamedReachesActive ==
    [][kc = "Idle" /\ kc' = "Dial" /\ req' = Unnamed /\ ActiveSet # {}
          => active[tgt']]_kvars

\* Every call but Leader returns: each RPC runs under a 3 s context, and
\* WatchPut's wg.Wait() ends because every watcher goroutine's select has
\* a timer (proc_cluster.go 687, 726, 774, 903, 909-932).  Leader's
\* MemberLeader has no deadline and is left out.
CallsReturn == kc # "Idle" /\ kop # "leader" ~> kc = "Idle"

\* When a call has returned, no watch it opened is still open and no
\* watcher goroutine is still waiting: its defers close the watches on
\* every path, the error return of the triggering put included, and its
\* nil return waits for every watcher (spec 4.4, Watch-demo;
\* proc_cluster.go 883-934).
WatchPutQuiesces ==
    kc = "Idle" =>
        \A i \in Watchers : sub[i] # "open" /\ wst[i] # "waiting"
=============================================================================
