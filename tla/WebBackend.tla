------------------------------ MODULE WebBackend ------------------------------
(***************************************************************************)
(* The web backend's global state and the cluster's log routing.           *)
(*                                                                         *)
(* The backend globals are the copy kept at the end of                     *)
(* src/proc/proc_cluster.go, 937-1143.  The user cache is guarded by        *)
(* globalCache.mu.  withCache registers a request's user, okToRequest      *)
(* counts the request against the user's one-second budget, a goroutine    *)
(* polls the user list, and another deletes users who started over an      *)
(* hour ago.                                                                *)
(*                                                                         *)
(* A request that is let through runs a cluster operation.  That           *)
(* operation writes its log line with defaultCluster.Write (303-337) to    *)
(* the shared stream or to the user's own stream, which Stream (345-358)   *)
(* creates lazily under c.mu.  Both are buffered channels of capacity      *)
(* 5000 (Cap here); a send on a full one blocks.  The page of each user    *)
(* reads its stream, and the presentation layer drains the shared one.     *)
(* The etcd processes write their output to the shared stream              *)
(* (NodeWebLocal.Write, node_web_local.go 52-70).                          *)
(*                                                                         *)
(* Time is the age of each user's two stamps, saturated just past the      *)
(* bound the code compares it with, and requestCount is saturated at 5.    *)
(* The code only tests `== 1` and `< 5`, so both are exact.                *)
(***************************************************************************)
EXTENDS Naturals, FiniteSets

CONSTANTS
    Users,      \* user ids; a user's stream id is its user id
    Handlers,   \* request handler goroutines
    UserOf,     \* UserOf[h]: the user (getUserID) of handler h's request
    Cap,        \* capacity of every stream channel (5000)
    Second,     \* ticks in time.Second
    Hour,       \* ticks in time.Hour
    MaxChans,   \* bound on the channels Stream may create
    NoHolder,   \* nobody: no handler holds globalCache.mu, no id owns a channel
    NoChan      \* no channel

ChanIds == 1..MaxChans

VARIABLES
    cacheMu,      \* the handler holding globalCache.mu across calls
    users,        \* the keys of globalCache.users
    requestCount, \* userData.requestCount, saturated at 5
    sinceLast,    \* age of userData.lastRequestTime, saturated at Second + 1
    sinceStart,   \* age of userData.startTime, saturated at Hour + 1
    pc,           \* pc[h]: where request handler h is
    wch,          \* wch[h]: the channel h's Write sends on
    idToStream,   \* defaultCluster.idToStream
    owner,        \* owner[c]: the stream id channel c was made for
    nchan,        \* channels made so far
    buf,          \* buf[c]: lines buffered in channel c
    shared,       \* lines buffered in sharedStream
    rch,          \* rch[u]: the channel the page of user u reads
    pollPc        \* where the status poller is

cacheVars == <<cacheMu, users, requestCount, sinceLast, sinceStart>>
streamVars == <<wch, idToStream, owner, nchan, buf, shared, rch>>
pollVars == <<pollPc>>
wvars == <<cacheVars, pc, streamVars, pollVars>>

Older(x, bound) == IF x <= bound THEN x + 1 ELSE x

-----------------------------------------------------------------------------
(* The user cache                                                           *)

\* Mutant of Request: the `defer globalCache.mu.Unlock()` that the comment
\* of withCache warns about.
WithCacheDeferUnlock(h) ==
    LET u == UserOf[h] IN
    /\ pc[h] = "idle" /\ cacheMu = NoHolder
    /\ IF u \in users
         THEN UNCHANGED <<users, requestCount, sinceLast, sinceStart>>
         ELSE /\ users' = users \cup {u}
              /\ requestCount' = [requestCount EXCEPT ![u] = 0]
              /\ sinceLast' = [sinceLast EXCEPT ![u] = Second + 1]
              /\ sinceStart' = [sinceStart EXCEPT ![u] = 0]
    /\ pc' = [pc EXCEPT ![h] = "check"]
    /\ cacheMu' = h
    /\ UNCHANGED <<streamVars, pollVars>>

\* withCache: under globalCache.mu, a user not in the map is added with
\* startTime now, a zero lastRequestTime and a zero count.
Request(h) ==
    LET u == UserOf[h] IN
    /\ pc[h] = "idle" /\ cacheMu = NoHolder
    /\ IF u \in users
         THEN UNCHANGED <<users, requestCount, sinceLast, sinceStart>>
         ELSE /\ users' = users \cup {u}
              /\ requestCount' = [requestCount EXCEPT ![u] = 0]
              /\ sinceLast' = [sinceLast EXCEPT ![u] = Second + 1]
              /\ sinceStart' = [sinceStart EXCEPT ![u] = 0]
    /\ pc' = [pc EXCEPT ![h] = "check"]
    /\ UNCHANGED <<cacheMu, streamVars, pollVars>>

\* okToRequest, one critical section: a user no longer in the map is
\* refused; the count is raised, the first of a count stamps
\* lastRequestTime, counts below 5 pass, and a count of 5 or more passes
\* only over a second after that stamp, which restarts the count.
OkToRequest(h) ==
    LET u == UserOf[h] IN
    /\ pc[h] = "check" /\ cacheMu = NoHolder
    /\ IF u \notin users
         THEN /\ pc' = [pc EXCEPT ![h] = "idle"]
              /\ UNCHANGED <<requestCount, sinceLast>>
         ELSE LET c == IF requestCount[u] < 5 THEN requestCount[u] + 1 ELSE 5
                  s == IF c = 1 THEN 0 ELSE sinceLast[u]
              IN \/ /\ c < 5
                    /\ requestCount' = [requestCount EXCEPT ![u] = c]
                    /\ sinceLast' = [sinceLast EXCEPT ![u] = s]
                    /\ pc' = [pc EXCEPT ![h] = "write"]
                 \/ /\ c = 5 /\ s > Second
                    /\ requestCount' = [requestCount EXCEPT ![u] = 0]
                    /\ sinceLast' = [sinceLast EXCEPT ![u] = 0]
                    /\ pc' = [pc EXCEPT ![h] = "write"]
                 \/ /\ c = 5 /\ s <= Second
                    /\ requestCount' = [requestCount EXCEPT ![u] = c]
                    /\ sinceLast' = [sinceLast EXCEPT ![u] = s]
                    /\ pc' = [pc EXCEPT ![h] = "idle"]
    /\ UNCHANGED <<cacheMu, users, sinceStart, streamVars, pollVars>>

\* The data of a deleted user is gone.  withCache sets it afresh when it
\* adds the user again, so the model keeps it at those values meanwhile.
Forgotten(u) == u \notin users

\* The expiry goroutine's sweep: users that started over an hour ago are
\* deleted from the map.
Expire ==
    /\ cacheMu = NoHolder
    /\ LET gone == {u \in users : sinceStart[u] > Hour}
       IN /\ users' = users \ gone
          /\ requestCount' = [u \in Users |-> IF u \in gone THEN 0 ELSE requestCount[u]]
          /\ sinceLast' = [u \in Users |-> IF u \in gone THEN Second + 1 ELSE sinceLast[u]]
          /\ sinceStart' = [u \in Users |-> IF u \in gone THEN 0 ELSE sinceStart[u]]
    /\ UNCHANGED <<cacheMu, pc, streamVars, pollVars>>

\* Time passes; only the stamps of users in the map are kept.
Tick ==
    /\ sinceLast' = [u \in Users |-> IF Forgotten(u) THEN sinceLast[u]
                                      ELSE Older(sinceLast[u], Second)]
    /\ sinceStart' = [u \in Users |-> IF Forgotten(u) THEN sinceStart[u]
                                       ELSE Older(sinceStart[u], Hour)]
    /\ UNCHANGED <<cacheMu, users, requestCount, pc, streamVars, pollVars>>

-----------------------------------------------------------------------------
(* Log routing                                                              *)

\* Mutant of Stream: the lookup of idToStream is lost, so every call makes
\* a new channel.
StreamNoLookup(u, c) ==
    /\ nchan < MaxChans /\ c = nchan + 1
    /\ nchan' = c
    /\ idToStream' = [idToStream EXCEPT ![u] = c]
    /\ owner' = [owner EXCEPT ![c] = u]

\* c.Stream(u) under c.mu: the channel of u, made and stored on first use.
\* c is the channel it returns.
Stream(u, c) ==
    IF idToStream[u] # NoChan
      THEN c = idToStream[u] /\ UNCHANGED <<idToStream, owner, nchan>>
      ELSE /\ nchan < MaxChans /\ c = nchan + 1
           /\ nchan' = c
           /\ idToStream' = [idToStream EXCEPT ![u] = c]
           /\ owner' = [owner EXCEPT ![c] = u]

\* The handler's operation calls c.Write(name, msg, u...) or, without a
\* stream id, c.Write(name, msg).  Write looks the name up under c.mu: an
\* unknown name (WatchPut's, say) returns an error and the line is
\* dropped.  A local node's line goes to sharedStream without stream ids
\* and to c.Stream(id) for each id otherwise.
Write(h) ==
    /\ pc[h] = "write"
    /\ \/ pc' = [pc EXCEPT ![h] = "idle"]
          /\ UNCHANGED <<wch, idToStream, owner, nchan>>
       \/ pc' = [pc EXCEPT ![h] = "sendShared"]
          /\ UNCHANGED <<wch, idToStream, owner, nchan>>
       \/ \E c \in ChanIds :
             /\ Stream(UserOf[h], c)
             /\ wch' = [wch EXCEPT ![h] = c]
             /\ pc' = [pc EXCEPT ![h] = "send"]
    /\ UNCHANGED <<cacheVars, buf, shared, rch, pollVars>>

\* `vt.sharedStream <- msg`: blocks while the channel is full.
SendShared(h) ==
    /\ pc[h] = "sendShared" /\ shared < Cap
    /\ shared' = shared + 1
    /\ pc' = [pc EXCEPT ![h] = "idle"]
    /\ UNCHANGED <<cacheVars, wch, idToStream, owner, nchan, buf, rch, pollVars>>

\* `c.Stream(streamID) <- msg`: blocks while the channel is full.
Send(h) ==
    /\ pc[h] = "send" /\ buf[wch[h]] < Cap
    /\ buf' = [buf EXCEPT ![wch[h]] = @ + 1]
    /\ pc' = [pc EXCEPT ![h] = "idle"]
    /\ UNCHANGED <<cacheVars, wch, idToStream, owner, nchan, shared, rch, pollVars>>

\* NodeWebLocal.Write: a line of etcd output goes to sharedStream.
EtcdLine ==
    /\ shared < Cap
    /\ shared' = shared + 1
    /\ UNCHANGED <<cacheVars, pc, wch, idToStream, owner, nchan, buf, rch, pollVars>>

\* The presentation layer drains sharedStream.
SharedDrain ==
    /\ shared > 0
    /\ shared' = shared - 1
    /\ UNCHANGED <<cacheVars, pc, wch, idToStream, owner, nchan, buf, rch, pollVars>>

\* The page of user u asks for c.Stream(u) and then reads from it.
ReaderAttach(u) ==
    /\ rch[u] = NoChan
    /\ \E c \in ChanIds : Stream(u, c) /\ rch' = [rch EXCEPT ![u] = c]
    /\ UNCHANGED <<cacheVars, pc, wch, buf, shared, pollVars>>

ReaderRecv(u) ==
    /\ rch[u] # NoChan /\ buf[rch[u]] > 0
    /\ buf' = [buf EXCEPT ![rch[u]] = @ - 1]
    /\ UNCHANGED <<cacheVars, pc, wch, idToStream, owner, nchan, shared, rch, pollVars>>

-----------------------------------------------------------------------------
(* The status poller                                                        *)

\* clusterActive(): globalCache.cluster read under globalCache.mu; the
\* cluster is set before the poller starts.  Then, in a second critical
\* section, len(globalCache.users).
PollCount ==
    /\ pollPc = "count" /\ cacheMu = NoHolder
    /\ pollPc' = IF users # {} THEN "list" ELSE "count"
    /\ UNCHANGED <<cacheVars, pc, streamVars>>

\* The user ids are collected in a third critical section (the map may
\* have changed since it was counted); the masked list and a Status call
\* are then published under globalStatus.mu, which nothing else here
\* takes, and the poller sleeps a second.  The list's contents are left
\* out.
PollList ==
    /\ pollPc = "list" /\ cacheMu = NoHolder
    /\ pollPc' = "count"
    /\ UNCHANGED <<cacheVars, pc, streamVars>>

-----------------------------------------------------------------------------

WebInit ==
    /\ cacheMu = NoHolder
    /\ users = {}
    /\ requestCount = [u \in Users |-> 0]
    /\ sinceLast = [u \in Users |-> Second + 1]
    /\ sinceStart = [u \in Users |-> 0]
    /\ pc = [h \in Handlers |-> "idle"]
    /\ wch = [h \in Handlers |-> NoChan]
    /\ idToStream = [u \in Users |-> NoChan]
    /\ owner = [c \in ChanIds |-> NoHolder]
    /\ nchan = 0
    /\ buf = [c \in ChanIds |-> 0]
    /\ shared = 0
    /\ rch = [u \in Users |-> NoChan]
    /\ pollPc = "count"

\* The steps of a request once it has begun.
HandlerStep(h) == OkToRequest(h) \/ Write(h) \/ SendShared(h) \/ Send(h)

WebNext ==
    \/ \E h \in Handlers : Request(h) \/ HandlerStep(h)
    \/ \E u \in Users : ReaderAttach(u) \/ ReaderRecv(u)
    \/ Expire \/ Tick \/ EtcdLine \/ SharedDrain
    \/ PollCount \/ PollList

\* A handler that has begun keeps running.  Go's mutex hands the lock to a
\* starving waiter and a blocked channel send is served in the order of
\* the channel's queue, so a handler waiting on globalCache.mu or on a full
\* channel is eventually served (SF).  Each page reads its stream and the
\* presentation layer drains the shared one.  New requests, etcd output,
\* the clock, the sweep and the poller are not fair.
WebSpec ==
    /\ WebInit /\ [][WebNext]_wvars
    /\ \A h \in Handlers : SF_wvars(HandlerStep(h))
    /\ \A u \in Users : WF_wvars(ReaderAttach(u)) /\ WF_wvars(ReaderRecv(u))
    /\ WF_wvars(SharedDrain)

-----------------------------------------------------------------------------
(* Properties                                                               *)

\* Every line in a user's stream is in the channel that user's page reads
\* (or will get from Stream): Stream hands one channel per stream id to
\* every writer and reader, made once and kept (spec section 3, "created
\* lazily, one per identifier, never removed"; proc_cluster.go 345-358).
LinesReachReader ==
    \A c \in ChanIds :
        buf[c] > 0 => /\ idToStream[owner[c]] = c
                      /\ rch[owner[c]] \in {NoChan, c}

\* Every request returns: withCache releases globalCache.mu before the
\* handler runs (the comment at proc_cluster.go 1107-1108 warns that
\* holding it deadlocks okToRequest), and a Write blocked on a full stream
\* goes on once the reader takes a line.
RequestsReturn == \A h \in Handlers : pc[h] # "idle" ~> pc[h] = "idle"
=============================================================================
